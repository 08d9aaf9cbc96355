----------------------------- MODULE Statements -----------------------------
(***************************************************************************)
(* Closing of billing days: the billing worker of every process walks, for *)
(* each partner, from the last stated day to the newest closable one,      *)
(* reads the usage of a day and writes its statement.  Usage is metered    *)
(* meanwhile, and two workers may walk the same days.                      *)
(*                                                                         *)
(* Time is counted in units of which DayLen make a billing day.  A         *)
(* statement is the set of requests it charges and the set it counts as    *)
(* incomplete; a request is charged when its row holds its full usage and  *)
(* a price (measured), and counted otherwise.                              *)
(***************************************************************************)
EXTENDS Integers, FiniteSets, FiniteSetsExt

CONSTANTS
    Partners,
    Workers,      \* the billing worker of each process
    Requests,
    PartnerOf,    \* the consumer of each request
    Created,      \* the day each partner was created
    Order,        \* where each partner comes in ORDER BY consumer_id
    DayLen,       \* units per day
    Delay,        \* close_delay_minutes
    MaxCatchup,   \* MAX_CATCHUP_DAYS
    MaxClock,     \* bound: the last instant
    MaxFaults,    \* bound: reads and writes that fail
    NoStatement, NoDraft, NoPartner

ASSUME Units == /\ DayLen \in Nat \ {0} /\ Delay \in Nat
                /\ MaxCatchup \in Nat \ {0} /\ MaxClock \in Nat /\ MaxFaults \in Nat
ASSUME OwnersKnown == /\ PartnerOf \in [Requests -> Partners]
                      /\ Created \in [Partners -> Nat] /\ Order \in [Partners -> Nat]

VARIABLES
    clock,
    row,        \* usage_records: state and created_at of each request
    stmt,       \* daily_statements with their lines, per partner and day
    worker,     \* the tick each worker is in
    present,    \* requests whose row was committed before their day's cutoff
    settled,    \* requests measured before their day's cutoff
    reported,   \* days an operator was warned about: failed or truncated
    failed,     \* days whose read or write failed
    faults

usageVars == <<row, present, settled>>
vars == <<clock, usageVars, stmt, worker, reported, failed, faults>>

LastDay == MaxClock \div DayLen
Days == 0..LastDay

Statement == [charged : SUBSET Requests, incomplete : SUBSET Requests]
ASSUME NoStatementFresh == /\ NoStatement \notin Statement /\ NoDraft \notin Statement
                           /\ NoPartner \notin Partners

RowStates == {"none", "stamped", "in_flight", "unmeasured", "measured"}

Idle == [pc |-> "idle", through |-> 0, left |-> {}, partner |-> NoPartner,
         next |-> 0, draft |-> NoDraft]

\* Types; a walk starts on a day that exists, never before the first one.
TypeOK ==
    /\ clock \in 0..MaxClock
    /\ row \in [Requests -> [state : RowStates, at : 0..MaxClock]]
    /\ stmt \in [Partners -> [Days -> Statement \cup {NoStatement}]]
    /\ worker \in [Workers ->
          [pc : {"idle", "walk", "drafted"}, through : -2..LastDay, left : SUBSET Partners,
           partner : Partners \cup {NoPartner}, next : Nat,
           draft : Statement \cup {NoDraft}]]
    /\ present \subseteq Requests /\ settled \subseteq Requests
    /\ reported \subseteq Partners \X Days /\ failed \subseteq Partners \X Days
    /\ faults \in 0..MaxFaults

Init ==
    /\ clock = 0
    /\ row = [r \in Requests |-> [state |-> "none", at |-> 0]]
    /\ stmt = [c \in Partners |-> [d \in Days |-> NoStatement]]
    /\ worker = [w \in Workers |-> Idle]
    /\ present = {} /\ settled = {} /\ reported = {} /\ failed = {} /\ faults = 0

-----------------------------------------------------------------------------
(* The calendar. *)

DayOf(t) == t \div DayLen
StartOf(d) == d * DayLen
EndOf(d) == (d + 1) * DayLen
Cutoff(d) == EndOf(d) + Delay

\* Mutant: a day may be closed as soon as it has ended.
ClosableNoDelay(now) == {d \in {DayOf(now) - 1, DayOf(now) - 2} : EndOf(d) <= now}

\* closable_through tries yesterday, then the day before.
Closable(now) == {d \in {DayOf(now) - 1, DayOf(now) - 2} : Cutoff(d) <= now}

Stated(c) == {d \in Days : stmt[c][d] # NoStatement}

\* The last stated day of the partner, or the day before it was created.
Anchor(c) == IF Stated(c) = {} THEN Created[c] - 1 ELSE Max(Stated(c))

\* Mutant: both ends of the period belong to it.
UsageOfClosed(c, d) ==
    {r \in Requests : /\ PartnerOf[r] = c /\ row[r].state \notin {"none", "stamped"}
                      /\ row[r].at >= StartOf(d) /\ row[r].at <= EndOf(d)}

\* The rows of a partner in the half-open period of a day.
UsageOf(c, d) ==
    {r \in Requests : /\ PartnerOf[r] = c /\ row[r].state \notin {"none", "stamped"}
                      /\ row[r].at >= StartOf(d) /\ row[r].at < EndOf(d)}

\* statement_for_day: no row of the period is left out.
StatementForDay(c, d) ==
    LET measured == {r \in UsageOf(c, d) : row[r].state = "measured"}
    IN [charged |-> measured, incomplete |-> UsageOf(c, d) \ measured]

-----------------------------------------------------------------------------
(* Metering, as the ledger does it: created_at is taken before the accept   *)
(* is committed, and a row can be finalized long after.                     *)

Advance ==
    /\ clock < MaxClock
    /\ clock' = clock + 1
    /\ UNCHANGED <<usageVars, stmt, worker, reported, failed, faults>>

Stamp(r) ==
    /\ row[r].state = "none" /\ DayOf(clock) >= Created[PartnerOf[r]]
    /\ row' = [row EXCEPT ![r] = [state |-> "stamped", at |-> clock]]
    /\ UNCHANGED <<clock, present, settled, stmt, worker, reported, failed, faults>>

InTime(r) == clock < Cutoff(DayOf(row[r].at))

\* The accept commits, and the finalize or a recovery follows; a row recovered
\* as interrupted can still be corrected.
Meter(r, from, to) ==
    /\ row[r].state \in from
    /\ row' = [row EXCEPT ![r].state = to]
    /\ present' = IF InTime(r) THEN present \cup {r} ELSE present
    /\ settled' = IF InTime(r) /\ to = "measured" THEN settled \cup {r} ELSE settled
    /\ UNCHANGED <<clock, stmt, worker, reported, failed, faults>>

Accept(r) == Meter(r, {"stamped"}, "in_flight")
Finalize(r) == \/ Meter(r, {"in_flight", "unmeasured"}, "measured")
               \/ Meter(r, {"in_flight"}, "unmeasured")

-----------------------------------------------------------------------------
(* One tick of a worker: run_once, close_days, close_day. *)

Keep == UNCHANGED <<clock, usageVars>>

BeginTick(w) ==
    /\ worker[w].pc = "idle" /\ Closable(clock) # {}
    /\ worker' = [worker EXCEPT ![w] =
                    [Idle EXCEPT !.pc = "walk", !.through = Max(Closable(clock)),
                                 !.left = Partners]]
    /\ UNCHANGED <<stmt, reported, failed, faults>> /\ Keep

Walking(w) == worker[w].pc = "walk" /\ worker[w].partner # NoPartner

\* list_partners gives the partners by consumer id.
FirstLeft(w, c) == c \in worker[w].left /\ \A p \in worker[w].left : Order[c] <= Order[p]

\* Mutant: the warning counts one skipped day too few.
NextPartnerShort(w, c) ==
    LET k == worker[w]
        from == Anchor(c) + 1
        floor == k.through - MaxCatchup + 1
    IN /\ k.pc = "walk" /\ k.partner = NoPartner /\ FirstLeft(w, c)
       /\ worker' = [worker EXCEPT ![w].partner = c, ![w].left = @ \ {c},
                                   ![w].next = Max({from, floor})]
       /\ reported' = reported \cup ({c} \X {d \in Days : from <= d /\ d < floor - 1})
       /\ UNCHANGED <<stmt, failed, faults>> /\ Keep

\* anchor_for and days_to_close; a truncated backlog is warned about.
NextPartner(w, c) ==
    LET k == worker[w]
        from == Anchor(c) + 1
        floor == k.through - MaxCatchup + 1
    IN /\ k.pc = "walk" /\ k.partner = NoPartner /\ FirstLeft(w, c)
       /\ worker' = [worker EXCEPT ![w].partner = c, ![w].left = @ \ {c},
                                   ![w].next = Max({from, floor})]
       /\ reported' = IF k.through >= from
                      THEN reported \cup ({c} \X {d \in Days : from <= d /\ d < floor})
                      ELSE reported
       /\ UNCHANGED <<stmt, failed, faults>> /\ Keep

\* The read: a statement is drafted from the rows as they are now.
DraftDay(w) ==
    LET k == worker[w]
    IN /\ Walking(w) /\ k.next <= k.through
       /\ worker' = [worker EXCEPT ![w].pc = "drafted",
                                   ![w].draft = StatementForDay(k.partner, k.next)]
       /\ UNCHANGED <<stmt, reported, failed, faults>> /\ Keep

\* On to the next day, whatever became of this one.
DayDone(w) ==
    worker' = [worker EXCEPT ![w].pc = "walk", ![w].draft = NoDraft,
                             ![w].next = @ + 1]

\* Mutant: the second write of a day replaces the first (ON CONFLICT DO UPDATE).
WriteDayOver(w) ==
    LET k == worker[w]
    IN /\ k.pc = "drafted"
       /\ stmt' = [stmt EXCEPT ![k.partner][k.next] = k.draft]
       /\ DayDone(w)
       /\ UNCHANGED <<reported, failed, faults>> /\ Keep

\* write_statement: ON CONFLICT (consumer_id, billing_date) DO NOTHING.
WriteDay(w) ==
    LET k == worker[w]
    IN /\ k.pc = "drafted"
       /\ stmt' = [stmt EXCEPT ![k.partner][k.next] =
                     IF @ = NoStatement THEN k.draft ELSE @]
       /\ DayDone(w)
       /\ UNCHANGED <<reported, failed, faults>> /\ Keep

\* The read or the write of a day fails: a warning, and the walk goes on.
DayFails(w) ==
    LET k == worker[w]
        day == <<k.partner, k.next>>
    IN /\ faults < MaxFaults /\ faults' = faults + 1
       /\ (Walking(w) /\ k.next <= k.through) \/ k.pc = "drafted"
       /\ DayDone(w)
       /\ reported' = reported \cup {day} /\ failed' = failed \cup {day}
       /\ UNCHANGED stmt /\ Keep

\* Mutant: the walk stops short of the newest closable day.
PartnerDoneEarly(w) ==
    /\ Walking(w) /\ worker[w].next >= worker[w].through
    /\ worker' = [worker EXCEPT ![w].partner = NoPartner]
    /\ UNCHANGED <<stmt, reported, failed, faults>> /\ Keep

PartnerDone(w) ==
    /\ Walking(w) /\ worker[w].next > worker[w].through
    /\ worker' = [worker EXCEPT ![w].partner = NoPartner]
    /\ UNCHANGED <<stmt, reported, failed, faults>> /\ Keep

\* The walk is over; emails and log lines follow.
EndTick(w) ==
    /\ worker[w].pc = "walk" /\ worker[w].partner = NoPartner /\ worker[w].left = {}
    /\ worker' = [worker EXCEPT ![w] = Idle]
    /\ UNCHANGED <<stmt, reported, failed, faults>> /\ Keep

\* The process dies, or a read of partners or anchors fails: the tick is over.
Abandon(w) ==
    /\ worker[w].pc # "idle" /\ faults < MaxFaults /\ faults' = faults + 1
    /\ worker' = [worker EXCEPT ![w] = Idle]
    /\ UNCHANGED <<stmt, reported, failed>> /\ Keep

Tick(w) == \/ BeginTick(w) \/ DraftDay(w) \/ WriteDay(w) \/ PartnerDone(w) \/ EndTick(w)
           \/ \E c \in Partners : NextPartner(w, c)

Next == \/ Advance
        \/ \E r \in Requests : Stamp(r) \/ Accept(r) \/ Finalize(r)
        \/ \E w \in Workers : Tick(w) \/ DayFails(w) \/ Abandon(w)

Spec == Init /\ [][Next]_vars

\* The scheduler loop of each process runs its ticks to their end.
FairSpec == Spec /\ \A w \in Workers : WF_vars(Tick(w))

-----------------------------------------------------------------------------
\* A statement is immutable once issued, also when two workers drafted the same day from
\* different states of its usage, and the second one writes after a correction of the
\* ledger (write_statement).
StatementsFinal ==
    [][\A c \in Partners, d \in Days :
          stmt[c][d] # NoStatement => stmt'[c][d] = stmt[c][d]]_vars

\* No request is charged by two statements, nor by another partner's.
ChargedOnce ==
    \A c1, c2 \in Partners, d1, d2 \in Days : \A r \in Requests :
        (/\ stmt[c1][d1] # NoStatement /\ r \in stmt[c1][d1].charged
         /\ stmt[c2][d2] # NoStatement /\ r \in stmt[c2][d2].charged)
        => c1 = c2 /\ d1 = d2 /\ PartnerOf[r] = c1

\* A request whose row was there before its day's cutoff is on the statement of
\* that day, and is charged if it was measured by then: what the close delay and
\* the half-open period are for.
UsageAccounted ==
    \A r \in Requests :
        LET c == PartnerOf[r]
            d == DayOf(row[r].at)
        IN stmt[c][d] # NoStatement =>
              /\ r \in present => r \in stmt[c][d].charged \cup stmt[c][d].incomplete
              /\ r \in settled => r \in stmt[c][d].charged

\* Behind the last statement of a partner there is no day without one that no
\* operator was warned about, whatever ticks were cut short or overlapped.
NoSilentHole ==
    \A c \in Partners, d \in Days :
        (Created[c] <= d /\ d < Anchor(c) /\ stmt[c][d] = NoStatement)
            => <<c, d>> \in reported

\* The comment on close_day: a failed day never became the anchor, so the walk of
\* a later tick reaches it again.
FailedDayRetried ==
    \A f \in failed : stmt[f[1]][f[2]] = NoStatement => Anchor(f[1]) < f[2]

\* The workers catch up, again and again: every day whose cutoff has passed is
\* stated or reported as skipped, whatever ticks failed, died or overlapped.
EveryDayStated ==
    []<>(\A c \in Partners, d \in Days :
            (Created[c] <= d /\ Cutoff(d) <= clock) =>
                (stmt[c][d] # NoStatement \/ <<c, d>> \in reported))
=============================================================================
