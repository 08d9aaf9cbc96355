--------------------------- MODULE StatementEmail ---------------------------
(***************************************************************************)
(* Emailing of statements by the billing workers of several processes: the *)
(* lease a tick takes on up to Batch statements, the sends, the record of  *)
(* each outcome, retries with backoff, payments and crashes.  Only the     *)
(* statements claim_emails can select for mailing appear: invoices with    *)
(* something to say, of a partner with an address.                         *)
(*                                                                         *)
(* A tick compares every instant with the one it was started at, its now.  *)
(* Time is kept as distances: lease and retry hold how far ahead of the    *)
(* clock email_claimed_until and email_next_retry_at lie, age how far now  *)
(* lies behind it, so that behaviours of any length have finitely many     *)
(* states.  A distance of -MaxTick or less is behind every running tick's  *)
(* now, and so is NULL.                                                    *)
(*                                                                         *)
(* Nothing in the code keeps a tick shorter than the lease it took, and    *)
(* nothing reads the lease again before a send: the statements of a batch  *)
(* are sent one after the other, and only each read of a socket times out. *)
(* MaxTick may therefore lie on either side of Ttl; what is promised of a  *)
(* statement depends on whether it has been held longer than its lease.    *)
(***************************************************************************)
EXTENDS Integers, FiniteSets, FiniteSetsExt

CONSTANTS
    Ids,          \* statement ids, in the order of their due dates
    Workers,      \* the billing worker of each process
    Unreachable,  \* statements whose address never accepts a message
    Batch,        \* EMAIL_BATCH
    Ttl,          \* EMAIL_CLAIM_TTL_MINUTES
    Base,         \* EMAIL_RETRY_BASE_MINUTES
    MaxDelay,     \* EMAIL_RETRY_MAX_MINUTES
    MaxExp,       \* the clamp of the backoff's exponent
    Interval,     \* scheduler_interval_secs
    MaxTick,      \* bound: how long one tick lasts, also beyond Ttl
    MaxFaults,    \* bound: failures of the database, the relay or a process
    NoStatement

ASSUME IdsNat == Ids \subseteq Nat /\ IsFiniteSet(Ids) /\ Unreachable \subseteq Ids
ASSUME TimesNat == /\ Batch \in Nat \ {0} /\ Ttl \in Nat \ {0} /\ Base \in Nat
                   /\ MaxDelay \in Nat /\ MaxExp \in Nat /\ Interval \in Nat \ {0}
                   /\ MaxTick \in Nat /\ MaxFaults \in Nat
\* Counting attempts beyond MaxExp would not change the delay.
ASSUME ClampReached == Base * 2^MaxExp >= MaxDelay
ASSUME NoStatementFresh == NoStatement \notin Ids

VARIABLES
    issued,     \* statements written by close_day
    sentAt,     \* statements with email_sent_at set
    paid,       \* statements with paid_at set
    attempts,   \* email_attempts, up to MaxExp
    lease,      \* email_claimed_until, from the clock
    retry,      \* email_next_retry_at, from the clock
    worker,     \* the tick of each worker
    delivered,  \* messages the relay accepted, per statement
    excused,    \* of these, the ones a lost record or an outlived lease accounts for
    overdue,    \* statements in hand of a tick that outlived its lease, or since
    faults

rowVars == <<issued, sentAt, paid, attempts, lease, retry>>
vars == <<rowVars, worker, delivered, excused, overdue, faults>>

Lapsed == -MaxTick

\* A claimed statement, with the attempts it had when it was claimed.
Claimed == [id : Ids, attempts : 0..MaxExp]
ASSUME NothingFresh == NoStatement \notin Claimed

\* A worker with nothing in hand.
Resting(pc, age) ==
    [pc |-> pc, age |-> age, todo |-> {}, cur |-> NoStatement, got |-> FALSE]

\* Types; no lease or retry lies further ahead than its constant allows.
TypeOK ==
    /\ issued \subseteq Ids /\ sentAt \subseteq Ids /\ paid \subseteq Ids
    /\ attempts \in [Ids -> 0..MaxExp]
    /\ lease \in [Ids -> Lapsed..Ttl]
    /\ retry \in [Ids -> Lapsed..MaxDelay]
    /\ worker \in [Workers ->
          [pc : {"idle", "closing", "emailing", "sending", "sent", "failed", "dead"},
           age : Int, todo : SUBSET Claimed,
           cur : Claimed \cup {NoStatement}, got : BOOLEAN]]
    /\ delivered \in [Ids -> Nat] /\ excused \in [Ids -> Nat] /\ overdue \subseteq Ids
    /\ faults \in 0..MaxFaults

Init ==
    /\ issued = {} /\ sentAt = {} /\ paid = {}
    /\ attempts = [s \in Ids |-> 0]
    /\ lease = [s \in Ids |-> Lapsed] /\ retry = [s \in Ids |-> Lapsed]
    /\ worker = [w \in Workers |-> Resting("idle", Interval)]
    /\ delivered = [s \in Ids |-> 0] /\ excused = [s \in Ids |-> 0]
    /\ overdue = {} /\ faults = 0

Busy(w) == worker[w].pc \notin {"idle", "dead"}

Fault == faults < MaxFaults /\ faults' = faults + 1
NoFault == UNCHANGED faults

\* What a worker has claimed and not yet dealt with.
InHand(w) == {k.id : k \in worker[w].todo \cup ({worker[w].cur} \ {NoStatement})}

\* History: a statement is overdue from the moment the lease on it runs out in
\* the hands of a tick, until nobody holds it any more.
WatchLeases ==
    overdue' = {s \in UNION {InHand(w) : w \in Workers}' :
                  s \in overdue \/ \E w \in Workers : s \in InHand(w)' /\ worker'[w].age >= Ttl}

-----------------------------------------------------------------------------
(* The clock, close_day and mark_paid. *)

Later(distance) == Max({distance - 1, Lapsed})

\* A sleeping worker wakes when its interval is over.
Advance ==
    /\ \A w \in Workers : /\ Busy(w) => worker[w].age < MaxTick
                          /\ worker[w].pc = "idle" => worker[w].age < Interval
    /\ lease' = [s \in Ids |-> Later(lease[s])]
    /\ retry' = [s \in Ids |-> Later(retry[s])]
    /\ worker' = [w \in Workers |->
                    IF worker[w].pc = "dead" THEN worker[w]
                    ELSE [worker[w] EXCEPT !.age = @ + 1]]
    /\ UNCHANGED <<issued, sentAt, paid, attempts, delivered, excused, faults>>

Issue(s) ==
    /\ s \notin issued
    /\ issued' = issued \cup {s}
    /\ UNCHANGED <<sentAt, paid, attempts, lease, retry, worker, delivered, excused, faults>>

MarkPaid(s) ==
    /\ s \in issued \ paid
    /\ paid' = paid \cup {s}
    /\ UNCHANGED <<issued, sentAt, attempts, lease, retry, worker, delivered, excused, faults>>

-----------------------------------------------------------------------------
(* One tick. *)

BeginTick(w) ==
    /\ worker[w].pc = "idle" /\ worker[w].age >= Interval
    /\ worker' = [worker EXCEPT ![w] = Resting("closing", 0)]
    /\ UNCHANGED <<rowVars, delivered, excused, faults>>

\* close_days or the claim itself fails: the tick ends without a claim.
TickFails(w) ==
    /\ worker[w].pc = "closing" /\ Fault
    /\ worker' = [worker EXCEPT ![w] = Resting("idle", 0)]
    /\ UNCHANGED <<rowVars, delivered, excused>>

\* Mutant: the lease is not looked at.
DueNoLease(w) ==
    {s \in issued \ (sentAt \cup paid) : retry[s] <= -worker[w].age}

\* The predicate of claim_emails, at the tick's now.
Due(w) ==
    {s \in issued \ (sentAt \cup paid) : /\ retry[s] <= -worker[w].age
                                         /\ lease[s] <= -worker[w].age}

\* The first Batch of a set, by due date and id.
Oldest(S) == {s \in S : Cardinality({t \in S : t < s}) < Batch}

\* One UPDATE ... RETURNING, so no other claim comes between.
ClaimEmails(w) ==
    LET claim == Oldest(Due(w))
    IN /\ worker[w].pc = "closing"
       /\ lease' = [s \in Ids |-> IF s \in claim
                                  THEN Max({Ttl - worker[w].age, Lapsed}) ELSE lease[s]]
       /\ worker' = [worker EXCEPT ![w].pc = "emailing",
                       ![w].todo = {[id |-> s, attempts |-> attempts[s]] : s \in claim}]
       /\ UNCHANGED <<issued, sentAt, paid, attempts, retry, delivered, excused, faults>>

\* The partner or the lines cannot be read: the statement is passed over and its
\* lease left to lapse.  (A partner with statements cannot be deleted, so its row
\* is never missing.)
SkipUnreadable(w, k) ==
    /\ worker[w].pc = "emailing" /\ k \in worker[w].todo /\ Fault
    /\ worker' = [worker EXCEPT ![w].todo = @ \ {k}]
    /\ UNCHANGED <<rowVars, delivered, excused>>

\* The SMTP conversation is opened.
BeginSend(w, k) ==
    /\ worker[w].pc = "emailing" /\ k \in worker[w].todo
    /\ worker' = [worker EXCEPT ![w].todo = @ \ {k}, ![w].cur = k,
                                ![w].pc = "sending", ![w].got = FALSE]
    /\ UNCHANGED <<rowVars, delivered, excused, faults>>

\* The relay accepts the message; nothing has looked at the lease since the claim.
Deliver(w) ==
    LET s == worker[w].cur.id
    IN /\ worker[w].pc = "sending" /\ ~worker[w].got /\ s \notin Unreachable
       /\ delivered' = [delivered EXCEPT ![s] = @ + 1]
       /\ excused' = IF s \in overdue THEN [excused EXCEPT ![s] = @ + 1] ELSE excused
       /\ worker' = [worker EXCEPT ![w].got = TRUE]
       /\ UNCHANGED <<rowVars, faults>>

SendSucceeds(w) ==
    /\ worker[w].pc = "sending" /\ worker[w].got
    /\ worker' = [worker EXCEPT ![w].pc = "sent"]
    /\ UNCHANGED <<rowVars, delivered, excused, faults>>

\* An unrecorded success is the accepted reason for a second message.
Excuse(w) ==
    excused' = IF worker[w].got
               THEN [excused EXCEPT ![worker[w].cur.id] = @ + 1] ELSE excused

\* The relay refuses, or its answer is lost.
SendFails(w) ==
    /\ worker[w].pc = "sending"
    /\ IF worker[w].cur.id \in Unreachable THEN NoFault ELSE Fault
    /\ worker' = [worker EXCEPT ![w].pc = "failed", ![w].got = FALSE]
    /\ Excuse(w)
    /\ UNCHANGED <<rowVars, delivered>>

NextSend(w) == [worker EXCEPT ![w].pc = "emailing", ![w].cur = NoStatement,
                              ![w].got = FALSE]

\* Mutant: a success only releases the lease.
RecordSentLeaseOnly(w) ==
    /\ worker[w].pc = "sent"
    /\ lease' = [lease EXCEPT ![worker[w].cur.id] = Lapsed]
    /\ worker' = NextSend(w)
    /\ UNCHANGED <<issued, sentAt, paid, attempts, retry, delivered, excused, faults>>

\* record_email_attempt: the success ends the statement's retries.
RecordSent(w) ==
    LET s == worker[w].cur.id
    IN /\ worker[w].pc = "sent"
       /\ sentAt' = sentAt \cup {s}
       /\ attempts' = [attempts EXCEPT ![s] = Min({@ + 1, MaxExp})]
       /\ lease' = [lease EXCEPT ![s] = Lapsed]
       /\ retry' = [retry EXCEPT ![s] = Lapsed]
       /\ worker' = NextSend(w)
       /\ UNCHANGED <<issued, paid, delivered, excused, faults>>

\* Mutant: every retry is due at once.
RetryDelayNone(n) == 0

\* Doubling from Base up to the ceiling.
RetryDelay(n) == Min({Base * 2^n, MaxDelay})

\* Mutant: a failure takes back the success another worker recorded.
RecordFailedReopens(w) ==
    LET k == worker[w].cur
    IN /\ worker[w].pc = "failed"
       /\ sentAt' = sentAt \ {k.id}
       /\ attempts' = [attempts EXCEPT ![k.id] = Min({@ + 1, MaxExp})]
       /\ lease' = [lease EXCEPT ![k.id] = Lapsed]
       /\ retry' = [retry EXCEPT ![k.id] =
                      Max({RetryDelay(k.attempts) - worker[w].age, Lapsed})]
       /\ worker' = NextSend(w)
       /\ UNCHANGED <<issued, paid, delivered, excused, faults>>

\* record_email_attempt: the failure releases the lease, whoever holds it by now,
\* and schedules a retry.
RecordFailed(w) ==
    LET k == worker[w].cur
    IN /\ worker[w].pc = "failed"
       /\ attempts' = [attempts EXCEPT ![k.id] = Min({@ + 1, MaxExp})]
       /\ lease' = [lease EXCEPT ![k.id] = Lapsed]
       /\ retry' = [retry EXCEPT ![k.id] =
                      Max({RetryDelay(k.attempts) - worker[w].age, Lapsed})]
       /\ worker' = NextSend(w)
       /\ UNCHANGED <<issued, sentAt, paid, delivered, excused, faults>>

\* Neither outcome is recorded: a warning, and the lease left to lapse.
RecordError(w) ==
    /\ worker[w].pc \in {"sent", "failed"} /\ Fault
    /\ worker' = NextSend(w)
    /\ Excuse(w)
    /\ UNCHANGED <<rowVars, delivered>>

EndTick(w) ==
    /\ worker[w].pc = "emailing" /\ worker[w].todo = {}
    /\ worker' = [worker EXCEPT ![w] = Resting("idle", 0)]
    /\ UNCHANGED <<rowVars, delivered, excused, faults>>

Crash(w) ==
    /\ worker[w].pc # "dead" /\ Fault
    /\ worker' = [worker EXCEPT ![w] = Resting("dead", 0)]
    /\ Excuse(w)
    /\ UNCHANGED <<rowVars, delivered>>

\* A process ticks as soon as it starts.
Restart(w) ==
    /\ worker[w].pc = "dead"
    /\ worker' = [worker EXCEPT ![w] = Resting("idle", Interval)]
    /\ UNCHANGED <<rowVars, delivered, excused, faults>>

Tick(w) == \/ BeginTick(w) \/ ClaimEmails(w) \/ Deliver(w) \/ SendSucceeds(w)
           \/ RecordSent(w) \/ RecordFailed(w) \/ EndTick(w)
           \/ \E k \in worker[w].todo : BeginSend(w, k)
           \/ SendFails(w)

Failure(w) == \/ TickFails(w) \/ RecordError(w) \/ Crash(w)
              \/ \E k \in worker[w].todo : SkipUnreadable(w, k)

Next == /\ \/ Advance
           \/ \E s \in Ids : Issue(s) \/ MarkPaid(s)
           \/ \E w \in Workers : Tick(w) \/ Failure(w) \/ Restart(w)
        /\ WatchLeases

Spec == Init /\ [][Next]_vars

\* Time passes, and the blocking thread of a tick runs to its end: each SMTP
\* step answers or times out.  Nothing obliges an operator to restart a process
\* or to record a payment.
FairSpec == /\ Spec /\ WF_vars(Advance /\ WatchLeases)
            /\ \A w \in Workers : WF_vars(Tick(w) /\ WatchLeases)

-----------------------------------------------------------------------------
\* Two instances email the same statement at the same time only when a tick has
\* held it longer than its lease: until then nobody else can claim it, whatever
\* fails or is recorded meanwhile (claim_emails).
OneSender ==
    \A v, w \in Workers, s \in Ids \ overdue :
        s \in InHand(v) \cap InHand(w) => v = w

\* A partner gets one message per statement, one more for each success that a
\* crash, a lost answer or a failed write kept out of the record, and one for each
\* message that leaves after the lease on its statement was outlived; overlapping
\* ticks and retries add none (send_emails, record_email_attempt).
DuplicatesExplained == \A s \in Ids : delivered[s] <= 1 + excused[s]

\* Once email_sent_at is recorded it stays, and no tick takes the statement in hand
\* again; a message still leaves only from a tick that held it before, its lease
\* outlived (record_email_attempt, claim_emails).
RecordedIsLast ==
    [][\A s \in sentAt :
          /\ s \in sentAt'
          /\ \A w \in Workers : s \in InHand(w)' => s \in InHand(w)
          /\ delivered'[s] # delivered[s] => s \in overdue]_vars

\* A statement whose address accepts mail is mailed or paid in the end, also
\* behind a full batch of older ones that are never accepted: their backoff
\* outgrows the tick and makes room, and the lease of a dead process lapses.
EveryoneMailed ==
    \A s \in Ids \ Unreachable :
        s \in issued ~> s \in sentAt \cup paid
=============================================================================
