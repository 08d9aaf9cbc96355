-------------------------- MODULE StatementsProofs --------------------------
(***************************************************************************)
(* Statements are final, charge a request once, and leave out no usage     *)
(* that was there by the cutoff, and a day they skip is reported, for any  *)
(* number of partners, requests and workers, any day length, delay and     *)
(* catch-up bound.                                                         *)
(***************************************************************************)
EXTENDS Statements, SetFacts

\* Multiplication by the length of a day is monotone.
LEMMA MulMono == \A a, b \in Int : a <= b => a * DayLen <= b * DayLen
<1> SUFFICES ASSUME NEW a \in Int, NEW b \in Int, a <= b PROVE a * DayLen <= b * DayLen
  OBVIOUS
<1>1. (b - a) * DayLen >= 0
  BY Units
<1>2. (b - a) * DayLen = b * DayLen - a * DayLen
  BY Units
<1> QED
  BY <1>1, <1>2, Units

\* An instant lies in the day it is assigned to.
LEMMA DayBounds ==
    \A t \in Int : DayOf(t) \in Int /\ StartOf(DayOf(t)) <= t /\ t < EndOf(DayOf(t))
  BY Units DEF DayOf, StartOf, EndOf

\* An instant of a day's period is assigned to that day.
LEMMA DayUnique ==
    \A t, d \in Int : (StartOf(d) <= t /\ t < EndOf(d)) => DayOf(t) = d
<1> SUFFICES ASSUME NEW t \in Int, NEW d \in Int, StartOf(d) <= t, t < EndOf(d)
             PROVE  DayOf(t) = d
  OBVIOUS
<1>1. DayOf(t) \in Int /\ DayOf(t) * DayLen <= t /\ t < (DayOf(t) + 1) * DayLen
  BY DayBounds DEF StartOf, EndOf
<1>2. d * DayLen <= t /\ t < (d + 1) * DayLen
  BY DEF StartOf, EndOf
<1>3. ~(DayOf(t) + 1 <= d)
  <2> SUFFICES ASSUME DayOf(t) + 1 <= d PROVE FALSE
    OBVIOUS
  <2>1. (DayOf(t) + 1) * DayLen <= d * DayLen
    BY <1>1, MulMono
  <2> QED
    BY <2>1, <1>1, <1>2, Units
<1>4. ~(d + 1 <= DayOf(t))
  <2> SUFFICES ASSUME d + 1 <= DayOf(t) PROVE FALSE
    OBVIOUS
  <2>1. (d + 1) * DayLen <= DayOf(t) * DayLen
    BY <1>1, MulMono
  <2> QED
    BY <2>1, <1>1, <1>2, Units
<1> QED
  BY <1>1, <1>3, <1>4

\* Days come in the order of their instants.
LEMMA DayMono == \A t, u \in Int : t <= u => DayOf(t) <= DayOf(u)
<1> SUFFICES ASSUME NEW t \in Int, NEW u \in Int, t <= u, ~(DayOf(t) <= DayOf(u))
             PROVE  FALSE
  OBVIOUS
<1>1. /\ DayOf(t) \in Int /\ DayOf(t) * DayLen <= t
      /\ DayOf(u) \in Int /\ u < (DayOf(u) + 1) * DayLen
  BY DayBounds DEF StartOf, EndOf
<1>2. (DayOf(u) + 1) * DayLen <= DayOf(t) * DayLen
  BY <1>1, MulMono
<1> QED
  BY <1>1, <1>2, Units

\* Cutoffs come in the order of their days.
LEMMA CutoffMono == \A d, e \in Int : d <= e => Cutoff(d) \in Int /\ Cutoff(d) <= Cutoff(e)
<1> SUFFICES ASSUME NEW d \in Int, NEW e \in Int, d <= e
             PROVE  Cutoff(d) \in Int /\ Cutoff(d) <= Cutoff(e)
  OBVIOUS
<1>1. (d + 1) * DayLen <= (e + 1) * DayLen
  BY MulMono
<1> QED
  BY <1>1, Units DEF Cutoff, EndOf

\* There is a day zero.
LEMMA LastDayNat == LastDay \in Nat
<1>1. LastDay \in Int /\ MaxClock < (LastDay + 1) * DayLen
  BY Units, DayBounds DEF LastDay, DayOf, EndOf
<1>2. ~(LastDay + 1 <= 0)
  <2> SUFFICES ASSUME LastDay + 1 <= 0 PROVE FALSE
    OBVIOUS
  <2>1. (LastDay + 1) * DayLen <= 0 * DayLen
    BY <1>1, MulMono
  <2> QED
    BY <2>1, <1>1, Units
<1> QED
  BY <1>1, <1>2

\* The instants of a run fall on its days.
LEMMA ClockDays == \A t \in 0..MaxClock : DayOf(t) \in Days
<1> SUFFICES ASSUME NEW t \in 0..MaxClock PROVE DayOf(t) \in Days
  OBVIOUS
<1>1. DayOf(t) \in Int /\ DayOf(t) <= LastDay
  BY Units, DayBounds, DayMono DEF LastDay, DayOf
<1>2. t < (DayOf(t) + 1) * DayLen
  BY Units, DayBounds DEF EndOf
<1>3. ~(DayOf(t) + 1 <= 0)
  <2> SUFFICES ASSUME DayOf(t) + 1 <= 0 PROVE FALSE
    OBVIOUS
  <2>1. (DayOf(t) + 1) * DayLen <= 0 * DayLen
    BY <1>1, MulMono
  <2> QED
    BY <2>1, <1>1, <1>2, Units
<1> QED
  BY <1>1, <1>3, LastDayNat DEF Days

\* A set of days has a last one.
LEMMA MaxOfDays ==
    ASSUME NEW S, S \subseteq Days, S # {}
    PROVE  Max(S) \in S
<1>1. LastDay \in Int /\ S \subseteq Int /\ \A d \in S : d <= LastDay
  BY LastDayNat DEF Days
<1> QED
  BY <1>1, MaxOfBounded

-----------------------------------------------------------------------------
Unwritten == {"none", "stamped"}

Rows ==
    \A r \in Requests : /\ r \in present => row[r].state \notin Unwritten
                        /\ r \in settled => row[r].state = "measured"

\* What a draft or a statement of partner c for day d is worth.
Good(c, d, x) ==
    /\ Cutoff(d) <= clock
    /\ \A r \in x.charged : /\ PartnerOf[r] = c /\ DayOf(row[r].at) = d
                             /\ row[r].state \notin Unwritten
    /\ \A r \in Requests : (PartnerOf[r] = c /\ DayOf(row[r].at) = d) =>
          /\ r \in present => r \in x.charged \cup x.incomplete
          /\ r \in settled => r \in x.charged

StatementsGood ==
    \A c \in Partners, d \in Days :
        stmt[c][d] # NoStatement => Good(c, d, stmt[c][d])

Walks ==
    \A w \in Workers :
        /\ worker[w].pc # "idle" => Cutoff(worker[w].through) <= clock
        /\ worker[w].pc = "drafted" =>
              /\ worker[w].partner \in Partners
              /\ worker[w].next <= worker[w].through
              /\ worker[w].draft \in Statement
              /\ Good(worker[w].partner, worker[w].next, worker[w].draft)

StmtInv == TypeOK /\ Rows /\ StatementsGood /\ Walks

\* Nothing is stated at the start.
LEMMA StmtInit == Init => StmtInv
<1> SUFFICES ASSUME Init PROVE StmtInv
  OBVIOUS
<1>1. worker \in [Workers ->
          [pc : {"idle", "walk", "drafted"}, through : -2..LastDay, left : SUBSET Partners,
           partner : Partners \cup {NoPartner}, next : Nat,
           draft : Statement \cup {NoDraft}]]
  BY LastDayNat DEF Init, Idle
<1>2. TypeOK
  <2>1. 0 \in 0..MaxClock /\ 0 \in 0..MaxFaults
    BY Units
  <2> QED
    BY <1>1, <2>1 DEF Init, TypeOK, RowStates
<1>3. Rows /\ StatementsGood /\ Walks
  BY DEF Init, Rows, StatementsGood, Walks, Idle
<1> QED
  BY <1>2, <1>3 DEF StmtInv

\* Metering after the cutoff of a day moves no request in or out of the day, and
\* none of it counts as having been there in time.
LEMMA GoodKept ==
    ASSUME StmtInv, NEW c \in Partners, NEW d \in Int, NEW x \in Statement, Good(c, d, x),
           \/ \E r \in Requests : Stamp(r) \/ Accept(r) \/ Finalize(r)
           \/ Advance
           \/ UNCHANGED <<clock, usageVars>>
    PROVE  Good(c, d, x)'
<1>0. x.charged \subseteq Requests /\ Cutoff(d) \in Int
  BY CutoffMono DEF Statement
<1>1. ASSUME NEW r \in Requests, Stamp(r) PROVE Good(c, d, x)'
  <2>1. /\ row[r].state = "none" /\ r \notin present /\ r \notin settled
        /\ r \notin x.charged
    BY <1>1 DEF Stamp, StmtInv, Rows, Good, Unwritten
  <2>2. \A q \in Requests : q # r => row'[q] = row[q]
    BY <1>1 DEF Stamp, StmtInv, TypeOK
  <2>3. UNCHANGED <<clock, present, settled>>
    BY <1>1 DEF Stamp
  <2> QED
    BY <1>0, <2>1, <2>2, <2>3 DEF Good
<1>2. ASSUME NEW r \in Requests, Accept(r) \/ Finalize(r) PROVE Good(c, d, x)'
  <2>1. PICK to \in {"in_flight", "unmeasured", "measured"} :
           /\ row' = [row EXCEPT ![r].state = to]
           /\ present' = IF InTime(r) THEN present \cup {r} ELSE present
           /\ settled' = IF InTime(r) /\ to = "measured" THEN settled \cup {r} ELSE settled
           /\ UNCHANGED clock
    BY <1>2 DEF Accept, Finalize, Meter
  <2>2. \A q \in Requests : /\ row'[q].at = row[q].at
                            /\ q # r => row'[q] = row[q]
                            /\ q = r => row'[q].state = to
    BY <2>1 DEF StmtInv, TypeOK
  <2>3. DayOf(row[r].at) = d => ~InTime(r)
    BY <1>0 DEF Good, InTime, StmtInv, TypeOK
  <2>4. \A q \in Requests : DayOf(row[q].at) = d =>
           (q \in present' => q \in present) /\ (q \in settled' => q \in settled)
    BY <2>1, <2>3
  <2> QED
    BY <1>0, <2>1, <2>2, <2>4 DEF Good, Unwritten
<1>3. CASE Advance
  <2>1. clock' = clock + 1 /\ UNCHANGED <<row, present, settled>> /\ clock \in Int
    BY <1>3 DEF Advance, usageVars, StmtInv, TypeOK
  <2> QED
    BY <1>0, <2>1 DEF Good
<1>4. CASE UNCHANGED <<clock, usageVars>>
  BY <1>4 DEF Good, usageVars
<1> QED
  BY <1>1, <1>2, <1>3, <1>4

\* Steps of metering and of the clock keep the invariant: they touch neither
\* statements nor walks, and what these rely on stays good.
LEMMA MeteringKeeps ==
    ASSUME StmtInv,
           \/ \E r \in Requests : Stamp(r) \/ Accept(r) \/ Finalize(r)
           \/ Advance
    PROVE  StmtInv'
<1>1. UNCHANGED <<stmt, worker, reported, failed, faults>>
  BY DEF Stamp, Accept, Finalize, Meter, Advance
<1>2. clock' \in 0..MaxClock /\ clock' >= clock /\ clock \in Int
  BY Units DEF Stamp, Accept, Finalize, Meter, Advance, StmtInv, TypeOK
<1>3. TypeOK' /\ Rows'
  <2>1. CASE Advance
    BY <2>1, <1>1, <1>2 DEF Advance, usageVars, StmtInv, TypeOK, Rows
  <2>2. ASSUME NEW r \in Requests, Stamp(r) PROVE TypeOK' /\ Rows'
    <3>1. row' \in [Requests -> [state : RowStates, at : 0..MaxClock]]
      BY <2>2 DEF Stamp, StmtInv, TypeOK, RowStates
    <3>2. \A q \in Requests : q # r => row'[q] = row[q]
      BY <2>2 DEF Stamp, StmtInv, TypeOK
    <3>3. r \notin present /\ r \notin settled /\ UNCHANGED <<present, settled>>
      BY <2>2 DEF Stamp, StmtInv, Rows, Unwritten
    <3> QED
      BY <3>1, <3>2, <3>3, <1>1, <1>2 DEF StmtInv, TypeOK, Rows
  <2>3. ASSUME NEW r \in Requests, Accept(r) \/ Finalize(r) PROVE TypeOK' /\ Rows'
    <3>1. PICK to \in {"in_flight", "unmeasured", "measured"} :
             /\ row' = [row EXCEPT ![r].state = to]
             /\ row[r].state # "measured"
             /\ present' = IF InTime(r) THEN present \cup {r} ELSE present
             /\ settled' = IF InTime(r) /\ to = "measured" THEN settled \cup {r} ELSE settled
      BY <2>3 DEF Accept, Finalize, Meter
    <3>2. row' \in [Requests -> [state : RowStates, at : 0..MaxClock]]
      BY <3>1 DEF StmtInv, TypeOK, RowStates
    <3>3. \A q \in Requests : /\ q # r => row'[q] = row[q]
                              /\ q = r => row'[q].state = to
      BY <3>1 DEF StmtInv, TypeOK
    <3>4. Rows'
      BY <3>1, <3>3 DEF StmtInv, Rows, Unwritten
    <3> QED
      BY <3>1, <3>2, <3>4, <1>1, <1>2 DEF StmtInv, TypeOK
  <2> QED
    BY <2>1, <2>2, <2>3
<1>4. StatementsGood'
  <2> SUFFICES ASSUME NEW c \in Partners, NEW d \in Days, stmt[c][d] # NoStatement
               PROVE  Good(c, d, stmt[c][d])'
    BY <1>1 DEF StatementsGood
  <2>1. stmt[c][d] \in Statement /\ d \in Int
    BY LastDayNat DEF StmtInv, TypeOK, Days
  <2>2. Good(c, d, stmt[c][d])
    BY DEF StmtInv, StatementsGood
  <2>3. \A x \in Statement : Good(c, d, x) => Good(c, d, x)'
    BY <2>1, GoodKept
  <2> QED
    BY <2>1, <2>2, <2>3, <1>1
<1>5. Walks'
  <2> SUFFICES ASSUME NEW w \in Workers
               PROVE  /\ worker[w].pc # "idle" => Cutoff(worker[w].through) <= clock'
                      /\ worker[w].pc = "drafted" =>
                            /\ worker[w].partner \in Partners
                            /\ worker[w].next <= worker[w].through
                            /\ worker[w].draft \in Statement
                            /\ Good(worker[w].partner, worker[w].next, worker[w].draft)'
    BY <1>1 DEF Walks
  <2>1. worker[w].through \in Int /\ worker[w].next \in Int
    BY LastDayNat DEF StmtInv, TypeOK
  <2>2. worker[w].pc # "idle" => Cutoff(worker[w].through) <= clock'
    BY <2>1, <1>2, CutoffMono DEF StmtInv, Walks
  <2>3. \A c \in Partners, d \in Int, x \in Statement : Good(c, d, x) => Good(c, d, x)'
    BY GoodKept
  <2> QED
    BY <2>1, <2>2, <2>3, <1>1 DEF StmtInv, Walks
<1> QED
  BY <1>3, <1>4, <1>5 DEF StmtInv

WorkerType ==
    [pc : {"idle", "walk", "drafted"}, through : -2..LastDay, left : SUBSET Partners,
     partner : Partners \cup {NoPartner}, next : Nat, draft : Statement \cup {NoDraft}]

\* A step of worker w to the record k, which metering is not part of.
LEMMA WorkerKeeps ==
    ASSUME StmtInv, NEW w \in Workers, NEW k \in WorkerType,
           worker' = [worker EXCEPT ![w] = k], UNCHANGED <<clock, usageVars>>,
           k.pc # "idle" => Cutoff(k.through) <= clock,
           k.pc = "drafted" => /\ k.partner \in Partners /\ k.next <= k.through
                               /\ k.draft \in Statement
                               /\ Good(k.partner, k.next, k.draft),
           stmt' \in [Partners -> [Days -> Statement \cup {NoStatement}]],
           \A c \in Partners, d \in Days : stmt'[c][d] # NoStatement =>
               \/ stmt'[c][d] = stmt[c][d]
               \/ stmt'[c][d] \in Statement /\ Good(c, d, stmt'[c][d]),
           reported' \subseteq Partners \X Days, failed' \subseteq Partners \X Days,
           faults' \in 0..MaxFaults
    PROVE  StmtInv'
<1>1. /\ worker \in [Workers -> WorkerType] /\ worker' \in [Workers -> WorkerType]
      /\ worker'[w] = k
      /\ \A v \in Workers : v # w => worker'[v] = worker[v]
  BY DEF StmtInv, TypeOK, WorkerType
<1>2. TypeOK' /\ Rows'
  BY <1>1 DEF StmtInv, TypeOK, WorkerType, Rows, usageVars
<1>3. \A c \in Partners, d \in Int, x \in Statement : Good(c, d, x) => Good(c, d, x)'
  BY GoodKept
<1>4. StatementsGood'
  <2> SUFFICES ASSUME NEW c \in Partners, NEW d \in Days, stmt'[c][d] # NoStatement
               PROVE  Good(c, d, stmt[c][d])'
    BY DEF StatementsGood
  <2>1. stmt'[c][d] \in Statement /\ d \in Int
    BY LastDayNat DEF Days
  <2>2. Good(c, d, stmt'[c][d])
    BY DEF StmtInv, StatementsGood
  <2>3. UNCHANGED <<clock, row, present, settled>>
    BY DEF usageVars
  <2> QED
    BY <2>2, <2>3 DEF Good
<1>5. Walks'
  <2> SUFFICES ASSUME NEW v \in Workers
               PROVE  /\ worker'[v].pc # "idle" => Cutoff(worker'[v].through) <= clock'
                      /\ worker'[v].pc = "drafted" =>
                            /\ worker'[v].partner \in Partners
                            /\ worker'[v].next <= worker'[v].through
                            /\ worker'[v].draft \in Statement
                            /\ Good(worker[v].partner, worker[v].next, worker[v].draft)'
    BY DEF Walks
  <2>1. UNCHANGED <<clock, row, present, settled>>
    BY DEF usageVars
  <2>2. CASE v = w
    BY <2>1, <2>2, <1>1 DEF Good
  <2>3. CASE v # w
    <3>1. worker'[v] = worker[v]
      BY <2>3, <1>1
    <3> QED
      BY <2>1, <3>1 DEF StmtInv, Walks, Good
  <2> QED
    BY <2>2, <2>3
<1> QED
  BY <1>2, <1>4, <1>5 DEF StmtInv

\* What a read of a closable day returns is good: every request that was there by
\* the cutoff is in the period's rows.
LEMMA DraftGood ==
    ASSUME StmtInv, NEW c \in Partners, NEW d \in Int, Cutoff(d) <= clock
    PROVE  StatementForDay(c, d) \in Statement /\ Good(c, d, StatementForDay(c, d))
<1> DEFINE x == StatementForDay(c, d)
           measured == {r \in UsageOf(c, d) : row[r].state = "measured"}
<1>1. x.charged = measured /\ x.incomplete = UsageOf(c, d) \ measured
  BY DEF StatementForDay
<1>2. UsageOf(c, d) \subseteq Requests
  BY DEF UsageOf
<1>3. x \in Statement
  BY <1>2 DEF StatementForDay, Statement
<1>4. \A r \in Requests : row[r].at \in Int
  BY Units DEF StmtInv, TypeOK
<1>5. \A r \in Requests : r \in UsageOf(c, d) <=>
         /\ PartnerOf[r] = c /\ row[r].state \notin Unwritten /\ DayOf(row[r].at) = d
  <2> SUFFICES ASSUME NEW r \in Requests
               PROVE  (StartOf(d) <= row[r].at /\ row[r].at < EndOf(d))
                         <=> DayOf(row[r].at) = d
    BY <1>4, Units DEF UsageOf, Unwritten, StartOf, EndOf
  <2> QED
    BY <1>4, DayBounds, DayUnique
<1>6. \A r \in Requests : /\ r \in present => row[r].state \notin Unwritten
                          /\ r \in settled => row[r].state = "measured"
  BY DEF StmtInv, Rows
<1> HIDE DEF x
<1> QED
  BY <1>1, <1>2, <1>3, <1>5, <1>6 DEF Good, Unwritten, x

\* Every step of a tick, of a failing day and of a dying process keeps it.
LEMMA TickKeeps ==
    ASSUME StmtInv, NEW w \in Workers, Tick(w) \/ DayFails(w) \/ Abandon(w)
    PROVE  StmtInv'
<1> DEFINE k == worker[w]
<1>1. /\ k \in WorkerType /\ worker \in [Workers -> WorkerType]
      /\ stmt \in [Partners -> [Days -> Statement \cup {NoStatement}]]
      /\ reported \subseteq Partners \X Days /\ failed \subseteq Partners \X Days
      /\ faults \in 0..MaxFaults /\ clock \in 0..MaxClock
  BY DEF StmtInv, TypeOK, WorkerType
<1>2. /\ k.pc # "idle" => Cutoff(k.through) <= clock
      /\ k.pc = "drafted" => /\ k.partner \in Partners /\ k.next <= k.through
                             /\ k.draft \in Statement
                             /\ Good(k.partner, k.next, k.draft)
  BY DEF StmtInv, Walks
<1>3. k.next \in Nat /\ k.through \in Int /\ k.through <= LastDay
  BY <1>1, LastDayNat DEF WorkerType
<1>4. Idle \in WorkerType /\ Idle.pc = "idle"
  BY LastDayNat DEF Idle, WorkerType
<1>5. CASE BeginTick(w)
  <2> DEFINE q == [Idle EXCEPT !.pc = "walk", !.through = Max(Closable(clock)),
                               !.left = Partners]
  <2>1. Closable(clock) # {} /\ Closable(clock) \subseteq {DayOf(clock) - 1, DayOf(clock) - 2}
    BY <1>5 DEF BeginTick, Closable
  <2>2. DayOf(clock) \in Days /\ DayOf(clock) \in Int /\ DayOf(clock) >= 0
        /\ DayOf(clock) <= LastDay
    BY <1>1, ClockDays, LastDayNat DEF Days
  <2>3. Max(Closable(clock)) \in Closable(clock)
    <3>1. PICK d \in Closable(clock) : \A e \in Closable(clock) : d >= e
      <4>1. CASE DayOf(clock) - 1 \in Closable(clock)
        BY <4>1, <2>1, <2>2
      <4>2. CASE DayOf(clock) - 1 \notin Closable(clock)
        BY <4>2, <2>1, <2>2
      <4> QED
        BY <4>1, <4>2
    <3> QED
      BY <3>1 DEF Max
  <2>4. Max(Closable(clock)) \in -2..LastDay /\ Cutoff(Max(Closable(clock))) <= clock
    BY <2>1, <2>2, <2>3, LastDayNat DEF Closable
  <2>5. q \in WorkerType /\ q.pc = "walk" /\ q.through = Max(Closable(clock))
    BY <2>4, LastDayNat DEF Idle, WorkerType
  <2>6. worker' = [worker EXCEPT ![w] = q]
        /\ UNCHANGED <<clock, usageVars, stmt, reported, failed, faults>>
    BY <1>5 DEF BeginTick, Keep
  <2> HIDE DEF q
  <2> QED
    BY <1>1, <2>4, <2>5, <2>6, WorkerKeeps
<1>6. ASSUME NEW c \in Partners, NextPartner(w, c) PROVE StmtInv'
  <2> DEFINE from == Anchor(c) + 1
             floor == k.through - MaxCatchup + 1
             q == [k EXCEPT !.partner = c, !.left = @ \ {c}, !.next = Max({from, floor})]
  <2>1. from \in Nat
    <3>1. CASE Stated(c) = {}
      BY <3>1, OwnersKnown DEF Anchor
    <3>2. CASE Stated(c) # {}
      <4>1. Max(Stated(c)) \in Days
        BY <3>2, MaxOfDays DEF Stated
      <4> QED
        BY <4>1, <3>2, LastDayNat DEF Anchor, Days
    <3> QED
      BY <3>1, <3>2
  <2>2. Max({from, floor}) \in Nat
    <3>1. floor \in Int /\ from \in Int
      BY <1>3, <2>1, Units
    <3>2. Max({from, floor}) = IF from >= floor THEN from ELSE floor
      BY <3>1, MaxOfTwo
    <3> QED
      BY <3>1, <3>2, <2>1
  <2>3. /\ worker' = [worker EXCEPT ![w] = q] /\ k.pc = "walk"
        /\ reported' \subseteq Partners \X Days
        /\ UNCHANGED <<clock, usageVars, stmt, failed, faults>>
    BY <1>1, <1>6 DEF NextPartner, Keep
  <2> HIDE DEF from, floor
  <2>4. q \in WorkerType /\ q.pc = k.pc /\ q.through = k.through
    BY <1>1, <2>2 DEF WorkerType
  <2> HIDE DEF q
  <2> QED
    BY <1>1, <1>2, <2>3, <2>4, WorkerKeeps
<1>7. CASE DraftDay(w)
  <2> DEFINE x == StatementForDay(k.partner, k.next)
             q == [k EXCEPT !.pc = "drafted", !.draft = x]
  <2>1. /\ k.partner \in Partners /\ k.next <= k.through /\ k.pc = "walk"
        /\ worker' = [worker EXCEPT ![w] = q]
        /\ UNCHANGED <<clock, usageVars, stmt, reported, failed, faults>>
    BY <1>1, <1>7 DEF DraftDay, Walking, Keep, WorkerType
  <2>2. Cutoff(k.next) <= clock
    <3>1. k.next \in Int /\ Cutoff(k.next) \in Int /\ Cutoff(k.through) \in Int
          /\ Cutoff(k.next) <= Cutoff(k.through)
      BY <1>3, <2>1, CutoffMono
    <3> QED
      BY <3>1, <1>1, <1>2, <2>1, Units
  <2>3. x \in Statement /\ Good(k.partner, k.next, x)
    BY <1>3, <2>1, <2>2, DraftGood
  <2> HIDE DEF x
  <2>4. /\ q \in WorkerType /\ q.pc = "drafted" /\ q.draft = x
        /\ q.partner = k.partner /\ q.next = k.next /\ q.through = k.through
    BY <1>1, <2>3 DEF WorkerType
  <2> HIDE DEF q
  <2> QED
    BY <1>1, <1>2, <2>1, <2>3, <2>4, WorkerKeeps
<1>8. CASE WriteDay(w) \/ DayFails(w)
  <2> DEFINE n == k.next + 1
             q == [k EXCEPT !.pc = "walk", !.draft = NoDraft, !.next = n]
  <2>1. worker' = [worker EXCEPT ![w] = q] /\ UNCHANGED <<clock, usageVars>>
    BY <1>1, <1>8 DEF WriteDay, DayFails, DayDone, Keep
  <2>2. q \in WorkerType /\ q.pc = "walk" /\ q.through = k.through
    <3>1. n \in Nat
      BY <1>3
    <3> HIDE DEF n
    <3> QED
      BY <1>1, <3>1 DEF WorkerType
  <2>3. k.pc # "idle" /\ k.partner \in Partners /\ k.next \in Days
    BY <1>1, <1>2, <1>3, <1>8, LastDayNat
       DEF WriteDay, DayFails, Walking, WorkerType, Days
  <2> HIDE DEF q
  <2>4. CASE WriteDay(w)
    <3>1. /\ stmt' = [stmt EXCEPT ![k.partner][k.next] =
                         IF @ = NoStatement THEN k.draft ELSE @]
          /\ k.pc = "drafted" /\ UNCHANGED <<reported, failed, faults>>
      BY <2>4 DEF WriteDay
    <3>2. stmt' \in [Partners -> [Days -> Statement \cup {NoStatement}]]
      BY <1>1, <1>2, <2>3, <3>1
    <3>3. \A c \in Partners, d \in Days :
             \/ stmt'[c][d] = stmt[c][d]
             \/ c = k.partner /\ d = k.next /\ stmt'[c][d] = k.draft
      BY <1>1, <2>3, <3>1
    <3>4. \A c \in Partners, d \in Days : stmt'[c][d] # NoStatement =>
             \/ stmt'[c][d] = stmt[c][d]
             \/ stmt'[c][d] \in Statement /\ Good(c, d, stmt'[c][d])
      BY <1>2, <3>1, <3>3
    <3> QED
      BY <1>1, <1>2, <2>1, <2>2, <2>3, <3>1, <3>2, <3>4, WorkerKeeps
  <2>5. CASE DayFails(w)
    <3>1. /\ UNCHANGED stmt /\ faults' \in 0..MaxFaults
          /\ reported' \subseteq Partners \X Days /\ failed' \subseteq Partners \X Days
      BY <1>1, <2>3, <2>5, Units DEF DayFails
    <3> QED
      BY <1>1, <1>2, <2>1, <2>2, <2>3, <3>1, WorkerKeeps
  <2> QED
    BY <1>8, <2>4, <2>5
<1>9. CASE PartnerDone(w)
  <2> DEFINE q == [k EXCEPT !.partner = NoPartner]
  <2>1. /\ worker' = [worker EXCEPT ![w] = q] /\ k.pc = "walk"
        /\ UNCHANGED <<clock, usageVars, stmt, reported, failed, faults>>
    BY <1>1, <1>9 DEF PartnerDone, Walking, Keep
  <2>2. q \in WorkerType /\ q.pc = k.pc /\ q.through = k.through
    BY <1>1 DEF WorkerType
  <2> HIDE DEF q
  <2> QED
    BY <1>1, <1>2, <2>1, <2>2, WorkerKeeps
<1>10. CASE EndTick(w) \/ Abandon(w)
  <2>1. /\ worker' = [worker EXCEPT ![w] = Idle] /\ faults' \in 0..MaxFaults
        /\ UNCHANGED <<clock, usageVars, stmt, reported, failed>>
    BY <1>1, <1>10, Units DEF EndTick, Abandon, Keep
  <2> QED
    BY <1>1, <1>4, <2>1, WorkerKeeps
<1> QED
  BY <1>5, <1>6, <1>7, <1>8, <1>9, <1>10 DEF Tick

\* The invariant is inductive.
LEMMA StmtStep ==
    ASSUME StmtInv, [Next]_vars
    PROVE  StmtInv'
<1>1. CASE UNCHANGED vars
  BY <1>1 DEF vars, usageVars, StmtInv, TypeOK, Rows, StatementsGood, Walks, Good
<1> QED
  BY <1>1, MeteringKeeps, TickKeeps DEF Next

\* Every reachable state is well typed: no walk leaves the calendar, and what is
\* stored as a statement is one.
THEOREM StatementsTyped == Spec => []TypeOK
<1>1. StmtInv => TypeOK
  BY DEF StmtInv
<1> QED
  BY <1>1, StmtInit, StmtStep, PTL DEF Spec

\* A statement never changes once written, whoever drafts its day again
\* (write_statement's ON CONFLICT DO NOTHING).
THEOREM StatementsImmutable == Spec => StatementsFinal
<1>1. StmtInv /\ [Next]_vars =>
         [\A c \in Partners, d \in Days :
             stmt[c][d] # NoStatement => stmt'[c][d] = stmt[c][d]]_vars
  <2> SUFFICES ASSUME StmtInv, Next, NEW c \in Partners, NEW d \in Days,
                      stmt[c][d] # NoStatement
               PROVE  stmt'[c][d] = stmt[c][d]
    OBVIOUS
  <2>1. ASSUME NEW w \in Workers, WriteDay(w) PROVE stmt'[c][d] = stmt[c][d]
    BY <2>1 DEF WriteDay, StmtInv, TypeOK
  <2>2. ASSUME NEW w \in Workers,
               \/ BeginTick(w) \/ DraftDay(w) \/ PartnerDone(w) \/ EndTick(w)
               \/ (\E e \in Partners : NextPartner(w, e)) \/ DayFails(w) \/ Abandon(w)
        PROVE  stmt'[c][d] = stmt[c][d]
    BY <2>2 DEF BeginTick, DraftDay, PartnerDone, EndTick, NextPartner, DayFails, Abandon
  <2>3. ASSUME NEW r \in Requests, Stamp(r) \/ Accept(r) \/ Finalize(r)
        PROVE  stmt'[c][d] = stmt[c][d]
    BY <2>3 DEF Stamp, Accept, Finalize, Meter
  <2>4. CASE Advance
    BY <2>4 DEF Advance
  <2> QED
    BY <2>1, <2>2, <2>3, <2>4 DEF Next, Tick
<1> QED
  BY <1>1, StmtInit, StmtStep, PTL DEF Spec, StatementsFinal

\* No request is charged twice, nor to another partner: a charged request's row
\* lies in its statement's half-open day, and created_at does not move.
THEOREM NobodyChargedTwice == Spec => []ChargedOnce
<1>1. StmtInv => ChargedOnce
  BY DEF StmtInv, StatementsGood, Good, ChargedOnce
<1> QED
  BY <1>1, StmtInit, StmtStep, PTL DEF Spec

\* Whatever was committed before a day's cutoff is on that day's statement, and is
\* charged if it was measured by then.
THEOREM CutoffUsageStated == Spec => []UsageAccounted
<1>1. StmtInv => UsageAccounted
  <2> SUFFICES ASSUME StmtInv, NEW r \in Requests,
                      stmt[PartnerOf[r]][DayOf(row[r].at)] # NoStatement
               PROVE  LET x == stmt[PartnerOf[r]][DayOf(row[r].at)]
                      IN /\ r \in present => r \in x.charged \cup x.incomplete
                         /\ r \in settled => r \in x.charged
    BY DEF UsageAccounted
  <2>1. PartnerOf[r] \in Partners /\ DayOf(row[r].at) \in Days
    BY OwnersKnown, ClockDays DEF StmtInv, TypeOK
  <2>2. Good(PartnerOf[r], DayOf(row[r].at), stmt[PartnerOf[r]][DayOf(row[r].at)])
    BY <2>1 DEF StmtInv, StatementsGood
  <2> QED
    BY <2>2 DEF Good
<1> QED
  BY <1>1, StmtInit, StmtStep, PTL DEF Spec

-----------------------------------------------------------------------------
(* No silent hole.  A walk leaves behind it only days that are stated or      *)
(* reported, and a statement is the only thing that moves an anchor.          *)

Explained(s, told, c, d) == Created[c] <= d => s[c][d] # NoStatement \/ <<c, d>> \in told

HoleInv ==
    /\ \A c \in Partners, d \in Days : d < Anchor(c) => Explained(stmt, reported, c, d)
    /\ \A w \in Workers :
          (worker[w].partner \in Partners /\ worker[w].next <= worker[w].through) =>
              \A d \in Days : d < worker[w].next => Explained(stmt, reported, worker[w].partner, d)

LEMMA HoleInit == Init => HoleInv
<1> SUFFICES ASSUME Init PROVE HoleInv
  OBVIOUS
<1>1. \A c \in Partners : Anchor(c) = Created[c] - 1
  BY DEF Init, Anchor, Stated
<1>2. \A c \in Partners : Created[c] \in Nat
  BY OwnersKnown
<1>3. \A w \in Workers : worker[w].partner \notin Partners
  BY NoStatementFresh DEF Init, Idle
<1>4. ASSUME NEW c \in Partners, NEW d \in Days, d < Anchor(c) PROVE Explained(stmt, reported, c, d)
  <2>1. d \in Int /\ ~(Created[c] <= d)
    BY <1>1, <1>2, <1>4, LastDayNat DEF Days
  <2> QED
    BY <2>1 DEF Explained
<1> QED
  BY <1>3, <1>4 DEF HoleInv

\* The last of some days, or the day before the first when there are none.
LEMMA LastOf ==
    ASSUME NEW S, S \subseteq Days, NEW n \in Nat, NEW a,
           a = IF S = {} THEN n - 1 ELSE Max(S)
    PROVE  /\ a \in Int /\ a >= -1 /\ a + 1 \in Nat
           /\ S # {} => a \in S
           /\ \A d \in S : d <= a
           /\ S = {} => a = n - 1
<1>1. \A d \in Days : d \in Int /\ d >= 0 /\ d <= LastDay
  BY LastDayNat DEF Days
<1>2. CASE S = {}
  BY <1>2
<1>3. CASE S # {}
  <2>1. S \subseteq Int /\ \A x \in S : x \in Int /\ x >= 0 /\ x <= LastDay
    BY <1>1, Zenon
  <2>2. LastDay \in Int
    BY LastDayNat
  <2>3. Max(S) \in S /\ \A x \in S : Max(S) >= x
    BY <1>3, <2>1, <2>2, MaxOfBounded
  <2>4. a \in S /\ \A x \in S : a >= x
    BY <1>3, <2>3
  <2>5. a \in Int /\ a >= 0
    BY <2>1, <2>4, Zenon
  <2>6. \A x \in S : x <= a
    BY <2>1, <2>4, <2>5
  <2>7. a >= -1 /\ a + 1 \in Nat
    BY <2>5
  <2> QED
    BY <1>3, <2>4, <2>5, <2>6, <2>7
<1> QED
  BY <1>2, <1>3

\* The anchor of a partner is its last stated day, or the one before its first.
LEMMA AnchorIs ==
    ASSUME NEW c \in Partners
    PROVE  /\ Anchor(c) \in Int /\ Anchor(c) + 1 \in Nat
           /\ Stated(c) # {} => Anchor(c) \in Stated(c)
           /\ \A d \in Stated(c) : d <= Anchor(c)
           /\ Stated(c) = {} => Anchor(c) = Created[c] - 1
<1>1. Stated(c) \subseteq Days /\ Created[c] \in Nat
  BY OwnersKnown DEF Stated
<1>2. Anchor(c) = IF Stated(c) = {} THEN Created[c] - 1 ELSE Max(Stated(c))
  BY DEF Anchor
<1> QED
  BY <1>1, <1>2, LastOf

\* A step of one worker: what was explained stays so.
LEMMA HoleKeeps ==
    ASSUME StmtInv, HoleInv, NEW w \in Workers, NEW k \in WorkerType,
           worker' = [worker EXCEPT ![w] = k],
           \A c \in Partners, d \in Days : Explained(stmt, reported, c, d) => Explained(stmt', reported', c, d),
           (k.partner \in Partners /\ k.next <= k.through) =>
              \A d \in Days : d < k.next => Explained(stmt', reported', k.partner, d),
           \A c \in Partners, d \in Days : d < Anchor(c)' => d < Anchor(c) \/ Explained(stmt', reported', c, d)
    PROVE  HoleInv'
<1>1. \A c \in Partners, d \in Days : d < Anchor(c)' => Explained(stmt', reported', c, d)
  BY DEF HoleInv
<1>2. ASSUME NEW v \in Workers, worker'[v].partner \in Partners,
             worker'[v].next <= worker'[v].through, NEW d \in Days, d < worker'[v].next
      PROVE  Explained(stmt', reported', worker'[v].partner, d)
  <2>1. worker'[v] = IF v = w THEN k ELSE worker[v]
    BY DEF StmtInv, TypeOK
  <2>2. CASE v = w
    BY <1>2, <2>1, <2>2
  <2>3. CASE v # w
    <3>1. worker'[v] = worker[v]
      BY <2>1, <2>3
    <3>2. Explained(stmt, reported, worker[v].partner, d)
      BY <1>2, <3>1 DEF HoleInv
    <3>3. worker[v].partner \in Partners
      BY <1>2, <3>1
    <3>4. \A c \in Partners : Explained(stmt, reported, c, d) => Explained(stmt', reported', c, d)
      OBVIOUS
    <3> QED
      BY <3>1, <3>2, <3>3, <3>4
  <2> QED
    BY <2>2, <2>3
<1> QED
  BY <1>1, <1>2 DEF HoleInv

\* Explanations only accumulate, whoever acts.
LEMMA ExplainedStays ==
    ASSUME StmtInv, [Next]_vars
    PROVE  /\ \A c \in Partners, d \in Days :
                Explained(stmt, reported, c, d) => Explained(stmt', reported', c, d)
           /\ reported \subseteq reported'
<1>1. ASSUME NEW c \in Partners, NEW d \in Days, stmt[c][d] # NoStatement
      PROVE  stmt'[c][d] # NoStatement
  <2>1. ASSUME NEW w \in Workers, WriteDay(w) PROVE stmt'[c][d] = stmt[c][d]
    BY <1>1, <2>1 DEF WriteDay, StmtInv, TypeOK
  <2>2. ASSUME NEW w \in Workers,
               \/ BeginTick(w) \/ DraftDay(w) \/ PartnerDone(w) \/ EndTick(w)
               \/ (\E e \in Partners : NextPartner(w, e)) \/ DayFails(w) \/ Abandon(w)
        PROVE  stmt' = stmt
    BY <2>2 DEF BeginTick, DraftDay, PartnerDone, EndTick, NextPartner, DayFails, Abandon
  <2>3. ASSUME \/ \E r \in Requests : Stamp(r) \/ Accept(r) \/ Finalize(r)
               \/ Advance \/ UNCHANGED vars
        PROVE  stmt' = stmt
    BY <2>3 DEF Stamp, Accept, Finalize, Meter, Advance, vars
  <2> QED
    BY <1>1, <2>1, <2>2, <2>3 DEF Next, Tick
<1>2. reported \subseteq reported'
  BY DEF Next, Tick, BeginTick, DraftDay, PartnerDone, EndTick, NextPartner, DayFails, Abandon,
         WriteDay, Stamp, Accept, Finalize, Meter, Advance, vars
<1> QED
  BY <1>1, <1>2 DEF Explained

\* Taking up a partner: the days before the walk's first are explained, those the
\* catch-up bound cuts off by the warning.
LEMMA HoleNextPartner ==
    ASSUME StmtInv, HoleInv, NEW w \in Workers, NEW c \in Partners, NextPartner(w, c),
           \A p \in Partners, d \in Days :
              Explained(stmt, reported, p, d) => Explained(stmt', reported', p, d)
    PROVE  HoleInv'
<1> DEFINE k == worker[w]
           from == Anchor(c) + 1
           floor == k.through - MaxCatchup + 1
           q == [k EXCEPT !.partner = c, !.left = @ \ {c}, !.next = Max({from, floor})]
<1>1. k \in WorkerType /\ TypeOK /\ k.through \in Int
  BY LastDayNat DEF StmtInv, TypeOK, WorkerType
<1>2. /\ Anchor(c) \in Int /\ from \in Nat /\ floor \in Int /\ floor <= k.through
  <2>1. Anchor(c) \in Int /\ from \in Nat
    BY AnchorIs
  <2> HIDE DEF k
  <2>2. floor \in Int /\ floor <= k.through
    BY <1>1, Units
  <2> QED
    BY <2>1, <2>2
<1>3. Max({from, floor}) \in Nat /\ Max({from, floor}) = IF from >= floor THEN from ELSE floor
  <2> HIDE DEF from, floor
  <2>1. Max({from, floor}) = IF from >= floor THEN from ELSE floor
    BY <1>2, MaxOfTwo
  <2> QED
    BY <1>2, <2>1
<1>4. /\ worker' = [worker EXCEPT ![w] = q] /\ stmt' = stmt
      /\ reported' = IF k.through >= from
                     THEN reported \cup ({c} \X {d \in Days : from <= d /\ d < floor})
                     ELSE reported
  BY <1>1 DEF NextPartner
<1> DEFINE first == Max({from, floor})
<1>5. first \in Nat /\ first = IF from >= floor THEN from ELSE floor
  BY <1>3
<1>6. /\ q \in WorkerType /\ q.partner = c /\ q.next = first /\ q.through = k.through
  <2> HIDE DEF first
  <2>1. q = [k EXCEPT !.partner = c, !.left = @ \ {c}, !.next = first]
    BY DEF first
  <2> HIDE DEF q
  <2> QED
    BY <1>1, <1>5, <2>1 DEF WorkerType
<1>7. ASSUME first <= k.through, NEW d \in Days, d < first
      PROVE  Explained(stmt', reported', c, d)
  <2>1. d \in Int
    BY LastDayNat DEF Days
  <2>2. k.through >= from
    <3> HIDE DEF first, from, floor
    <3> QED
      BY <1>1, <1>2, <1>5, <1>7
  <2>3. d < Anchor(c) \/ d = Anchor(c) \/ (from <= d /\ d < floor)
    <3> HIDE DEF first, floor
    <3> QED
      BY <1>2, <1>5, <1>7, <2>1
  <2>4. CASE d < Anchor(c)
    BY <2>4 DEF HoleInv
  <2>5. CASE d = Anchor(c)
    <3>1. CASE Stated(c) = {}
      <4>1. Created[c] \in Nat /\ Anchor(c) = Created[c] - 1
        BY <1>1, <3>1, AnchorIs, OwnersKnown
      <4>2. ~(Created[c] <= d)
        BY <2>1, <2>5, <4>1
      <4> QED
        BY <4>2 DEF Explained
    <3>2. CASE Stated(c) # {}
      <4>1. d \in Stated(c)
        BY <1>1, <2>5, <3>2, AnchorIs
      <4> QED
        BY <1>4, <4>1 DEF Explained, Stated
    <3> QED
      BY <3>1, <3>2
  <2>6. CASE from <= d /\ d < floor
    <3> HIDE DEF from, floor
    <3>1. <<c, d>> \in reported'
      BY <1>4, <2>2, <2>6
    <3> QED
      BY <3>1 DEF Explained
  <2> QED
    BY <2>3, <2>4, <2>5, <2>6
<1>8. \A p \in Partners : Anchor(p)' = Anchor(p)
  BY <1>4 DEF Anchor, Stated
<1> HIDE DEF q, first, from, floor, k
<1> QED
  BY <1>4, <1>6, <1>7, <1>8, HoleKeeps

\* A statement may move the anchor to the day just written, and the walk that
\* wrote it has explained the days before.
LEMMA HoleWrite ==
    ASSUME StmtInv, TypeOK', HoleInv, NEW w \in Workers, WriteDay(w),
           \A p \in Partners, d \in Days :
              Explained(stmt, reported, p, d) => Explained(stmt', reported', p, d)
    PROVE  HoleInv'
<1> DEFINE k == worker[w]
           n == k.next + 1
           q == [k EXCEPT !.pc = "walk", !.draft = NoDraft, !.next = n]
<1>1. /\ k \in WorkerType /\ TypeOK /\ k.next \in Nat /\ k.through \in Int
      /\ k.through <= LastDay
  BY LastDayNat DEF StmtInv, TypeOK, WorkerType
<1>2. /\ k.partner \in Partners /\ k.next <= k.through /\ k.draft \in Statement
      /\ k.next \in Days
  BY <1>1, LastDayNat DEF WriteDay, StmtInv, Walks, Days
<1>3. /\ worker' = [worker EXCEPT ![w] = q] /\ reported' = reported
      /\ stmt' = [stmt EXCEPT ![k.partner][k.next] = IF @ = NoStatement THEN k.draft ELSE @]
  BY <1>1 DEF WriteDay, DayDone
<1>4. /\ q \in WorkerType /\ q.partner = k.partner /\ q.next = n /\ q.through = k.through
      /\ n \in Nat
  <2>1. n \in Nat
    BY <1>1
  <2> HIDE DEF n
  <2> QED
    BY <1>1, <2>1 DEF WorkerType
<1>5. \A d \in Days : d < k.next => Explained(stmt', reported', k.partner, d)
  BY <1>2 DEF HoleInv
<1>6. stmt'[k.partner][k.next] # NoStatement
  <2>1. k.draft # NoStatement
    BY <1>2, NoStatementFresh
  <2> QED
    BY <1>1, <1>2, <1>3, <2>1 DEF TypeOK
<1>7. \A d \in Days : d < n => Explained(stmt', reported', k.partner, d)
  <2> SUFFICES ASSUME NEW d \in Days, d < n PROVE Explained(stmt', reported', k.partner, d)
    OBVIOUS
  <2>1. d \in Int /\ (d < k.next \/ d = k.next)
    BY <1>1, LastDayNat DEF Days
  <2>2. CASE d = k.next
    BY <1>6, <2>2 DEF Explained
  <2> QED
    BY <1>5, <2>1, <2>2
<1>8. \A p \in Partners, d \in Days : p # k.partner \/ d # k.next => stmt'[p][d] = stmt[p][d]
  BY <1>1, <1>2, <1>3 DEF TypeOK
<1>9. ASSUME NEW p \in Partners, NEW d \in Days, d < Anchor(p)'
      PROVE  d < Anchor(p) \/ Explained(stmt', reported', p, d)
  <2>0. d \in Int
    BY LastDayNat DEF Days
  <2>1. /\ Anchor(p) \in Int /\ \A e \in Stated(p) : e <= Anchor(p)
        /\ Stated(p) = {} => Anchor(p) = Created[p] - 1
    BY <1>1, AnchorIs
  <2>2. /\ Anchor(p)' \in Int
        /\ Stated(p)' # {} => Anchor(p)' \in Stated(p)'
        /\ Stated(p)' = {} => Anchor(p)' = Created[p] - 1
    <3>1. PICK S : S = Stated(p)'
      OBVIOUS
    <3>2. PICK a : a = Anchor(p)'
      OBVIOUS
    <3>3. S \subseteq Days /\ Created[p] \in Nat
      BY <3>1, OwnersKnown DEF Stated
    <3>4. a = IF S = {} THEN Created[p] - 1 ELSE Max(S)
      BY <3>1, <3>2 DEF Anchor
    <3>5. a \in Int /\ (S # {} => a \in S) /\ (S = {} => a = Created[p] - 1)
      BY <3>3, <3>4, LastOf
    <3> QED
      BY <3>1, <3>2, <3>5
  <2>3. Stated(p)' \subseteq Stated(p) \cup (IF p = k.partner THEN {k.next} ELSE {})
    BY <1>8 DEF Stated
  <2>4. CASE Stated(p)' = {}
    <3>1. Stated(p) = {}
      <4>1. Stated(p) \subseteq Stated(p)'
        BY <1>1, <1>3, <1>6, <1>8 DEF Stated
      <4> QED
        BY <2>4, <4>1
    <3> QED
      BY <1>9, <2>1, <2>2, <2>4, <3>1
  <2>5. CASE Stated(p)' # {}
    <3>1. Anchor(p)' \in Stated(p) \/ (p = k.partner /\ Anchor(p)' = k.next)
      BY <2>2, <2>3, <2>5
    <3>2. CASE Anchor(p)' \in Stated(p)
      <4>1. Anchor(p)' <= Anchor(p)
        BY <2>1, <3>2
      <4> QED
        BY <1>9, <2>0, <2>1, <2>2, <4>1
    <3>3. CASE p = k.partner /\ Anchor(p)' = k.next
      BY <1>5, <1>9, <3>3
    <3> QED
      BY <3>1, <3>2, <3>3
  <2> QED
    BY <2>4, <2>5
<1> HIDE DEF q, n, k
<1> QED
  BY <1>3, <1>4, <1>7, <1>9, HoleKeeps

LEMMA HoleStep == StmtInv /\ HoleInv /\ [Next]_vars => HoleInv'
<1> SUFFICES ASSUME StmtInv, HoleInv, [Next]_vars PROVE HoleInv'
  OBVIOUS
<1>1. \A c \in Partners, d \in Days :
        Explained(stmt, reported, c, d) => Explained(stmt', reported', c, d)
  BY ExplainedStays
<1>2. TypeOK /\ TypeOK'
  BY StmtStep DEF StmtInv
<1>3. ASSUME UNCHANGED <<stmt, worker, reported>> PROVE HoleInv'
  BY <1>3 DEF HoleInv, Anchor, Stated
<1>4. CASE \/ \E r \in Requests : Stamp(r) \/ Accept(r) \/ Finalize(r)
           \/ Advance \/ UNCHANGED vars
  BY <1>3, <1>4 DEF Stamp, Accept, Finalize, Meter, Advance, vars
<1>5. ASSUME NEW w \in Workers, Tick(w) \/ DayFails(w) \/ Abandon(w) PROVE HoleInv'
  <2> DEFINE k == worker[w]
  <2>1. /\ k \in WorkerType /\ worker \in [Workers -> WorkerType]
        /\ k.next \in Nat /\ k.through \in Int /\ k.through <= LastDay
    BY LastDayNat DEF StmtInv, TypeOK, WorkerType
  <2>2. ASSUME stmt' = stmt
        PROVE  \A p \in Partners : Anchor(p)' = Anchor(p)
    BY <2>2 DEF Anchor, Stated
  <2>3. CASE BeginTick(w) \/ EndTick(w) \/ Abandon(w)
    <3>1. PICK q : q = worker'[w]
      OBVIOUS
    <3>2. q \in WorkerType
      BY <1>2, <3>1 DEF TypeOK, WorkerType
    <3>3. q.partner = NoPartner /\ worker' = [worker EXCEPT ![w] = q] /\ stmt' = stmt
      <4>1. \E x : worker' = [worker EXCEPT ![w] = x] /\ x.partner = NoPartner
        <5>1. CASE BeginTick(w)
          <6> DEFINE x == [Idle EXCEPT !.pc = "walk", !.through = Max(Closable(clock)),
                                       !.left = Partners]
          <6>1. worker' = [worker EXCEPT ![w] = x]
            BY <5>1 DEF BeginTick
          <6>2. x.partner = NoPartner
            BY DEF Idle
          <6> QED
            BY <6>1, <6>2
        <5>2. CASE EndTick(w) \/ Abandon(w)
          <6>1. worker' = [worker EXCEPT ![w] = Idle]
            BY <5>2 DEF EndTick, Abandon
          <6>2. Idle.partner = NoPartner
            BY DEF Idle
          <6> QED
            BY <6>1, <6>2
        <5> QED
          BY <2>3, <5>1, <5>2
      <4>2. stmt' = stmt
        BY <2>3 DEF BeginTick, EndTick, Abandon
      <4> QED
        BY <2>1, <3>1, <4>1, <4>2
    <3> QED
      BY <1>1, <2>2, <3>2, <3>3, NoStatementFresh, HoleKeeps
  <2>4. CASE DraftDay(w) \/ PartnerDone(w)
    <3>1. PICK q : q = worker'[w]
      OBVIOUS
    <3>2. q \in WorkerType
      BY <1>2, <3>1 DEF TypeOK, WorkerType
    <3>3. /\ q.partner \in {k.partner, NoPartner} /\ q.next = k.next /\ q.through = k.through
          /\ worker' = [worker EXCEPT ![w] = q] /\ stmt' = stmt
      <4>1. CASE DraftDay(w)
        <5> DEFINE x == StatementForDay(k.partner, k.next)
        <5>1. worker' = [worker EXCEPT ![w] = [k EXCEPT !.pc = "drafted", !.draft = x]]
              /\ stmt' = stmt
          BY <2>1, <4>1 DEF DraftDay
        <5> HIDE DEF x
        <5> QED
          BY <2>1, <3>1, <5>1 DEF WorkerType
      <4>2. CASE PartnerDone(w)
        BY <2>1, <3>1, <4>2 DEF PartnerDone, WorkerType
      <4> QED
        BY <2>4, <4>1, <4>2
    <3>4. (q.partner \in Partners /\ q.next <= q.through) =>
             \A d \in Days : d < q.next => Explained(stmt', reported', q.partner, d)
      BY <1>1, <3>3, NoStatementFresh DEF HoleInv
    <3> QED
      BY <1>1, <2>2, <3>2, <3>3, <3>4, HoleKeeps
  <2>5. CASE DayFails(w)
    <3>1. PICK q : q = worker'[w]
      OBVIOUS
    <3>2. q \in WorkerType
      BY <1>2, <3>1 DEF TypeOK, WorkerType
    <3>3. /\ q.partner = k.partner /\ q.next = k.next + 1 /\ q.through = k.through
          /\ worker' = [worker EXCEPT ![w] = q] /\ stmt' = stmt
          /\ <<k.partner, k.next>> \in reported'
      BY <2>1, <2>5, <3>1 DEF DayFails, DayDone, WorkerType
    <3>4. k.partner \in Partners /\ k.next <= k.through
      BY <2>1, <2>5 DEF DayFails, StmtInv, Walks, Walking, WorkerType
    <3>5. \A d \in Days : d < q.next => Explained(stmt', reported', q.partner, d)
      <4> SUFFICES ASSUME NEW d \in Days, d < q.next
                   PROVE  Explained(stmt', reported', k.partner, d)
        BY <3>3
      <4>1. d \in Int /\ (d < k.next \/ d = k.next)
        BY <2>1, <3>3, LastDayNat DEF Days
      <4>2. CASE d = k.next
        BY <3>3, <4>2 DEF Explained
      <4>3. CASE d < k.next
        BY <1>1, <3>4, <4>3 DEF HoleInv
      <4> QED
        BY <4>1, <4>2, <4>3
    <3> QED
      BY <1>1, <2>2, <3>2, <3>3, <3>5, HoleKeeps
  <2> QED
    BY <1>1, <1>2, <1>5, <2>3, <2>4, <2>5, HoleNextPartner, HoleWrite DEF Tick
<1> QED
  BY <1>4, <1>5 DEF Next

\* Behind the last statement of a partner every day is stated or was reported, for
\* any number of workers and any interleaving of their walks, failures and deaths
\* (close_days, days_to_close and its truncation warning).
THEOREM HolesAreReported == Spec => []NoSilentHole
<1>1. HoleInv => NoSilentHole
  BY DEF HoleInv, NoSilentHole, Explained
<1> QED
  BY <1>1, StmtInit, StmtStep, HoleInit, HoleStep, PTL DEF Spec

=============================================================================
