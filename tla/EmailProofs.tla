---------------------------- MODULE EmailProofs ----------------------------
(***************************************************************************)
(* What the lease on a statement buys, for any number of statements,       *)
(* workers and faults, and for ticks of any length beside it.  The         *)
(* invariant ties a claim in a worker's memory to the column it was made   *)
(* in: while a statement is not overdue, whoever has it in hand has a      *)
(* lease of Ttl less the age of the tick, so it has not lapsed and nobody  *)
(* else can claim it; and a message is either in the record, or in         *)
(* somebody's hand, or excused.                                            *)
(***************************************************************************)
EXTENDS StatementEmail, SetFacts

InConversation == {"sending", "sent", "failed"}

WorkerType ==
    [pc : {"idle", "closing", "emailing", "sending", "sent", "failed", "dead"},
     age : Int, todo : SUBSET Claimed, cur : Claimed \cup {NoStatement}, got : BOOLEAN]

Shapes ==
    /\ issued \subseteq Ids /\ sentAt \subseteq Ids
    /\ attempts \in [Ids -> 0..MaxExp]
    /\ lease \in [Ids -> Int]
    /\ worker \in [Workers -> WorkerType]
    /\ delivered \in [Ids -> Nat] /\ excused \in [Ids -> Nat]

Holds(w, k) == \/ k \in worker[w].todo
               \/ worker[w].pc \in InConversation /\ k = worker[w].cur

\* The shape of one worker's tick.
TickShape ==
    \A w \in Workers :
        /\ worker[w].pc \in {"idle", "dead", "closing"} => worker[w].todo = {}
        /\ worker[w].pc \in InConversation =>
              worker[w].cur \in Claimed /\ worker[w].cur \notin worker[w].todo
        /\ worker[w].pc \notin InConversation => worker[w].cur = NoStatement
        /\ worker[w].got => worker[w].pc \in {"sending", "sent"}
        /\ worker[w].pc = "sent" => worker[w].got
        /\ Busy(w) => worker[w].age \in 0..MaxTick

\* Until it is overdue, what a worker holds is leased to it and to nobody else.
Leased ==
    \A w \in Workers, k \in Claimed : (Holds(w, k) /\ k.id \notin overdue) =>
        /\ worker[w].age < Ttl /\ lease[k.id] = Ttl - worker[w].age
        /\ k.id \notin sentAt

OneHolder ==
    \A v, w \in Workers, j, k \in Claimed :
        (Holds(v, j) /\ Holds(w, k) /\ j.id = k.id /\ j.id \notin overdue)
            => v = w /\ j = k

Unrecorded(s) == \E w \in Workers : worker[w].got /\ worker[w].cur.id = s

Messages ==
    \A s \in Ids : \/ delivered[s] <= excused[s]
                   \/ /\ delivered[s] <= 1 + excused[s]
                      /\ s \in sentAt \/ Unrecorded(s)

EmailInv == Shapes /\ TickShape /\ Leased /\ OneHolder /\ Messages

\* What a step may add to what workers hold, besides the statements of a claim.
NothingRetaken ==
    \A w \in Workers, k \in Claimed : Holds(w, k)' => Holds(w, k) \/ k.id \notin sentAt

\* What the invariant says of a held statement.
LEMMA HeldFacts ==
    ASSUME EmailInv, NEW w \in Workers, NEW k \in Claimed, Holds(w, k)
    PROVE  /\ k.id \in Ids /\ Busy(w) /\ worker[w].age \in 0..MaxTick
           /\ k.id \notin overdue => /\ worker[w].age < Ttl
                                     /\ lease[k.id] = Ttl - worker[w].age /\ lease[k.id] > 0
                                     /\ k.id \notin sentAt
<1>1. k.id \in Ids
  BY DEF Claimed
<1>2. Busy(w)
  BY DEF EmailInv, TickShape, Holds, InConversation, Busy
<1>3. worker[w].age \in 0..MaxTick
  BY <1>2 DEF EmailInv, TickShape
<1>4. k.id \notin overdue => /\ worker[w].age < Ttl
                             /\ lease[k.id] = Ttl - worker[w].age /\ k.id \notin sentAt
  BY DEF EmailInv, Leased
<1> QED
  BY <1>1, <1>2, <1>3, <1>4, TimesNat

\* What a worker holds is what it has in hand.
LEMMA HoldsIsInHand ==
    ASSUME NEW w \in Workers, NEW k \in Claimed, Holds(w, k)
    PROVE  k.id \in InHand(w)
<1>1. k # NoStatement
  BY NothingFresh
<1>2. k \in worker[w].todo \cup ({worker[w].cur} \ {NoStatement})
  BY <1>1 DEF Holds
<1> QED
  BY <1>2 DEF InHand

LEMMA InHandIsHeld ==
    ASSUME EmailInv, NEW w \in Workers, NEW s \in InHand(w)
    PROVE  \E k \in Claimed : Holds(w, k) /\ k.id = s
<1>1. PICK k \in worker[w].todo \cup ({worker[w].cur} \ {NoStatement}) : k.id = s
  BY DEF InHand
<1>2. worker[w] \in WorkerType
  BY DEF EmailInv, Shapes
<1>3. CASE k \in worker[w].todo
  BY <1>1, <1>2, <1>3 DEF Holds, WorkerType
<1>4. CASE k = worker[w].cur /\ k # NoStatement
  <2>1. worker[w].pc \in InConversation
    BY <1>4 DEF EmailInv, TickShape
  <2>2. k \in Claimed
    BY <1>2, <1>4 DEF WorkerType
  <2> QED
    BY <1>1, <1>4, <2>1, <2>2 DEF Holds
<1> QED
  BY <1>1, <1>3, <1>4

\* The same after a step.
LEMMA HeldAfter ==
    ASSUME EmailInv', NEW w \in Workers, NEW s, s \in InHand(w)'
    PROVE  \E k \in Claimed : Holds(w, k)' /\ k.id = s
<1>1. PICK k \in worker'[w].todo \cup ({worker'[w].cur} \ {NoStatement}) : k.id = s
  BY DEF InHand
<1>2. worker'[w] \in WorkerType
  BY DEF EmailInv, Shapes
<1>3. CASE k \in worker'[w].todo
  BY <1>1, <1>2, <1>3 DEF Holds, WorkerType
<1>4. CASE k = worker'[w].cur /\ k # NoStatement
  <2>1. worker'[w].pc \in InConversation
    BY <1>4 DEF EmailInv, TickShape
  <2>2. k \in Claimed
    BY <1>2, <1>4 DEF WorkerType
  <2> QED
    BY <1>1, <1>4, <2>1, <2>2 DEF Holds
<1> QED
  BY <1>1, <1>3, <1>4

\* Overdue a statement stays while somebody holds it, and it is overdue as soon as
\* a tick that holds it is as old as the lease.
LEMMA Watched ==
    ASSUME WatchLeases, NEW w \in Workers, NEW k \in Claimed, Holds(w, k)',
           k.id \notin overdue'
    PROVE  k.id \notin overdue /\ ~(worker'[w].age >= Ttl)
<1>1. k.id \in InHand(w)'
  <2>1. k # NoStatement
    BY NothingFresh
  <2>2. k \in worker'[w].todo \cup ({worker'[w].cur} \ {NoStatement})
    BY <2>1 DEF Holds
  <2> QED
    BY <2>2 DEF InHand
<1>2. k.id \in UNION {InHand(v)' : v \in Workers}
  BY <1>1
<1> QED
  BY <1>1, <1>2 DEF WatchLeases

\* The start: nothing is claimed and nothing delivered.
LEMMA EmailInit == Init => EmailInv
<1> SUFFICES ASSUME Init PROVE EmailInv
  OBVIOUS
<1>1. Lapsed \in Int /\ 0 \in 0..MaxExp /\ Interval \in Int
  BY TimesNat DEF Lapsed
<1>2. \A w \in Workers : /\ worker[w].pc = "idle" /\ worker[w].todo = {}
                         /\ worker[w].cur = NoStatement
                         /\ worker[w].got = FALSE /\ worker[w] \in WorkerType
  BY <1>1 DEF Init, Resting, WorkerType
<1>3. worker \in [Workers -> WorkerType]
  BY <1>2 DEF Init
<1>4. Shapes
  BY <1>1, <1>3 DEF Init, Shapes
<1>5. TickShape /\ Leased /\ OneHolder
  BY <1>2 DEF TickShape, Leased, OneHolder, Holds, InConversation, Busy
<1>6. Messages
  BY DEF Init, Messages
<1> QED
  BY <1>4, <1>5, <1>6 DEF EmailInv

\* What one worker's step may do to its own record: take nothing new in hand.
Narrows(w, r) ==
    /\ worker' = [worker EXCEPT ![w] = r] /\ r \in WorkerType
    /\ r.pc \in {"idle", "dead", "closing"} => r.todo = {}
    /\ r.pc \in InConversation => r.cur \in Claimed /\ r.cur \notin r.todo
    /\ r.pc \notin InConversation => r.cur = NoStatement
    /\ r.got => r.pc \in {"sending", "sent"}
    /\ r.pc = "sent" => r.got
    /\ r.pc \notin {"idle", "dead"} => r.age \in 0..MaxTick
    /\ \A k \in Claimed : (k \in r.todo \/ (r.pc \in InConversation /\ k = r.cur))
                            => Holds(w, k) /\ r.age = worker[w].age

\* Such a step keeps the tick shapes, and nobody holds anything new.
LEMMA NarrowStep ==
    ASSUME EmailInv, WatchLeases, NEW w \in Workers, NEW r, Narrows(w, r)
    PROVE  /\ worker' \in [Workers -> WorkerType]
           /\ TickShape' /\ OneHolder' /\ NothingRetaken
           /\ \A v \in Workers, k \in Claimed : Holds(v, k)' =>
                 Holds(v, k) /\ worker'[v].age = worker[v].age
           /\ \A v \in Workers, k \in Claimed :
                 Holds(v, k)' /\ k.id \notin overdue' => k.id \notin overdue
<1>1. worker \in [Workers -> WorkerType]
  BY DEF EmailInv, Shapes
<1>2. /\ worker' \in [Workers -> WorkerType]
      /\ worker'[w] = r
      /\ \A v \in Workers : v # w => worker'[v] = worker[v]
  BY <1>1 DEF Narrows
<1>3. TickShape'
  <2> SUFFICES ASSUME NEW v \in Workers
               PROVE  /\ worker'[v].pc \in {"idle", "dead", "closing"} => worker'[v].todo = {}
                      /\ worker'[v].pc \in InConversation =>
                            worker'[v].cur \in Claimed /\ worker'[v].cur \notin worker'[v].todo
                      /\ worker'[v].pc \notin InConversation => worker'[v].cur = NoStatement
                      /\ worker'[v].got => worker'[v].pc \in {"sending", "sent"}
                      /\ worker'[v].pc = "sent" => worker'[v].got
                      /\ worker'[v].pc \notin {"idle", "dead"} => worker'[v].age \in 0..MaxTick
    BY Zenon DEF TickShape, Busy
  <2>1. CASE v = w
    BY <2>1, <1>2 DEF Narrows
  <2>2. CASE v # w
    BY <2>2, <1>2 DEF EmailInv, TickShape, Busy
  <2> QED
    BY <2>1, <2>2
<1>4. \A v \in Workers, k \in Claimed : Holds(v, k)' =>
         Holds(v, k) /\ worker'[v].age = worker[v].age
  <2> SUFFICES ASSUME NEW v \in Workers, NEW k \in Claimed, Holds(v, k)'
               PROVE  Holds(v, k) /\ worker'[v].age = worker[v].age
    OBVIOUS
  <2>1. CASE v = w
    <3>1. k \in r.todo \/ (r.pc \in InConversation /\ k = r.cur)
      BY <2>1, <1>2 DEF Holds
    <3>2. Holds(w, k) /\ r.age = worker[w].age
      BY <3>1 DEF Narrows
    <3>3. worker'[v].age = r.age
      BY <2>1, <1>2
    <3> QED
      BY <3>2, <3>3, <2>1
  <2>2. CASE v # w
    BY <2>2, <1>2 DEF Holds
  <2> QED
    BY <2>1, <2>2
<1>5. \A v \in Workers, k \in Claimed :
         Holds(v, k)' /\ k.id \notin overdue' => k.id \notin overdue
  BY Watched
<1>6. OneHolder'
  BY <1>4, <1>5, Zenon DEF EmailInv, OneHolder
<1>7. NothingRetaken
  BY <1>4 DEF NothingRetaken
<1> QED
  BY <1>2, <1>3, <1>4, <1>5, <1>6, <1>7

\* A step that claims nothing, writes no row and delivers nothing keeps the
\* invariant if every message it stops tracking is excused.
LEMMA QuietStep ==
    ASSUME EmailInv, WatchLeases, NEW w \in Workers, NEW r, Narrows(w, r),
           issued' \subseteq Ids, attempts' \in [Ids -> 0..MaxExp],
           UNCHANGED <<sentAt, lease, delivered>>,
           \/ /\ UNCHANGED excused
              /\ worker[w].got => r.got /\ r.cur = worker[w].cur
           \/ /\ worker[w].got
              /\ excused' = [excused EXCEPT ![worker[w].cur.id] = @ + 1]
    PROVE  EmailInv' /\ NothingRetaken
<1>1. /\ worker' \in [Workers -> WorkerType]
      /\ TickShape' /\ OneHolder' /\ NothingRetaken
      /\ \A v \in Workers, k \in Claimed : Holds(v, k)' =>
            Holds(v, k) /\ worker'[v].age = worker[v].age
      /\ \A v \in Workers, k \in Claimed :
            Holds(v, k)' /\ k.id \notin overdue' => k.id \notin overdue
  BY NarrowStep
<1>2. /\ worker'[w] = r
      /\ \A v \in Workers : v # w => worker'[v] = worker[v]
  BY DEF Narrows, EmailInv, Shapes
<1>3. worker[w].got => worker[w].cur \in Claimed /\ worker[w].cur.id \in Ids
  BY DEF EmailInv, TickShape, InConversation, Claimed
<1>4. excused' \in [Ids -> Nat] /\ \A s \in Ids : excused'[s] >= excused[s]
  BY <1>3 DEF EmailInv, Shapes
<1>5. Shapes'
  BY <1>1, <1>4 DEF EmailInv, Shapes
<1>6. Leased'
  BY <1>1 DEF EmailInv, Leased
<1>7. Messages'
  <2> SUFFICES ASSUME NEW s \in Ids
               PROVE  \/ delivered'[s] <= excused'[s]
                      \/ /\ delivered'[s] <= 1 + excused'[s]
                         /\ s \in sentAt' \/ Unrecorded(s)'
    BY DEF Messages
  <2>1. delivered[s] \in Nat /\ excused[s] \in Nat /\ excused'[s] \in Nat
    BY <1>4 DEF EmailInv, Shapes
  <2>2. \/ delivered[s] <= excused[s]
        \/ delivered[s] <= 1 + excused[s] /\ s \in sentAt
        \/ delivered[s] <= 1 + excused[s] /\ Unrecorded(s)
    BY DEF EmailInv, Messages
  <2>3. CASE delivered[s] <= excused[s]
    BY <2>1, <2>3, <1>4
  <2>4. CASE delivered[s] <= 1 + excused[s] /\ s \in sentAt
    BY <2>1, <2>4, <1>4
  <2>5. CASE delivered[s] <= 1 + excused[s] /\ Unrecorded(s)
    <3>1. PICK v \in Workers : worker[v].got /\ worker[v].cur.id = s
      BY <2>5 DEF Unrecorded
    <3>2. CASE v # w
      <4>1. Unrecorded(s)'
        BY <3>1, <3>2, <1>2 DEF Unrecorded
      <4> QED
        BY <4>1, <2>1, <2>5, <1>4
    <3>3. CASE v = w /\ r.got /\ r.cur = worker[w].cur
      <4>1. Unrecorded(s)'
        BY <3>1, <3>3, <1>2 DEF Unrecorded
      <4> QED
        BY <4>1, <2>1, <2>5, <1>4
    <3>4. CASE v = w /\ excused' = [excused EXCEPT ![worker[w].cur.id] = @ + 1]
      <4>1. excused'[s] = excused[s] + 1
        BY <3>1, <3>4 DEF EmailInv, Shapes
      <4> QED
        BY <4>1, <2>1, <2>5
    <3> QED
      BY <3>1, <3>2, <3>3, <3>4
  <2> QED
    BY <2>2, <2>3, <2>4, <2>5
<1> QED
  BY <1>1, <1>5, <1>6, <1>7 DEF EmailInv

\* The steps of a tick that neither claim, deliver nor record a success.
LEMMA PlainSteps ==
    ASSUME EmailInv, WatchLeases, NEW w \in Workers,
           \/ BeginTick(w) \/ TickFails(w) \/ SendSucceeds(w) \/ SendFails(w)
           \/ RecordError(w) \/ EndTick(w) \/ Crash(w) \/ Restart(w)
           \/ \E k \in worker[w].todo : BeginSend(w, k) \/ SkipUnreadable(w, k)
    PROVE  EmailInv' /\ NothingRetaken
<1> DEFINE k0 == worker[w]
<1>1. /\ worker \in [Workers -> WorkerType] /\ k0 \in WorkerType
      /\ issued \subseteq Ids /\ attempts \in [Ids -> 0..MaxExp]
      /\ Interval \in Int /\ 0 \in 0..MaxTick
  BY TimesNat DEF EmailInv, Shapes
<1>2. /\ k0.pc \in {"idle", "dead", "closing"} => k0.todo = {}
      /\ k0.pc \in InConversation => k0.cur \in Claimed /\ k0.cur \notin k0.todo
      /\ k0.pc \notin InConversation => k0.cur = NoStatement
      /\ k0.got => k0.pc \in {"sending", "sent"}
      /\ k0.pc = "sent" => k0.got
      /\ k0.pc \notin {"idle", "dead"} => k0.age \in 0..MaxTick
  BY DEF EmailInv, TickShape, Busy
<1>3. CASE BeginTick(w)
  <2> DEFINE r == Resting("closing", 0)
  <2>1. r \in WorkerType /\ r.pc = "closing" /\ r.todo = {} /\ r.cur = NoStatement
        /\ r.got = FALSE /\ r.age = 0
    BY DEF Resting, WorkerType
  <2>2. Narrows(w, r) /\ ~k0.got
    BY <1>1, <1>2, <1>3, <2>1 DEF BeginTick, Narrows, InConversation
  <2> QED
    BY <1>1, <1>3, <2>2, QuietStep DEF BeginTick, rowVars
<1>4. CASE TickFails(w) \/ EndTick(w)
  <2> DEFINE r == Resting("idle", 0)
  <2>1. r \in WorkerType /\ r.pc = "idle" /\ r.todo = {} /\ r.cur = NoStatement
        /\ r.got = FALSE
    BY DEF Resting, WorkerType
  <2>2. Narrows(w, r) /\ ~k0.got
    BY <1>1, <1>2, <1>4, <2>1 DEF TickFails, EndTick, Narrows, InConversation
  <2> QED
    BY <1>1, <1>4, <2>2, QuietStep DEF TickFails, EndTick, rowVars
<1>5. CASE SendSucceeds(w)
  <2> DEFINE r == [k0 EXCEPT !.pc = "sent"]
  <2>1. r \in WorkerType /\ r.pc = "sent" /\ r.todo = k0.todo /\ r.got = k0.got
        /\ r.cur = k0.cur /\ r.age = k0.age
    BY <1>1 DEF WorkerType
  <2>2. Narrows(w, r)
    BY <1>1, <1>2, <1>5, <2>1 DEF SendSucceeds, Narrows, InConversation, Holds
  <2> QED
    BY <1>1, <1>5, <2>1, <2>2, QuietStep DEF SendSucceeds, rowVars
<1>6. CASE SendFails(w)
  <2> DEFINE r == [k0 EXCEPT !.pc = "failed", !.got = FALSE]
  <2>1. r \in WorkerType /\ r.pc = "failed" /\ r.todo = k0.todo /\ r.got = FALSE
        /\ r.cur = k0.cur /\ r.age = k0.age
    BY <1>1 DEF WorkerType
  <2>2. Narrows(w, r)
    BY <1>1, <1>2, <1>6, <2>1 DEF SendFails, Narrows, InConversation, Holds
  <2> QED
    BY <1>1, <1>6, <2>1, <2>2, QuietStep DEF SendFails, Excuse, rowVars
<1>7. CASE RecordError(w)
  <2> DEFINE r == [k0 EXCEPT !.pc = "emailing", !.cur = NoStatement, !.got = FALSE]
  <2>1. r \in WorkerType /\ r.pc = "emailing" /\ r.todo = k0.todo /\ r.got = FALSE
        /\ r.age = k0.age /\ r.cur = NoStatement
    BY <1>1 DEF WorkerType
  <2>2. Narrows(w, r)
    BY <1>1, <1>2, <1>7, <2>1 DEF RecordError, NextSend, Narrows, InConversation, Holds
  <2> QED
    BY <1>1, <1>7, <2>1, <2>2, QuietStep DEF RecordError, Excuse, rowVars
<1>8. CASE Crash(w)
  <2> DEFINE r == Resting("dead", 0)
  <2>1. r \in WorkerType /\ r.pc = "dead" /\ r.todo = {} /\ r.cur = NoStatement
        /\ r.got = FALSE
    BY DEF Resting, WorkerType
  <2>2. Narrows(w, r)
    BY <1>1, <1>2, <1>8, <2>1 DEF Crash, Narrows, InConversation
  <2> QED
    BY <1>1, <1>8, <2>1, <2>2, QuietStep DEF Crash, Excuse, rowVars
<1>9. CASE Restart(w)
  <2> DEFINE r == Resting("idle", Interval)
  <2>1. r \in WorkerType /\ r.pc = "idle" /\ r.todo = {} /\ r.cur = NoStatement
        /\ r.got = FALSE
    BY <1>1 DEF Resting, WorkerType
  <2>2. Narrows(w, r) /\ ~k0.got
    BY <1>1, <1>2, <1>9, <2>1 DEF Restart, Narrows, InConversation
  <2> QED
    BY <1>1, <1>9, <2>2, QuietStep DEF Restart, rowVars
<1>10. ASSUME NEW k \in k0.todo, BeginSend(w, k) PROVE EmailInv' /\ NothingRetaken
  <2> DEFINE r == [k0 EXCEPT !.todo = @ \ {k}, !.cur = k, !.pc = "sending", !.got = FALSE]
  <2>1. r \in WorkerType /\ r.pc = "sending" /\ r.todo = k0.todo \ {k} /\ r.got = FALSE
        /\ r.cur = k /\ r.age = k0.age /\ k \in Claimed
    BY <1>1 DEF WorkerType
  <2>2. Narrows(w, r) /\ ~k0.got
    BY <1>1, <1>2, <1>10, <2>1 DEF BeginSend, Narrows, InConversation, Holds
  <2> QED
    BY <1>1, <1>10, <2>2, QuietStep DEF BeginSend, rowVars
<1>11. ASSUME NEW k \in k0.todo, SkipUnreadable(w, k) PROVE EmailInv' /\ NothingRetaken
  <2> DEFINE r == [k0 EXCEPT !.todo = @ \ {k}]
  <2>1. r \in WorkerType /\ r.pc = k0.pc /\ r.todo = k0.todo \ {k} /\ r.got = k0.got
        /\ r.cur = k0.cur /\ r.age = k0.age
    BY <1>1 DEF WorkerType
  <2>2. Narrows(w, r) /\ ~k0.got
    BY <1>1, <1>2, <1>11, <2>1 DEF SkipUnreadable, Narrows, InConversation, Holds
  <2> QED
    BY <1>1, <1>11, <2>2, QuietStep DEF SkipUnreadable, rowVars
<1> QED
  BY <1>3, <1>4, <1>5, <1>6, <1>7, <1>8, <1>9, <1>10, <1>11

\* Until it is overdue, a statement's delivery is the only message in hand for it.
LEMMA DeliverKeeps ==
    ASSUME EmailInv, WatchLeases, NEW w \in Workers, Deliver(w)
    PROVE  EmailInv' /\ NothingRetaken
<1> DEFINE k0 == worker[w]
           r == [k0 EXCEPT !.got = TRUE]
           s0 == k0.cur.id
<1>1. /\ worker \in [Workers -> WorkerType] /\ k0 \in WorkerType
      /\ delivered \in [Ids -> Nat] /\ excused \in [Ids -> Nat]
  BY DEF EmailInv, Shapes
<1>2. k0.cur \in Claimed /\ k0.cur \notin k0.todo /\ k0.age \in 0..MaxTick /\ s0 \in Ids
  BY DEF EmailInv, TickShape, Busy, Deliver, InConversation, Claimed
<1>3. r \in WorkerType /\ r.pc = "sending" /\ r.todo = k0.todo /\ r.got = TRUE
      /\ r.cur = k0.cur /\ r.age = k0.age
  BY <1>1 DEF WorkerType, Deliver
<1>4. Narrows(w, r)
  BY <1>1, <1>2, <1>3 DEF Deliver, Narrows, InConversation, Holds
<1>5. /\ worker' \in [Workers -> WorkerType] /\ TickShape' /\ OneHolder' /\ NothingRetaken
      /\ \A v \in Workers, k \in Claimed : Holds(v, k)' =>
            Holds(v, k) /\ worker'[v].age = worker[v].age
      /\ \A v \in Workers, k \in Claimed :
            Holds(v, k)' /\ k.id \notin overdue' => k.id \notin overdue
  BY <1>4, NarrowStep
<1>6. Shapes' /\ Leased'
  <2>1. excused' \in [Ids -> Nat] /\ delivered' \in [Ids -> Nat]
    BY <1>1, <1>2 DEF Deliver
  <2>2. Shapes'
    BY <2>1, <1>1, <1>5 DEF EmailInv, Shapes, Deliver, rowVars
  <2>3. Leased'
    BY <1>5 DEF EmailInv, Leased, Deliver, rowVars
  <2> QED
    BY <2>2, <2>3
<1>7. /\ worker'[w] = r
      /\ \A v \in Workers : v # w => worker'[v] = worker[v]
  BY <1>1 DEF Deliver
<1>8. Holds(w, k0.cur)
  BY DEF Holds, Deliver, InConversation
<1>9. s0 \notin overdue => ~Unrecorded(s0) /\ s0 \notin sentAt
  <2> HAVE s0 \notin overdue
  <2>1. s0 \notin sentAt
    BY <1>2, <1>8 DEF EmailInv, Leased
  <2>2. ASSUME NEW v \in Workers, worker[v].got, worker[v].cur.id = s0
        PROVE  FALSE
    <3>1. worker[v].cur \in Claimed /\ Holds(v, worker[v].cur)
      BY <2>2 DEF EmailInv, TickShape, InConversation, Holds
    <3>2. v = w
      BY <3>1, <2>2, <1>2, <1>8 DEF EmailInv, OneHolder
    <3> QED
      BY <3>2, <2>2 DEF Deliver
  <2> QED
    BY <2>1, <2>2 DEF Unrecorded
<1>10. Messages'
  <2> SUFFICES ASSUME NEW s \in Ids
               PROVE  \/ delivered'[s] <= excused'[s]
                      \/ /\ delivered'[s] <= 1 + excused'[s]
                         /\ s \in sentAt' \/ Unrecorded(s)'
    BY DEF Messages
  <2>1. CASE s = s0
    <3>0. /\ delivered[s] \in Nat /\ excused[s] \in Nat
          /\ delivered'[s] = delivered[s] + 1
          /\ excused'[s] = IF s0 \in overdue THEN excused[s] + 1 ELSE excused[s]
      BY <2>1, <1>1, <1>2 DEF Deliver
    <3>1. s0 \notin overdue => delivered[s] <= excused[s]
      BY <2>1, <1>9 DEF EmailInv, Messages
    <3>4. delivered[s] <= 1 + excused[s]
      BY <3>0 DEF EmailInv, Messages
    <3>2. delivered'[s] <= 1 + excused'[s]
      BY <3>0, <3>1, <3>4
    <3>3. Unrecorded(s)'
      BY <2>1, <1>7, <1>3 DEF Unrecorded
    <3> QED
      BY <3>2, <3>3
  <2>2. CASE s # s0
    <3>1. delivered'[s] = delivered[s] /\ excused'[s] = excused[s] /\ sentAt' = sentAt
      BY <2>2, <1>1 DEF Deliver, rowVars
    <3>2. Unrecorded(s) => Unrecorded(s)'
      BY <2>2, <1>7, <1>3 DEF Unrecorded
    <3> QED
      BY <3>1, <3>2 DEF EmailInv, Messages
  <2> QED
    BY <2>1, <2>2
<1> QED
  BY <1>5, <1>6, <1>10, Zenon DEF EmailInv

\* Recording either outcome clears the lease: of a statement only its recorder
\* held, which is then out of its hand, or of an overdue one.
LEMMA RecordKeeps ==
    ASSUME EmailInv, WatchLeases, NEW w \in Workers, RecordSent(w) \/ RecordFailed(w)
    PROVE  EmailInv' /\ NothingRetaken
<1> DEFINE k0 == worker[w]
           r == [k0 EXCEPT !.pc = "emailing", !.cur = NoStatement, !.got = FALSE]
           s0 == k0.cur.id
<1>1. /\ worker \in [Workers -> WorkerType] /\ k0 \in WorkerType
      /\ lease \in [Ids -> Int] /\ attempts \in [Ids -> 0..MaxExp]
      /\ delivered \in [Ids -> Nat] /\ excused \in [Ids -> Nat]
  BY DEF EmailInv, Shapes
<1>2. /\ k0.cur \in Claimed /\ k0.cur \notin k0.todo /\ k0.age \in 0..MaxTick
      /\ s0 \in Ids /\ k0.pc \in {"sent", "failed"} /\ (k0.pc = "failed" => ~k0.got)
  BY DEF EmailInv, TickShape, Busy, RecordSent, RecordFailed, InConversation, Claimed
<1>3. r \in WorkerType /\ r.pc = "emailing" /\ r.todo = k0.todo /\ r.got = FALSE
      /\ r.age = k0.age /\ r.cur = NoStatement
  BY <1>1 DEF WorkerType
<1>4. worker' = [worker EXCEPT ![w] = r]
  BY <1>1 DEF RecordSent, RecordFailed, NextSend
<1>5. Narrows(w, r)
  BY <1>1, <1>2, <1>3, <1>4 DEF Narrows, InConversation, Holds
<1>6. /\ worker' \in [Workers -> WorkerType] /\ TickShape' /\ OneHolder' /\ NothingRetaken
      /\ \A v \in Workers, k \in Claimed : Holds(v, k)' =>
            Holds(v, k) /\ worker'[v].age = worker[v].age
      /\ \A v \in Workers, k \in Claimed :
            Holds(v, k)' /\ k.id \notin overdue' => k.id \notin overdue
  BY <1>5, NarrowStep
<1>7. Holds(w, k0.cur)
  BY <1>2 DEF Holds, InConversation
<1>8. \A v \in Workers, k \in Claimed :
         Holds(v, k)' /\ k.id \notin overdue => k.id # s0
  <2> SUFFICES ASSUME NEW v \in Workers, NEW k \in Claimed, Holds(v, k)',
                      k.id \notin overdue, k.id = s0
               PROVE  FALSE
    OBVIOUS
  <2>1. v = w /\ k = k0.cur
    BY <1>2, <1>6, <1>7 DEF EmailInv, OneHolder
  <2>2. worker'[w] = r
    BY <1>1, <1>4
  <2> QED
    BY <2>1, <2>2, <1>2, <1>3 DEF Holds, InConversation
<1>9. /\ lease' = [lease EXCEPT ![s0] = Lapsed] /\ Lapsed \in Int
      /\ attempts' = [attempts EXCEPT ![s0] = Min({@ + 1, MaxExp})]
      /\ UNCHANGED <<issued, delivered, excused>>
      /\ sentAt \subseteq sentAt' /\ sentAt' \subseteq sentAt \cup {s0}
      /\ k0.pc = "sent" => s0 \in sentAt'
  BY TimesNat DEF RecordSent, RecordFailed, Lapsed
<1>10. Min({attempts[s0] + 1, MaxExp}) \in 0..MaxExp
  <2>1. attempts[s0] + 1 \in Int /\ MaxExp \in Int /\ attempts[s0] + 1 >= 0
    BY <1>1, <1>2, TimesNat
  <2>2. Min({attempts[s0] + 1, MaxExp}) =
          IF attempts[s0] + 1 <= MaxExp THEN attempts[s0] + 1 ELSE MaxExp
    BY <2>1, MinOfTwo
  <2> QED
    BY <2>1, <2>2, TimesNat
<1>11. Shapes'
  <2>1. attempts' \in [Ids -> 0..MaxExp]
    BY <1>1, <1>2, <1>9, <1>10
  <2>2. lease' \in [Ids -> Int]
    BY <1>1, <1>2, <1>9
  <2> QED
    BY <2>1, <2>2, <1>2, <1>6, <1>9 DEF EmailInv, Shapes
<1>12. Leased'
  <2> SUFFICES ASSUME NEW v \in Workers, NEW k \in Claimed, Holds(v, k)',
                      k.id \notin overdue'
               PROVE  /\ worker'[v].age < Ttl /\ lease'[k.id] = Ttl - worker'[v].age
                      /\ k.id \notin sentAt'
    BY Zenon DEF Leased
  <2>0. k.id \notin overdue
    BY <1>6
  <2>1. Holds(v, k) /\ worker'[v].age = worker[v].age /\ k.id # s0 /\ k.id \in Ids
    BY <2>0, <1>6, <1>8 DEF Claimed
  <2>2. /\ worker[v].age < Ttl /\ lease[k.id] = Ttl - worker[v].age
        /\ k.id \notin sentAt
    BY <2>0, <2>1 DEF EmailInv, Leased
  <2> QED
    BY <2>1, <2>2, <1>1, <1>9
<1>13. Messages'
  <2> SUFFICES ASSUME NEW s \in Ids
               PROVE  \/ delivered'[s] <= excused'[s]
                      \/ /\ delivered'[s] <= 1 + excused'[s]
                         /\ s \in sentAt' \/ Unrecorded(s)'
    BY DEF Messages
  <2>1. Unrecorded(s) => s \in sentAt' \/ Unrecorded(s)'
    <3> SUFFICES ASSUME NEW v \in Workers, worker[v].got, worker[v].cur.id = s
                 PROVE  s \in sentAt' \/ Unrecorded(s)'
      BY DEF Unrecorded
    <3>1. CASE v = w
      BY <3>1, <1>2, <1>9
    <3>2. CASE v # w
      BY <3>2, <1>1, <1>4 DEF Unrecorded
    <3> QED
      BY <3>1, <3>2
  <2> QED
    BY <2>1, <1>9 DEF EmailInv, Messages
<1> QED
  BY <1>6, <1>11, <1>12, <1>13, Zenon DEF EmailInv

\* A claim takes statements nobody holds, a held lease not having lapsed, or
\* overdue ones; a recorded success is not among them.
LEMMA ClaimKeeps ==
    ASSUME EmailInv, WatchLeases, NEW w \in Workers, ClaimEmails(w)
    PROVE  EmailInv' /\ NothingRetaken
<1> DEFINE k0 == worker[w]
           claim == Oldest(Due(w))
           took == {[id |-> s, attempts |-> attempts[s]] : s \in claim}
           r == [k0 EXCEPT !.pc = "emailing", !.todo = took]
<1>1. /\ worker \in [Workers -> WorkerType] /\ k0 \in WorkerType
      /\ lease \in [Ids -> Int] /\ attempts \in [Ids -> 0..MaxExp]
      /\ issued \subseteq Ids /\ sentAt \subseteq Ids
  BY DEF EmailInv, Shapes
<1>2. /\ k0.pc = "closing" /\ k0.todo = {} /\ k0.age \in 0..MaxTick /\ ~k0.got
      /\ k0.cur = NoStatement
  BY DEF EmailInv, TickShape, Busy, ClaimEmails, InConversation
<1>3. /\ claim \subseteq Ids
      /\ \A s \in claim : s \notin sentAt /\ lease[s] <= -k0.age
  BY <1>1 DEF Oldest, Due
<1>4. took \subseteq Claimed /\ \A k \in took : k.id \in claim
  BY <1>1, <1>3 DEF Claimed
<1>5. \A j, k \in took : j.id = k.id => j = k
  OBVIOUS
<1> HIDE DEF claim, took
<1>6. /\ r \in WorkerType /\ r.pc = "emailing" /\ r.todo = took /\ r.got = k0.got
      /\ r.cur = k0.cur /\ r.age = k0.age
  BY <1>1, <1>4 DEF WorkerType
<1>7. /\ worker' = [worker EXCEPT ![w] = r]
      /\ worker' \in [Workers -> WorkerType]
      /\ worker'[w] = r
      /\ \A v \in Workers : v # w => worker'[v] = worker[v]
  <2>1. worker' = [worker EXCEPT ![w] = r]
    BY <1>1 DEF ClaimEmails, claim, took
  <2> HIDE DEF r
  <2> QED
    BY <2>1, <1>1, <1>6
<1>8. Max({Ttl - k0.age, Lapsed}) = Ttl - k0.age
  <2>1. Ttl - k0.age \in Int /\ Lapsed \in Int /\ Ttl - k0.age >= Lapsed
    BY <1>2, TimesNat DEF Lapsed
  <2> QED
    BY <2>1, MaxOfTwo
<1>9. /\ lease' = [s \in Ids |-> IF s \in claim THEN Ttl - k0.age ELSE lease[s]]
      /\ UNCHANGED <<issued, sentAt, attempts, delivered, excused>>
  BY <1>8 DEF ClaimEmails, claim
<1>10. \A v \in Workers, k \in Claimed :
          Holds(v, k) => v # w /\ (k.id \notin overdue => k.id \notin claim)
  <2> SUFFICES ASSUME NEW v \in Workers, NEW k \in Claimed, Holds(v, k)
               PROVE  v # w /\ (k.id \notin overdue => k.id \notin claim)
    OBVIOUS
  <2>1. lease[k.id] \in Int /\ (k.id \notin overdue => lease[k.id] > 0)
    BY HeldFacts, <1>1
  <2>2. v # w
    BY <1>2 DEF Holds, InConversation
  <2> QED
    BY <2>1, <2>2, <1>2, <1>3
<1>11. \A v \in Workers, k \in Claimed : Holds(v, k)' =>
          \/ v = w /\ k \in took
          \/ v # w /\ Holds(v, k) /\ (k.id \notin overdue => k.id \notin claim)
  <2> SUFFICES ASSUME NEW v \in Workers, NEW k \in Claimed, Holds(v, k)'
               PROVE  \/ v = w /\ k \in took
                      \/ v # w /\ Holds(v, k) /\ (k.id \notin overdue => k.id \notin claim)
    OBVIOUS
  <2>1. CASE v = w
    BY <2>1, <1>6, <1>7 DEF Holds, InConversation
  <2>2. CASE v # w
    <3>1. Holds(v, k)
      BY <2>2, <1>7 DEF Holds
    <3> QED
      BY <3>1, <2>2, <1>10
  <2> QED
    BY <2>1, <2>2
<1>12. Shapes'
  <2>1. lease' \in [Ids -> Int]
    BY <1>1, <1>2, <1>9, TimesNat
  <2> QED
    BY <2>1, <1>7, <1>9 DEF EmailInv, Shapes
<1>13. TickShape'
  <2> SUFFICES ASSUME NEW v \in Workers
               PROVE  /\ worker'[v].pc \in {"idle", "dead", "closing"} => worker'[v].todo = {}
                      /\ worker'[v].pc \in InConversation =>
                            worker'[v].cur \in Claimed /\ worker'[v].cur \notin worker'[v].todo
                      /\ worker'[v].pc \notin InConversation => worker'[v].cur = NoStatement
                      /\ worker'[v].got => worker'[v].pc \in {"sending", "sent"}
                      /\ worker'[v].pc = "sent" => worker'[v].got
                      /\ worker'[v].pc \notin {"idle", "dead"} => worker'[v].age \in 0..MaxTick
    BY Zenon DEF TickShape, Busy
  <2>1. CASE v = w
    BY <2>1, <1>2, <1>6, <1>7 DEF InConversation
  <2>2. CASE v # w
    BY <2>2, <1>7 DEF EmailInv, TickShape, Busy
  <2> QED
    BY <2>1, <2>2
<1>14. Leased'
  <2> SUFFICES ASSUME NEW v \in Workers, NEW k \in Claimed, Holds(v, k)',
                      k.id \notin overdue'
               PROVE  /\ worker'[v].age < Ttl /\ lease'[k.id] = Ttl - worker'[v].age
                      /\ k.id \notin sentAt'
    BY Zenon DEF Leased
  <2>0. k.id \in Ids /\ k.id \notin overdue /\ ~(worker'[v].age >= Ttl)
    BY Watched DEF Claimed
  <2>1. CASE v = w /\ k \in took
    <3>1. worker'[v].age = k0.age /\ k0.age < Ttl
      BY <2>0, <2>1, <1>2, <1>6, <1>7, TimesNat
    <3> QED
      BY <3>1, <2>0, <2>1, <1>3, <1>4, <1>9
  <2>2. CASE v # w /\ Holds(v, k) /\ k.id \notin claim
    <3>1. worker[v].age < Ttl /\ lease[k.id] = Ttl - worker[v].age /\ k.id \notin sentAt
      BY <2>0, <2>2 DEF EmailInv, Leased
    <3> QED
      BY <3>1, <2>0, <2>2, <1>7, <1>9
  <2> QED
    BY <2>0, <2>1, <2>2, <1>11
<1>15. OneHolder'
  <2> SUFFICES ASSUME NEW u \in Workers, NEW v \in Workers,
                      NEW j \in Claimed, NEW k \in Claimed,
                      Holds(u, j)', Holds(v, k)', j.id = k.id, j.id \notin overdue'
               PROVE  u = v /\ j = k
    BY Zenon DEF OneHolder
  <2>0. j.id \notin overdue /\ k.id \notin overdue
    BY Watched
  <2>1. CASE u = w /\ v = w
    BY <2>1, <1>5, <1>11
  <2>2. CASE u # w /\ v # w
    BY <2>0, <2>2, <1>11 DEF EmailInv, OneHolder
  <2>3. CASE u # w /\ v = w
    BY <2>0, <2>3, <1>4, <1>11
  <2>4. CASE u = w /\ v # w
    BY <2>0, <2>4, <1>4, <1>11
  <2> QED
    BY <2>1, <2>2, <2>3, <2>4
<1>16. Messages'
  <2>1. \A s \in Ids : Unrecorded(s) => Unrecorded(s)'
    BY <1>2, <1>7 DEF Unrecorded
  <2> QED
    BY <2>1, <1>9 DEF EmailInv, Messages
<1>17. NothingRetaken
  <2> SUFFICES ASSUME NEW v \in Workers, NEW k \in Claimed, Holds(v, k)'
               PROVE  Holds(v, k) \/ k.id \notin sentAt
    BY Zenon DEF NothingRetaken
  <2> QED
    BY <1>3, <1>4, <1>11
<1> QED
  BY <1>12, <1>13, <1>14, <1>15, <1>16, <1>17, Zenon DEF EmailInv

\* The clock ages ticks and leases together.
LEMMA AdvanceKeeps ==
    ASSUME EmailInv, WatchLeases, Advance
    PROVE  EmailInv' /\ NothingRetaken
<1>1. /\ worker \in [Workers -> WorkerType] /\ lease \in [Ids -> Int]
      /\ Lapsed \in Int
  BY TimesNat DEF EmailInv, Shapes, Lapsed
<1>2. \A s \in Ids : lease'[s] = IF lease[s] - 1 >= Lapsed THEN lease[s] - 1 ELSE Lapsed
  <2> SUFFICES ASSUME NEW s \in Ids
               PROVE  lease'[s] = IF lease[s] - 1 >= Lapsed THEN lease[s] - 1 ELSE Lapsed
    OBVIOUS
  <2>1. lease'[s] = Max({lease[s] - 1, Lapsed})
    BY DEF Advance, Later
  <2>2. lease[s] - 1 \in Int
    BY <1>1
  <2> QED
    BY <2>1, <2>2, <1>1, MaxOfTwo
<1>3. \A w \in Workers :
         /\ worker'[w] \in WorkerType
         /\ worker'[w].pc = worker[w].pc /\ worker'[w].todo = worker[w].todo
         /\ worker'[w].cur = worker[w].cur /\ worker'[w].got = worker[w].got
         /\ worker[w].pc # "dead" => worker'[w].age = worker[w].age + 1
  <2> SUFFICES ASSUME NEW w \in Workers
               PROVE  /\ worker'[w] \in WorkerType
                      /\ worker'[w].pc = worker[w].pc /\ worker'[w].todo = worker[w].todo
                      /\ worker'[w].cur = worker[w].cur /\ worker'[w].got = worker[w].got
                      /\ worker[w].pc # "dead" => worker'[w].age = worker[w].age + 1
    OBVIOUS
  <2>1. worker'[w] = IF worker[w].pc = "dead" THEN worker[w]
                     ELSE [worker[w] EXCEPT !.age = @ + 1]
    BY DEF Advance
  <2>2. worker[w] \in WorkerType
    BY <1>1
  <2> QED
    BY <2>1, <2>2 DEF WorkerType
<1>4. UNCHANGED <<issued, sentAt, attempts, delivered, excused>>
  BY DEF Advance
<1>5. worker' \in [Workers -> WorkerType] /\ lease' \in [Ids -> Int]
  <2>1. DOMAIN worker' = Workers /\ worker' = [w \in Workers |-> worker'[w]]
    BY DEF Advance
  <2>2. lease' = [s \in Ids |-> lease'[s]] /\ \A s \in Ids : lease'[s] \in Int
    BY <1>1, <1>2 DEF Advance
  <2> QED
    BY <2>1, <2>2, <1>3
<1>6. Shapes'
  BY <1>4, <1>5 DEF EmailInv, Shapes
<1>7. \A w \in Workers, k \in Claimed : Holds(w, k)' <=> Holds(w, k)
  BY <1>3 DEF Holds
<1>8. TickShape'
  <2> SUFFICES ASSUME NEW w \in Workers
               PROVE  worker[w].pc \notin {"idle", "dead"} => worker'[w].age \in 0..MaxTick
    BY <1>3 DEF EmailInv, TickShape, Busy
  <2> SUFFICES ASSUME worker[w].pc \notin {"idle", "dead"}
               PROVE  worker'[w].age \in 0..MaxTick
    OBVIOUS
  <2>1. worker[w].age \in 0..MaxTick /\ worker[w].age < MaxTick
    BY DEF EmailInv, TickShape, Busy, Advance
  <2> QED
    BY <2>1, <1>3, TimesNat
<1>9. Leased'
  <2> SUFFICES ASSUME NEW w \in Workers, NEW k \in Claimed, Holds(w, k)',
                      k.id \notin overdue'
               PROVE  /\ worker'[w].age < Ttl /\ lease'[k.id] = Ttl - worker'[w].age
                      /\ k.id \notin sentAt'
    BY Zenon DEF Leased
  <2>0. Holds(w, k) /\ k.id \notin overdue /\ ~(worker'[w].age >= Ttl)
    BY <1>7, Watched
  <2>1. /\ k.id \in Ids /\ Busy(w) /\ worker[w].age \in 0..MaxTick
        /\ lease[k.id] = Ttl - worker[w].age /\ k.id \notin sentAt /\ lease[k.id] > 0
    BY <2>0, HeldFacts
  <2>2. lease'[k.id] = lease[k.id] - 1
    BY <2>1, <1>1, <1>2, TimesNat DEF Lapsed
  <2>3. worker'[w].age = worker[w].age + 1
    BY <2>1, <1>3 DEF Busy
  <2> QED
    BY <2>0, <2>1, <2>2, <2>3, <1>4, TimesNat
<1>10. OneHolder'
  <2> SUFFICES ASSUME NEW v \in Workers, NEW w \in Workers,
                      NEW j \in Claimed, NEW k \in Claimed,
                      Holds(v, j)', Holds(w, k)', j.id = k.id, j.id \notin overdue'
               PROVE  v = w /\ j = k
    BY Zenon DEF OneHolder
  <2>1. j.id \notin overdue
    BY Watched
  <2> QED
    BY <1>7, <2>1 DEF EmailInv, OneHolder
<1>11. Messages'
  <2>1. \A s \in Ids : Unrecorded(s) => Unrecorded(s)'
    BY <1>3 DEF Unrecorded
  <2> QED
    BY <2>1, <1>4 DEF EmailInv, Messages
<1> QED
  BY <1>6, <1>7, <1>8, <1>9, <1>10, <1>11, Zenon DEF EmailInv, NothingRetaken

\* Steps that leave workers, leases and messages alone.
LEMMA RowStep ==
    ASSUME EmailInv, WatchLeases \/ UNCHANGED overdue, issued' \subseteq Ids,
           UNCHANGED <<sentAt, attempts, lease, worker, delivered, excused>>
    PROVE  EmailInv' /\ NothingRetaken
<1>1. \A v \in Workers, k \in Claimed : Holds(v, k)' <=> Holds(v, k)
  BY DEF Holds
<1>2. \A v \in Workers, k \in Claimed :
         Holds(v, k)' /\ k.id \notin overdue' => k.id \notin overdue
  BY Watched
<1>3. Leased'
  BY <1>1, <1>2 DEF EmailInv, Leased
<1>4. OneHolder'
  BY <1>1, <1>2, Zenon DEF EmailInv, OneHolder
<1>5. Shapes' /\ TickShape' /\ Messages'
  BY DEF EmailInv, Shapes, TickShape, Busy, Messages, Unrecorded
<1> QED
  BY <1>1, <1>3, <1>4, <1>5, Zenon DEF EmailInv, NothingRetaken

\* The invariant is inductive, however long a tick lasts.
LEMMA EmailStep ==
    ASSUME EmailInv, [Next]_vars
    PROVE  EmailInv' /\ NothingRetaken
<1>1. CASE Advance /\ WatchLeases
  BY <1>1, AdvanceKeeps
<1>2. ASSUME NEW s \in Ids, Issue(s) \/ MarkPaid(s), WatchLeases
      PROVE  EmailInv' /\ NothingRetaken
  BY <1>2, RowStep DEF Issue, MarkPaid, EmailInv, Shapes
<1>3. ASSUME NEW w \in Workers, Tick(w) \/ Failure(w) \/ Restart(w), WatchLeases
      PROVE  EmailInv' /\ NothingRetaken
  <2>1. CASE ClaimEmails(w)
    BY <1>3, <2>1, ClaimKeeps
  <2>2. CASE Deliver(w)
    BY <1>3, <2>2, DeliverKeeps
  <2>3. CASE RecordSent(w) \/ RecordFailed(w)
    BY <1>3, <2>3, RecordKeeps
  <2>4. CASE \/ BeginTick(w) \/ TickFails(w) \/ SendSucceeds(w) \/ SendFails(w)
             \/ RecordError(w) \/ EndTick(w) \/ Crash(w) \/ Restart(w)
             \/ \E k \in worker[w].todo : BeginSend(w, k) \/ SkipUnreadable(w, k)
    BY <1>3, <2>4, PlainSteps
  <2> QED
    BY <1>3, <2>1, <2>2, <2>3, <2>4 DEF Tick, Failure
<1>4. CASE UNCHANGED vars
  BY <1>4, RowStep DEF vars, rowVars, EmailInv, Shapes
<1> QED
  BY <1>1, <1>2, <1>3, <1>4 DEF Next

\* Two processes have the same statement in hand only when a tick has held it
\* longer than its lease (claim_emails, send_emails).
THEOREM ExclusiveSending == Spec => []OneSender
<1>1. EmailInv => OneSender
  <2> SUFFICES ASSUME EmailInv, NEW v \in Workers, NEW w \in Workers,
                      NEW s \in Ids \ overdue, s \in InHand(v), s \in InHand(w)
               PROVE  v = w
    BY DEF OneSender
  <2>1. PICK j \in Claimed : Holds(v, j) /\ j.id = s
    BY InHandIsHeld
  <2>2. PICK k \in Claimed : Holds(w, k) /\ k.id = s
    BY InHandIsHeld
  <2> QED
    BY <2>1, <2>2 DEF EmailInv, OneHolder
<1>2. EmailInv /\ [Next]_vars => EmailInv'
  BY EmailStep
<1> QED
  BY <1>1, <1>2, EmailInit, PTL DEF Spec

\* Every message beyond the first is owed to a success that was never recorded, or
\* left after the lease had been outlived.
THEOREM NoUnexplainedDuplicate == Spec => []DuplicatesExplained
<1>1. EmailInv => DuplicatesExplained
  BY DEF EmailInv, Shapes, Messages, DuplicatesExplained
<1>2. EmailInv /\ [Next]_vars => EmailInv'
  BY EmailStep
<1> QED
  BY <1>1, <1>2, EmailInit, PTL DEF Spec

\* A recorded success is final: it is not taken back, no tick takes the statement in
\* hand again, and no further message leaves but from a tick that outlived its lease.
THEOREM RecordedSuccessIsLast == Spec => RecordedIsLast
<1>1. EmailInv /\ [Next]_vars =>
         [\A s \in sentAt :
             /\ s \in sentAt'
             /\ \A w \in Workers : s \in InHand(w)' => s \in InHand(w)
             /\ delivered'[s] # delivered[s] => s \in overdue]_vars
  <2> SUFFICES ASSUME EmailInv, Next, NEW s \in sentAt
               PROVE  /\ s \in sentAt'
                      /\ \A w \in Workers : s \in InHand(w)' => s \in InHand(w)
                      /\ delivered'[s] # delivered[s] => s \in overdue
    OBVIOUS
  <2>1. s \in Ids /\ delivered \in [Ids -> Nat]
    BY DEF EmailInv, Shapes
  <2>2. EmailInv' /\ NothingRetaken
    BY EmailStep
  <2>3. ASSUME NEW w \in Workers, s \in InHand(w)'
        PROVE  s \in InHand(w)
    <3>1. PICK k \in Claimed : Holds(w, k)' /\ k.id = s
      BY <2>2, <2>3, HeldAfter
    <3>2. Holds(w, k)
      BY <2>2, <3>1 DEF NothingRetaken
    <3> QED
      BY <3>1, <3>2, HoldsIsInHand
  <2>4. s \in sentAt' /\ (delivered'[s] # delivered[s] => s \in overdue)
    <3>1. ASSUME NEW w \in Workers, Deliver(w)
          PROVE  s \in sentAt' /\ (delivered'[s] # delivered[s] => s \in overdue)
      <4>1. worker[w].cur \in Claimed /\ Holds(w, worker[w].cur)
        BY <3>1 DEF EmailInv, TickShape, Holds, InConversation, Deliver
      <4>2. worker[w].cur.id = s => s \in overdue
        BY <4>1 DEF EmailInv, Leased
      <4>3. sentAt' = sentAt /\ delivered' = [delivered EXCEPT ![worker[w].cur.id] = @ + 1]
        BY <3>1 DEF Deliver, rowVars
      <4> QED
        BY <2>1, <4>2, <4>3
    <3>2. ASSUME NEW w \in Workers,
                 \/ BeginTick(w) \/ ClaimEmails(w) \/ TickFails(w) \/ SendSucceeds(w)
                 \/ SendFails(w) \/ RecordError(w) \/ EndTick(w) \/ Crash(w) \/ Restart(w)
                 \/ \E k \in worker[w].todo : BeginSend(w, k) \/ SkipUnreadable(w, k)
                 \/ RecordSent(w) \/ RecordFailed(w)
          PROVE  s \in sentAt' /\ delivered'[s] = delivered[s]
      BY <3>2 DEF BeginTick, ClaimEmails, TickFails, SendSucceeds, SendFails, RecordError,
                  EndTick, Crash, Restart, BeginSend, SkipUnreadable, RecordSent,
                  RecordFailed, rowVars
    <3>3. ASSUME NEW t \in Ids, Issue(t) \/ MarkPaid(t)
          PROVE  s \in sentAt' /\ delivered'[s] = delivered[s]
      BY <3>3 DEF Issue, MarkPaid
    <3>4. CASE Advance
      BY <3>4 DEF Advance
    <3> QED
      BY <3>1, <3>2, <3>3, <3>4 DEF Next, Tick, Failure
  <2> QED
    BY <2>3, <2>4
<1>2. EmailInv /\ [Next]_vars => EmailInv'
  BY EmailStep
<1> QED
  BY <1>1, <1>2, EmailInit, PTL DEF Spec, RecordedIsLast
=============================================================================
