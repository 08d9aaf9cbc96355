--------------------------- MODULE MeteringProofs ---------------------------
(***************************************************************************)
(* Proofs about Metering for every finite set of requests, every set of    *)
(* instances and every queue size, batch size and retry budget.  Types     *)
(* come first; then the rollup, the lock files and the rows under what is  *)
(* served, each with an invariant of its own; then three that build on     *)
(* each other: what the channels hold (FlowInv), how far a process and its *)
(* requests are (LifeInv), and what the rows say of them (RowsInv).  From  *)
(* these follow what is acknowledged, what may be left in flight, and that *)
(* the pipeline implements UsageLedger.                                    *)
(***************************************************************************)
EXTENDS Metering, RollupProofs

-----------------------------------------------------------------------------
(* What the writes return. *)

LEMMA ApplyType ==
    ASSUME NEW d \in Database, NEW op \in Op, NEW ops, NEW i \in Instances
    PROVE  ApplyOp(d, op, ops, i) \in Database
<1>1. op.req \in Requests /\ op.rec \in RequestRecord BY DEF Op
<1>2. /\ InsertAccept(d, op.req, op.rec, i) \in Database
      /\ FinalizeRecord(d, op.req, op.rec, i) \in Database
    BY <1>1, AcceptType, FinalizeType
<1> QED BY <1>2 DEF ApplyOp

\* Rows a pass selects are in flight, so they exist.
LEMMA StrandedExist ==
    ASSUME NEW dead, NEW unknown
    PROVE  /\ Stranded(dead, unknown) \in SUBSET Requests
           /\ \A r \in Stranded(dead, unknown) : IsInFlightRow(db.rows[r])
BY DEF Stranded

-----------------------------------------------------------------------------
(* Type correctness. *)

LEMMA TypeInit == Init => TypeOK
<1> SUFFICES ASSUME Init PROVE TypeOK OBVIOUS
<1> USE DEF Init
<1>1. db \in Database
    <2>1. InitRows \in [Requests -> Row \cup {NoRow}]
        BY DEF InitRows, Row, Statuses
    <2>2. [k \in Keys |-> EmptyBucket] \in [Keys -> Bucket]
        BY DEF EmptyBucket, Bucket
    <2> QED BY <2>1, <2>2 DEF Database
<1>2. record \in [Requests -> RequestRecord]
    BY DEF FreshRecord, RequestRecord, Statuses
<1>3. pc \in [Requests -> PcStates] BY DEF PcStates, Ended
<1>4. inst \in [Instances -> InstStates] BY DEF InstStates
<1>5. attempt \in [Instances -> 0..BusyRetries] BY SizesPositive
<1>6. /\ queue \in [Instances -> Seq(Op)] /\ batch \in [Instances -> Seq(Op)]
      /\ removing \in [Instances -> SUBSET Instances]
      /\ healthy \in [Instances -> BOOLEAN]
      /\ home \in [Requests -> Instances \cup {NoOwner}]
    OBVIOUS
<1>7. faults \in 0..MaxFaults /\ crashes \in 0..MaxCrashes BY BoundsNat
<1> QED BY <1>1, <1>2, <1>3, <1>4, <1>5, <1>6, <1>7 DEF TypeOK

LEMMA TypeRecover ==
    ASSUME TypeOK, NEW i \in Instances, RecoverInFlight(i), inst' \in [Instances -> InstStates]
    PROVE  TypeOK'
<1>1. PICK unknown \in SUBSET Candidates(i) :
        /\ db' = RecoverRows(db, Stranded({j \in Candidates(i) \ unknown :
                                j \notin lockFiles \/ ~Alive(j)}, unknown))
        /\ work' = db'
        /\ registered' = registered \ {j \in Candidates(i) \ unknown :
                                j \notin lockFiles \/ ~Alive(j)}
        /\ removing' = [removing EXCEPT ![i] = {j \in Candidates(i) \ unknown :
                                j \notin lockFiles \/ ~Alive(j)}]
    BY DEF RecoverInFlight
<1>2. Candidates(i) \subseteq Instances BY DEF Candidates, TypeOK
<1>3. db' \in Database
    BY <1>1, StrandedExist, RecoverType DEF TypeOK, IsInFlightRow
<1>4. UNCHANGED <<locker, applied, lockFiles, forced, crashes, writeVars, reqVars, old>>
    BY DEF RecoverInFlight
<1> QED BY <1>1, <1>2, <1>3, <1>4 DEF TypeOK, writeVars, reqVars

LEMMA TypeAck ==
    ASSUME TypeOK, NEW i, NEW a \in PcStates, NEW f \in PcStates, Acknowledge(i, a, f)
    PROVE  (pc \in [Requests -> PcStates])'
BY DEF TypeOK, Acknowledge

LEMMA TypeFail ==
    ASSUME TypeOK, NEW i \in Instances, FailBatch(i)
    PROVE  /\ batch' \in [Instances -> Seq(Op)]
           /\ attempt' \in [Instances -> 0..BusyRetries]
           /\ healthy' \in [Instances -> BOOLEAN]
           /\ pc' \in [Requests -> PcStates]
<1>1. "refused" \in PcStates /\ "lost" \in PcStates BY DEF PcStates, Ended
<1> QED BY <1>1, TypeAck, SizesPositive DEF FailBatch, TypeOK

LEMMA TypeVanish ==
    ASSUME TypeOK, NEW i \in Instances, Vanish(i)
    PROVE  /\ pc' \in [Requests -> PcStates]
           /\ queue' \in [Instances -> Seq(Op)] /\ batch' \in [Instances -> Seq(Op)]
           /\ attempt' \in [Instances -> 0..BusyRetries]
           /\ removing' \in [Instances -> SUBSET Instances]
           /\ work' \in Database /\ locker' \in Instances \cup {Nobody}
           /\ applied' \in Nat
BY SizesPositive DEF Vanish, TypeOK, PcStates, Ended

LEMMA TypeStep == TypeOK /\ [Next]_vars => TypeOK'
<1> SUFFICES ASSUME TypeOK, [Next]_vars PROVE TypeOK' OBVIOUS
<1> USE DEF TypeOK, dbVars, procVars, writeVars, reqVars
<1>1. ASSUME NEW i \in Instances, Start(i) PROVE TypeOK'
    <2>1. CASE ClaimLock(i) BY <2>1 DEF ClaimLock, InstStates
    <2>2. CASE Register(i) BY <2>2 DEF Register, InstStates
    <2>3. CASE BootRecovery(i) BY <2>3, TypeRecover DEF BootRecovery, InstStates
    <2>4. CASE BootFails(i) BY <2>4, BoundsNat DEF BootFails, InstStates
    <2> QED BY <1>1, <2>1, <2>2, <2>3, <2>4 DEF Start
<1>2. ASSUME NEW i \in Instances, Recovery(i) PROVE TypeOK'
    <2>1. CASE Sweep(i) BY <2>1, TypeRecover DEF Sweep
    <2>2. CASE RemoveLockFiles(i) BY <2>2 DEF RemoveLockFiles
    <2> QED BY <1>2, <2>1, <2>2 DEF Recovery
<1>3. ASSUME NEW i \in Instances, Writer(i) PROVE TypeOK'
    <2>1. CASE Receive(i)
        <3>1. Head(queue[i]) \in Op /\ Tail(queue[i]) \in Seq(Op)
            BY <2>1 DEF Receive
        <3>2. Append(batch[i], Head(queue[i])) \in Seq(Op) BY <3>1
        <3> QED BY <2>1, <3>1, <3>2 DEF Receive
    <2>2. CASE BeginFlush(i) BY <2>2 DEF BeginFlush
    <2>3. CASE Execute(i)
        <3>1. batch[i] \in Seq(Op) /\ applied + 1 \in 1..Len(batch[i])
            BY <2>3 DEF Execute
        <3>2. batch[i][applied + 1] \in Op BY <3>1
        <3>3. work' \in Database BY <2>3, <3>2, ApplyType DEF Execute
        <3> QED BY <2>3, <3>3 DEF Execute
    <2>4. CASE Commit(i)
        <3>1. "accepted" \in PcStates /\ "settled" \in PcStates
            BY DEF PcStates, Live, Awaited, Ended
        <3>2. pc' \in [Requests -> PcStates] BY <2>4, <3>1, TypeAck DEF Commit
        <3> QED BY <2>4, <3>2, SizesPositive DEF Commit
    <2>5. CASE FlushBusy(i) BY <2>5, SizesPositive DEF FlushBusy
    <2>6. CASE FlushError(i)
        <3>1. FailBatch(i) BY <2>6 DEF FlushError
        <3>2. faults' \in 0..MaxFaults BY <2>6, BoundsNat DEF FlushError
        <3>3. /\ batch' \in [Instances -> Seq(Op)]
              /\ attempt' \in [Instances -> 0..BusyRetries]
              /\ healthy' \in [Instances -> BOOLEAN]
              /\ pc' \in [Requests -> PcStates]
            BY <3>1, TypeFail
        <3> QED BY <2>6, <3>1, <3>2, <3>3 DEF FlushError, FailBatch
    <2>7. CASE FlushGivesUp(i)
        <3>1. FailBatch(i) BY <2>7 DEF FlushGivesUp
        <3> QED BY <2>7, <3>1, TypeFail DEF FlushGivesUp, FailBatch
    <2> QED BY <1>3, <2>1, <2>2, <2>3, <2>4, <2>5, <2>6, <2>7 DEF Writer
<1>4. ASSUME NEW i \in Instances, Shutdown(i) PROVE TypeOK'
    <2> USE DEF Step, InstStates
    <2>1. CASE Terminate(i) BY <2>1 DEF Terminate
    <2>2. CASE EndDrain(i) BY <2>2 DEF EndDrain
    <2>3. CASE CloseChannel(i) BY <2>3 DEF CloseChannel
    <2>4. CASE WriterExits(i) BY <2>4 DEF WriterExits
    <2>5. CASE Release(i) BY <2>5 DEF Release
    <2>6. CASE Exit(i) BY <2>6, TypeVanish DEF Exit, Vanish
    <2> QED BY <1>4, <2>1, <2>2, <2>3, <2>4, <2>5, <2>6 DEF Shutdown
<1>5. ASSUME NEW i \in Instances, Crash(i) PROVE TypeOK'
    <2>1. crashes' \in 0..MaxCrashes BY <1>5, BoundsNat DEF Crash
    <2>2. inst' \in [Instances -> InstStates] BY <1>5 DEF Crash, InstStates
    <2> QED BY <1>5, <2>1, <2>2, TypeVanish DEF Crash, Vanish
<1>6. ASSUME NEW r \in Requests, Handler(r) PROVE TypeOK'
    <2> USE DEF PcStates, Live, Awaited, Detached, Ended
    <2>1. ASSUME NEW i \in Instances, Arrive(r, i) PROVE TypeOK'
        <3>1. PICK s \in BOOLEAN : record' = [record EXCEPT ![r] = FreshRecord(s)]
            BY <2>1 DEF Arrive
        <3>2. record' \in [Requests -> RequestRecord]
            BY <3>1 DEF FreshRecord, RequestRecord, Statuses
        <3> QED BY <2>1, <3>2 DEF Arrive
    <2>2. ASSUME NEW i \in Instances, NEW to \in PcStates, NEW from,
                 NEW kind \in {"accept", "finalize"}, Send(r, i, from, to, kind)
          PROVE TypeOK'
        <3>1. [kind |-> kind, req |-> r, rec |-> record[r]] \in Op BY DEF Op
        <3> QED BY <2>2, <3>1 DEF Send
    <2>3. ASSUME NEW i \in Instances, SendAccept(r, i) PROVE TypeOK'
        BY <2>2, <2>3 DEF SendAccept
    <2>4. ASSUME NEW i \in Instances, SendFinalize(r, i) PROVE TypeOK'
        BY <2>2, <2>4 DEF SendFinalize
    <2>5. CASE Forward(r) BY <2>5 DEF Forward
    <2>6. CASE ReplyWhole(r)
        <3>1. PICK status \in {"completed", "failed"}, u \in Usages \cup {Unavailable} :
                record' = [record EXCEPT ![r] = TerminalRecord(status, FALSE, u)]
            BY <2>6 DEF ReplyWhole
        <3>2. record' \in [Requests -> RequestRecord]
            BY <3>1 DEF TerminalRecord, RequestRecord, Statuses
        <3> QED BY <2>6, <3>2 DEF ReplyWhole, StartFinalize
    <2>7. CASE StartStream(r)
        <3>1. [record[r] EXCEPT !.stream = TRUE] \in RequestRecord
            BY DEF RequestRecord
        <3> QED BY <2>7, <3>1 DEF StartStream
    <2>8. CASE EndStream(r)
        <3>1. PICK status \in Terminal, u \in Usages \cup {Unavailable} :
                record' = [record EXCEPT ![r] = TerminalRecord(status, TRUE, u)]
            BY <2>8 DEF EndStream
        <3>2. record' \in [Requests -> RequestRecord]
            BY <3>1 DEF TerminalRecord, RequestRecord, Terminal
        <3> QED BY <2>8, <3>2 DEF EndStream
    <2>9. CASE DetachedFinalize(r) BY <2>9 DEF DetachedFinalize, StartFinalize
    <2>10. CASE Disconnect(r) BY <2>10 DEF Disconnect
    <2>11. CASE Age(r) BY <2>11 DEF Age
    <2> QED BY <1>6, <2>1, <2>3, <2>4, <2>5, <2>6, <2>7, <2>8, <2>9, <2>10, <2>11
            DEF Handler
<1>7. CASE UNCHANGED vars BY <1>7 DEF vars
<1> QED BY <1>1, <1>2, <1>3, <1>4, <1>5, <1>6, <1>7 DEF Next

\* Every variable keeps its type in every behaviour of the pipeline.
THEOREM TypeCorrect == Spec => []TypeOK
<1>1. Init => TypeOK BY TypeInit
<1>2. TypeOK /\ [Next]_vars => TypeOK' BY TypeStep
<1> QED BY <1>1, <1>2, PTL DEF Spec

-----------------------------------------------------------------------------
(* The rollup.  The invariant is about the committed database and the working *)
(* copy of the open transaction. *)

\* What is handed to finalize is terminal: the debug_assert of finalize() and
\* spawn_detached_finalize().
FinalizeTerminal ==
    /\ \A r \in Requests :
          pc[r] \in {"final_send", "detached", "detached_send"} =>
            record[r].status \in Terminal
    /\ \A i \in Instances :
          /\ \A k \in DOMAIN queue[i] :
                queue[i][k].kind = "finalize" => queue[i][k].rec.status \in Terminal
          /\ \A k \in DOMAIN batch[i] :
                batch[i][k].kind = "finalize" => batch[i][k].rec.status \in Terminal

\* RollupMatchesRaw is not inductive alone: the open transaction's working
\* copy becomes the database, and a finalize of a row left in flight would add to
\* a bucket without counting a row.
ExactInv == /\ TypeOK /\ Exact(db) /\ Exact(work) /\ FinalizeTerminal

LEMMA ExactInit == Init => ExactInv
<1> SUFFICES ASSUME Init PROVE ExactInv OBVIOUS
<1>1. TypeOK BY TypeInit
<1>2. Exact(db)
    <2>1. db.rows = InitRows /\ db.hourly = [k \in Keys |-> EmptyBucket] BY DEF Init
    <2>2. OpenBare(db.rows) BY <2>1 DEF OpenBare, InitRows, IsInFlightRow
    <2>3. \A r \in Requests : ~IsTerminalRow(db.rows[r])
        BY <2>1 DEF InitRows, IsTerminalRow, Terminal
    <2> QED BY <1>1, <2>1, <2>2, <2>3, EmptyExact DEF TypeOK
<1>3. Exact(work) BY <1>2 DEF Init
<1>4. FinalizeTerminal BY DEF Init, FinalizeTerminal
<1> QED BY <1>1, <1>2, <1>3, <1>4 DEF ExactInv

LEMMA ExactRecover ==
    ASSUME ExactInv, NEW i \in Instances, RecoverInFlight(i)
    PROVE  Exact(db)' /\ Exact(work)' /\ FinalizeTerminal'
<1>1. PICK dead, unknown : db' = RecoverRows(db, Stranded(dead, unknown)) /\ work' = db'
    BY DEF RecoverInFlight
<1>2. Exact(RecoverRows(db, Stranded(dead, unknown)))
    BY StrandedExist, RecoverKeepsExact DEF ExactInv, TypeOK
<1>3. Exact(db)' /\ Exact(work)' BY <1>1, <1>2
<1>4. FinalizeTerminal'
    BY DEF ExactInv, FinalizeTerminal, RecoverInFlight, writeVars, reqVars
<1> QED BY <1>3, <1>4

LEMMA TerminalAck ==
    ASSUME ExactInv, NEW i \in Instances, NEW a, NEW f, Acknowledge(i, a, f),
           a \notin {"final_send", "detached", "detached_send"},
           f \notin {"final_send", "detached", "detached_send"},
           batch' = [batch EXCEPT ![i] = <<>>], UNCHANGED <<queue, record>>
    PROVE  FinalizeTerminal'
<1> USE DEF ExactInv, FinalizeTerminal, TypeOK
<1>1. \A r \in Requests :
        pc'[r] \in {"final_send", "detached", "detached_send"} => pc'[r] = pc[r]
    BY DEF Acknowledge
<1>2. ASSUME NEW j \in Instances, NEW k \in DOMAIN batch'[j]
      PROVE  j # i /\ batch'[j] = batch[j]
    OBVIOUS
<1> QED BY <1>1, <1>2

LEMMA ExactVanish ==
    ASSUME ExactInv, NEW i \in Instances, Vanish(i)
    PROVE  Exact(db)' /\ Exact(work)' /\ FinalizeTerminal'
<1>1. db' = db /\ (work' = db \/ work' = work) BY DEF Vanish
<1>2. Exact(db)' /\ Exact(work)' BY <1>1 DEF ExactInv
<1>3. FinalizeTerminal'
    <2> USE DEF ExactInv, FinalizeTerminal, TypeOK, Vanish
    <2>1. \A r \in Requests :
            pc'[r] \in {"final_send", "detached", "detached_send"} => pc'[r] = pc[r]
        OBVIOUS
    <2>2. \A j \in Instances : /\ queue'[j] = IF j = i THEN <<>> ELSE queue[j]
                               /\ batch'[j] = IF j = i THEN <<>> ELSE batch[j]
        OBVIOUS
    <2> QED BY <2>1, <2>2
<1> QED BY <1>2, <1>3

\* A step that touches neither tables nor operations keeps the rollup exact
\* when it keeps the handlers' records terminal.
LEMMA ExactIdle ==
    ASSUME ExactInv, UNCHANGED <<dbVars, queue, batch>>,
           \A r \in Requests : pc'[r] \in {"final_send", "detached", "detached_send"} =>
                                 record'[r].status \in Terminal
    PROVE  Exact(db)' /\ Exact(work)' /\ FinalizeTerminal'
BY DEF ExactInv, dbVars, FinalizeTerminal

LEMMA ExactStep == ExactInv /\ [Next]_vars => ExactInv'
<1> SUFFICES ASSUME ExactInv, [Next]_vars PROVE ExactInv' OBVIOUS
<1> DEFINE Goal == Exact(db)' /\ Exact(work)' /\ FinalizeTerminal'
<1>0. TypeOK /\ TypeOK' BY TypeStep DEF ExactInv
<1> USE DEF dbVars, procVars, writeVars, reqVars
<1>a. \A r \in Requests : pc[r] \in {"final_send", "detached", "detached_send"} =>
                            record[r].status \in Terminal
    BY DEF ExactInv, FinalizeTerminal
<1>1. ASSUME NEW i \in Instances, Start(i) PROVE Goal
    <2>1. CASE ClaimLock(i) BY <2>1, <1>a, ExactIdle DEF ClaimLock
    <2>2. CASE Register(i) BY <2>2, <1>a, ExactIdle DEF Register
    <2>3. CASE BootRecovery(i) BY <2>3, ExactRecover DEF BootRecovery
    <2>4. CASE BootFails(i) BY <2>4, <1>a, ExactIdle DEF BootFails
    <2> QED BY <1>1, <2>1, <2>2, <2>3, <2>4 DEF Start
<1>2. ASSUME NEW i \in Instances, Recovery(i) PROVE Goal
    <2>1. CASE Sweep(i) BY <2>1, ExactRecover DEF Sweep
    <2>2. CASE RemoveLockFiles(i) BY <2>2, <1>a, ExactIdle DEF RemoveLockFiles
    <2> QED BY <1>2, <2>1, <2>2 DEF Recovery
<1>3. ASSUME NEW i \in Instances, Writer(i) PROVE Goal
    <2>1. CASE Receive(i)
        <3>1. /\ queue[i] \in Seq(Op) /\ queue[i] # <<>> /\ batch[i] \in Seq(Op)
              /\ batch' = [batch EXCEPT ![i] = Append(batch[i], Head(queue[i]))]
              /\ queue' = [queue EXCEPT ![i] = Tail(queue[i])]
              /\ UNCHANGED <<db, work, pc, record>>
            BY <2>1, <1>0 DEF Receive, TypeOK
        <3>2. \A k \in DOMAIN queue[i] :
                queue[i][k].kind = "finalize" => queue[i][k].rec.status \in Terminal
            BY DEF ExactInv, FinalizeTerminal
        <3>3. \A k \in DOMAIN batch[i] :
                batch[i][k].kind = "finalize" => batch[i][k].rec.status \in Terminal
            BY DEF ExactInv, FinalizeTerminal
        <3>4. \A k \in DOMAIN Tail(queue[i]) : k + 1 \in DOMAIN queue[i]
                                           /\ Tail(queue[i])[k] = queue[i][k + 1]
            BY <3>1
        <3>5. 1 \in DOMAIN queue[i] /\ Head(queue[i]) = queue[i][1] BY <3>1
        <3>6. \A k \in DOMAIN Append(batch[i], Head(queue[i])) :
                \/ k \in DOMAIN batch[i] /\ Append(batch[i], Head(queue[i]))[k] = batch[i][k]
                \/ Append(batch[i], Head(queue[i]))[k] = Head(queue[i])
            BY <3>1, <3>5
        <3>7. \A j \in Instances :
                /\ queue'[j] = IF j = i THEN Tail(queue[i]) ELSE queue[j]
                /\ batch'[j] = IF j = i THEN Append(batch[i], Head(queue[i])) ELSE batch[j]
            BY <3>1, <1>0 DEF TypeOK
        <3>8. FinalizeTerminal'
            BY <3>1, <3>2, <3>3, <3>4, <3>5, <3>6, <3>7 DEF ExactInv, FinalizeTerminal
        <3> QED BY <3>1, <3>8 DEF ExactInv
    <2>2. CASE BeginFlush(i) BY <2>2 DEF BeginFlush, ExactInv, FinalizeTerminal
    <2>3. CASE Execute(i)
        <3> DEFINE op == batch[i][applied + 1]
        <3>1. applied + 1 \in DOMAIN batch[i] /\ op \in Op
            BY <2>3, <1>0 DEF Execute, TypeOK
        <3>2. /\ op.req \in Requests /\ op.rec \in RequestRecord
              /\ op.kind \in {"accept", "finalize"}
            BY <3>1 DEF Op
        <3>3. op.kind = "finalize" => op.rec.status \in Terminal
            BY <3>1 DEF ExactInv, FinalizeTerminal
        <3>4. work' = ApplyOp(work, op, batch[i], i) BY <2>3 DEF Execute
        <3> HIDE DEF op
        <3>5. Exact(ApplyOp(work, op, batch[i], i))
            BY <3>2, <3>3, <1>0, AcceptKeepsExact, FinalizeKeepsExact
               DEF ApplyOp, ExactInv, TypeOK
        <3>6. Exact(work)' BY <3>4, <3>5
        <3> QED BY <2>3, <3>6 DEF Execute, ExactInv, FinalizeTerminal
    <2>4. CASE Commit(i)
        <3>1. FinalizeTerminal' BY <2>4, TerminalAck DEF Commit
        <3> QED BY <2>4, <3>1 DEF Commit, ExactInv
    <2>5. CASE FlushBusy(i) BY <2>5, <1>a, ExactIdle DEF FlushBusy
    <2>6. CASE FlushError(i)
        <3>1. FinalizeTerminal' BY <2>6, TerminalAck DEF FlushError, FailBatch
        <3> QED BY <2>6, <3>1 DEF FlushError, ExactInv
    <2>7. CASE FlushGivesUp(i)
        <3>1. FinalizeTerminal' BY <2>7, TerminalAck DEF FlushGivesUp, FailBatch
        <3> QED BY <2>7, <3>1 DEF FlushGivesUp, ExactInv
    <2> QED BY <1>3, <2>1, <2>2, <2>3, <2>4, <2>5, <2>6, <2>7 DEF Writer
<1>4. ASSUME NEW i \in Instances, Shutdown(i) PROVE Goal
    <2>1. CASE Terminate(i) BY <2>1, <1>a, ExactIdle DEF Terminate
    <2>2. CASE EndDrain(i) BY <2>2, <1>a, ExactIdle DEF EndDrain
    <2>3. CASE CloseChannel(i) BY <2>3, <1>a, ExactIdle DEF CloseChannel
    <2>4. CASE WriterExits(i) BY <2>4, <1>a, ExactIdle DEF WriterExits
    <2>5. CASE Release(i) BY <2>5, <1>a, ExactIdle DEF Release
    <2>6. CASE Exit(i) BY <2>6, ExactVanish DEF Exit
    <2> QED BY <1>4, <2>1, <2>2, <2>3, <2>4, <2>5, <2>6 DEF Shutdown
<1>5. ASSUME NEW i \in Instances, Crash(i) PROVE Goal
    BY <1>5, ExactVanish DEF Crash
<1>6. ASSUME NEW r \in Requests, Handler(r) PROVE Goal
    <2>1. ASSUME NEW i \in Instances, Arrive(r, i) PROVE Goal
        BY <2>1, <1>0, <1>a, ExactIdle DEF Arrive, TypeOK
    <2>2. ASSUME NEW i \in Instances, NEW from, NEW to, NEW kind, Send(r, i, from, to, kind),
                 to \notin {"final_send", "detached", "detached_send"},
                 kind = "finalize" => from \in {"final_send", "detached_send"}
          PROVE Goal
        <3> DEFINE op == [kind |-> kind, req |-> r, rec |-> record[r]]
        <3>1. /\ queue[i] \in Seq(Op)
              /\ queue' = [queue EXCEPT ![i] = Append(queue[i], op)]
              /\ pc' = [pc EXCEPT ![r] = to] /\ pc[r] = from
              /\ UNCHANGED <<db, work, batch, record>>
            BY <2>2, <1>0 DEF Send, TypeOK
        <3>2. op.kind = "finalize" => op.rec.status \in Terminal
            BY <2>2, <3>1, <1>a
        <3> HIDE DEF op
        <3>3. \A k \in DOMAIN Append(queue[i], op) :
                \/ k \in DOMAIN queue[i] /\ Append(queue[i], op)[k] = queue[i][k]
                \/ Append(queue[i], op)[k] = op
            BY <3>1
        <3>4. \A j \in Instances :
                queue'[j] = IF j = i THEN Append(queue[i], op) ELSE queue[j]
            BY <3>1, <1>0 DEF TypeOK
        <3>5. \A q \in Requests : pc'[q] = IF q = r THEN to ELSE pc[q]
            BY <3>1, <1>0 DEF TypeOK
        <3>6. FinalizeTerminal'
            BY <2>2, <3>1, <3>2, <3>3, <3>4, <3>5 DEF ExactInv, FinalizeTerminal
        <3> QED BY <3>1, <3>6 DEF ExactInv
    <2>3. ASSUME NEW i \in Instances, SendAccept(r, i) PROVE Goal
        BY <2>2, <2>3 DEF SendAccept
    <2>4. ASSUME NEW i \in Instances, SendFinalize(r, i) PROVE Goal
        BY <2>2, <2>4 DEF SendFinalize
    <2>5. CASE Forward(r) BY <2>5, <1>0, <1>a, ExactIdle DEF Forward, TypeOK
    <2>6. CASE ReplyWhole(r)
        <3>1. PICK status \in {"completed", "failed"}, u \in Usages \cup {Unavailable} :
                record' = [record EXCEPT ![r] = TerminalRecord(status, FALSE, u)]
            BY <2>6 DEF ReplyWhole
        <3>2. record'[r].status \in Terminal
            BY <3>1, <1>0 DEF TerminalRecord, Terminal, Statuses, TypeOK
        <3>3. \A q \in Requests \ {r} : record'[q] = record[q] /\ pc'[q] = pc[q]
            BY <2>6, <3>1, <1>0 DEF ReplyWhole, StartFinalize, TypeOK
        <3> QED BY <2>6, <1>a, <3>2, <3>3, ExactIdle DEF ReplyWhole
    <2>7. CASE StartStream(r) BY <2>7, <1>0, <1>a, ExactIdle DEF StartStream, TypeOK
    <2>8. CASE EndStream(r)
        <3>1. PICK status \in Terminal, u \in Usages \cup {Unavailable} :
                record' = [record EXCEPT ![r] = TerminalRecord(status, TRUE, u)]
            BY <2>8 DEF EndStream
        <3>2. record'[r].status \in Terminal
            BY <3>1, <1>0 DEF TerminalRecord, TypeOK
        <3>3. \A q \in Requests \ {r} : record'[q] = record[q] /\ pc'[q] = pc[q]
            BY <2>8, <3>1, <1>0 DEF EndStream, TypeOK
        <3> QED BY <2>8, <1>a, <3>2, <3>3, ExactIdle DEF EndStream
    <2>9. CASE DetachedFinalize(r)
        BY <2>9, <1>0, <1>a, ExactIdle DEF DetachedFinalize, StartFinalize, TypeOK
    <2>10. CASE Disconnect(r) BY <2>10, <1>0, <1>a, ExactIdle DEF Disconnect, TypeOK
    <2>11. CASE Age(r) BY <2>11, <1>a, ExactIdle DEF Age
    <2> QED BY <1>6, <2>1, <2>3, <2>4, <2>5, <2>6, <2>7, <2>8, <2>9, <2>10, <2>11
            DEF Handler
<1>7. ASSUME UNCHANGED vars PROVE Goal BY <1>7, <1>a, ExactIdle DEF vars
<1> HIDE DEF Goal
<1>8. Goal BY <1>1, <1>2, <1>3, <1>4, <1>5, <1>6, <1>7 DEF Next
<1> QED BY <1>0, <1>8 DEF ExactInv, Goal

\* In every behaviour the hourly rollup is what recomputing it from the raw rows
\* gives, counts and tokens: accepts, finalizes, corrections of rows a recovery had
\* given up, recoveries, rollbacks and crashes included.
THEOREM RollupExact == Spec => []RollupMatchesRaw
<1>1. Init => ExactInv BY ExactInit
<1>2. ExactInv /\ [Next]_vars => ExactInv' BY ExactStep
<1>3. ExactInv => RollupMatchesRaw
    BY AllExact DEF ExactInv, Exact, TypeOK, RollupMatchesRaw
<1> QED BY <1>1, <1>2, <1>3, PTL DEF Spec

-----------------------------------------------------------------------------
(* Lock files.  A probe that finds no lock file calls its owner dead, so the   *)
(* file of a running process must never be removed by a peer.                 *)

HasOwner(d, j) == \E r \in Requests : d.rows[r] # NoRow /\ d.rows[r].owner = j

\* A process that left any trace has started, and a process whose file is about
\* to be removed has ended; identifiers are never reused, so it stays ended.
LockInv ==
    /\ TypeOK
    /\ RunningKeepsLockFile
    /\ \A i \in Instances : \A j \in removing[i] : ~Alive(j) /\ inst[j] # "unborn"
    /\ \A j \in Instances :
          (j \in registered \/ HasOwner(db, j) \/ HasOwner(work, j) \/ locker = j)
            => inst[j] # "unborn"

\* A write gives a row no owner but the writer's own instance.
LEMMA ApplyOwner ==
    ASSUME NEW d \in Database, NEW op \in Op, NEW ops, NEW i \in Instances,
           NEW j, HasOwner(ApplyOp(d, op, ops, i), j)
    PROVE  HasOwner(d, j) \/ j = i
<1>1. op.req \in Requests /\ op.rec \in RequestRecord BY DEF Op
<1>2. d.rows \in [Requests -> Row \cup {NoRow}] BY DEF Database
<1>3. CASE ApplyOp(d, op, ops, i) = d BY <1>3
<1>4. CASE ApplyOp(d, op, ops, i) = InsertAccept(d, op.req, op.rec, i)
    BY <1>1, <1>2, <1>4 DEF InsertAccept, HasOwner, Database
<1>5. CASE ApplyOp(d, op, ops, i) = FinalizeRecord(d, op.req, op.rec, i)
    <2>1. ApplyOp(d, op, ops, i).rows =
            [d.rows EXCEPT ![op.req] = FinalizedRow(d.rows[op.req], op.rec, i)]
        BY <1>5 DEF FinalizeRecord
    <2>2. FinalizedRow(d.rows[op.req], op.rec, i).owner =
            IF d.rows[op.req] = NoRow THEN i ELSE d.rows[op.req].owner
        BY DEF FinalizedRow
    <2> QED BY <1>1, <1>2, <2>1, <2>2 DEF HasOwner
<1> QED BY <1>3, <1>4, <1>5 DEF ApplyOp

\* Recovery leaves owners and the existence of rows alone.
LEMMA RecoverOwner ==
    ASSUME NEW d \in Database, NEW S \in SUBSET Requests,
           \A r \in S : IsInFlightRow(d.rows[r])
    PROVE  \A r \in Requests :
              LET new == RecoverRows(d, S).rows[r]
              IN /\ new = NoRow <=> d.rows[r] = NoRow
                 /\ new # NoRow => new.owner = d.rows[r].owner
<1> SUFFICES ASSUME NEW r \in Requests
             PROVE /\ RecoverRows(d, S).rows[r] = NoRow <=> d.rows[r] = NoRow
                   /\ RecoverRows(d, S).rows[r] # NoRow =>
                        RecoverRows(d, S).rows[r].owner = d.rows[r].owner
    OBVIOUS
<1>1. CASE r \in S
    <2>1. d.rows[r] \in Row BY <1>1 DEF IsInFlightRow, Database
    <2>2. RecoverRows(d, S).rows[r] = [d.rows[r] EXCEPT !.status = "interrupted"]
        BY <1>1 DEF RecoverRows
    <2>3. RecoverRows(d, S).rows[r] \in Row
        BY <2>1, <2>2 DEF Row, Statuses
    <2>4. RecoverRows(d, S).rows[r].owner = d.rows[r].owner
        BY <2>1, <2>2 DEF Row
    <2> QED BY <2>1, <2>3, <2>4, NoRowFresh
<1>2. CASE r \notin S
    <2>1. RecoverRows(d, S).rows[r] = d.rows[r] BY <1>2 DEF RecoverRows
    <2> QED BY <2>1
<1> QED BY <1>1, <1>2

LEMMA LockInit == Init => LockInv
<1> SUFFICES ASSUME Init PROVE LockInv OBVIOUS
<1>1. TypeOK BY TypeInit
<1>2. \A j \in Instances : ~HasOwner(db, j) /\ ~HasOwner(work, j)
    BY OwnersDistinct DEF Init, InitRows, HasOwner
<1> QED BY <1>1, <1>2, NobodyFresh DEF Init, LockInv, RunningKeepsLockFile, Alive

LEMMA LockRecover ==
    ASSUME LockInv, NEW i \in Instances, RecoverInFlight(i), TypeOK',
           \A j \in Instances : inst[j] = "unborn" <=> inst'[j] = "unborn",
           \A j \in Instances : Alive(j) <=> Alive(j)'
    PROVE  LockInv'
<1> DEFINE Dead(unknown) == {j \in Candidates(i) \ unknown : j \notin lockFiles \/ ~Alive(j)}
<1>1. PICK unknown \in SUBSET Candidates(i) :
        /\ db' = RecoverRows(db, Stranded(Dead(unknown), unknown)) /\ work' = db'
        /\ registered' = registered \ Dead(unknown)
        /\ removing' = [removing EXCEPT ![i] = Dead(unknown)]
        /\ UNCHANGED <<locker, lockFiles>>
    BY DEF RecoverInFlight
<1>2. Candidates(i) \subseteq Instances BY DEF Candidates, LockInv, TypeOK
<1>3. \A j \in Instances : HasOwner(db, j)' => HasOwner(db, j)
    <2> DEFINE S == Stranded(Dead(unknown), unknown)
    <2>1. S \in SUBSET Requests /\ \A r \in S : IsInFlightRow(db.rows[r])
        BY DEF Stranded
    <2>2. \A r \in Requests :
            /\ RecoverRows(db, S).rows[r] = NoRow <=> db.rows[r] = NoRow
            /\ RecoverRows(db, S).rows[r] # NoRow =>
                 RecoverRows(db, S).rows[r].owner = db.rows[r].owner
        <3> HIDE DEF S
        <3> QED BY <2>1, RecoverOwner DEF LockInv, TypeOK
    <2>3. db' = RecoverRows(db, S) BY <1>1
    <2> HIDE DEF S, Dead
    <2> QED BY <2>2, <2>3 DEF HasOwner
<1>4. \A j \in Dead(unknown) : j \in Instances /\ ~Alive(j) /\ inst[j] # "unborn"
    BY <1>2 DEF Candidates, LockInv, RunningKeepsLockFile, HasOwner, IsInFlightRow
<1>5. \A j \in Instances : \A m \in removing'[j] :
        m \in Instances /\ ~Alive(m) /\ inst[m] # "unborn"
    BY <1>1, <1>4 DEF LockInv, TypeOK
<1>6. \A j \in Instances : HasOwner(work, j)' => HasOwner(db, j)
    BY <1>1, <1>3 DEF HasOwner
<1>7. RunningKeepsLockFile' BY <1>1 DEF LockInv, RunningKeepsLockFile
<1> HIDE DEF Dead
<1> QED BY <1>1, <1>3, <1>5, <1>6, <1>7 DEF LockInv

LEMMA LockVanish ==
    ASSUME LockInv, NEW i \in Instances, Vanish(i), TypeOK', NEW s \in {"exited", "crashed"},
           inst' = [inst EXCEPT ![i] = s],
           lockFiles' \in {lockFiles, lockFiles \ {i}}
    PROVE  LockInv'
<1> USE DEF LockInv, TypeOK
<1>1. /\ db' = db /\ registered' = registered
      /\ work' \in {db, work} /\ (locker' = locker \/ locker' = Nobody)
      /\ removing' = [removing EXCEPT ![i] = {}]
    BY DEF Vanish
<1>2. \A j \in Instances : inst'[j] = IF j = i THEN s ELSE inst[j] OBVIOUS
<1>3. \A j \in Instances : Alive(j)' => Alive(j) /\ j # i BY <1>2 DEF Alive
<1>4. \A j \in Instances : inst'[j] = "unborn" => inst[j] = "unborn" BY <1>2
<1>5. \A j \in Instances : HasOwner(work, j)' => HasOwner(work, j) \/ HasOwner(db, j)
    BY <1>1 DEF HasOwner
<1>6. \A j \in Instances : HasOwner(db, j)' => HasOwner(db, j) BY <1>1 DEF HasOwner
<1>7. RunningKeepsLockFile' BY <1>3 DEF RunningKeepsLockFile
<1>8. \A j \in Instances : \A m \in removing'[j] : m \in removing[j] /\ m \in Instances
    BY <1>1
<1>9. \A j \in Instances : \A m \in removing'[j] : ~Alive(m)' /\ inst'[m] # "unborn"
    BY <1>3, <1>4, <1>8
<1>10. \A j \in Instances :
         (j \in registered' \/ HasOwner(db, j)' \/ HasOwner(work, j)' \/ locker' = j)
           => inst'[j] # "unborn"
    <2> HIDE DEF TypeOK
    <2> QED BY <1>1, <1>4, <1>5, <1>6, NobodyFresh
<1> HIDE DEF TypeOK
<1> QED BY <1>7, <1>9, <1>10

\* A step that leaves files, registrations, rows and the lock alone, and whose
\* process changes start nobody anew and end nobody.
LEMMA LockIdle ==
    ASSUME LockInv, TypeOK', UNCHANGED <<db, work, locker, lockFiles, registered, removing>>,
           \A j \in Instances : /\ inst'[j] = "unborn" => inst[j] = "unborn"
                                /\ Alive(j) <=> Alive(j)'
    PROVE  LockInv'
<1>1. \A j \in Instances : /\ HasOwner(db, j)' <=> HasOwner(db, j)
                           /\ HasOwner(work, j)' <=> HasOwner(work, j)
    BY DEF HasOwner
<1>2. \A i \in Instances : \A j \in removing[i] : j \in Instances BY DEF LockInv, TypeOK
<1>3. RunningKeepsLockFile' BY DEF LockInv, RunningKeepsLockFile
<1>4. \A i \in Instances : \A j \in removing'[i] : ~Alive(j)' /\ inst'[j] # "unborn"
    <2> SUFFICES ASSUME NEW i \in Instances, NEW j \in removing'[i]
                 PROVE ~Alive(j)' /\ inst'[j] # "unborn"
        OBVIOUS
    <2>1. j \in Instances /\ j \in removing[i] BY <1>2
    <2>2. ~Alive(j) /\ inst[j] # "unborn" BY <2>1 DEF LockInv
    <2> QED BY <2>1, <2>2
<1>5. \A j \in Instances :
        (j \in registered' \/ HasOwner(db, j)' \/ HasOwner(work, j)' \/ locker' = j)
          => inst'[j] # "unborn"
    BY <1>1 DEF LockInv
<1> QED BY <1>3, <1>4, <1>5 DEF LockInv

LEMMA LockStep == LockInv /\ [Next]_vars => LockInv'
<1> SUFFICES ASSUME LockInv, [Next]_vars PROVE LockInv' OBVIOUS
<1>0. TypeOK /\ TypeOK' BY TypeStep DEF LockInv
<1> USE DEF dbVars, procVars, writeVars, reqVars
<1>1. ASSUME NEW i \in Instances, Start(i) PROVE LockInv'
    <2>1. CASE ClaimLock(i)
        <3>1. \A j \in Instances : inst'[j] = IF j = i THEN "claimed" ELSE inst[j]
            BY <2>1, <1>0 DEF ClaimLock, TypeOK
        <3>2. \A j \in Instances : Alive(j)' <=> (Alive(j) \/ j = i)
            BY <3>1 DEF Alive
        <3>3. \A k \in Instances : i \notin removing[k] BY <2>1 DEF ClaimLock, LockInv
        <3>4. UNCHANGED <<db, work, locker, registered, removing>>
              /\ lockFiles' = lockFiles \cup {i}
            BY <2>1 DEF ClaimLock
        <3>5. RunningKeepsLockFile' BY <3>2, <3>4 DEF LockInv, RunningKeepsLockFile
        <3>6. \A j \in Instances : /\ HasOwner(db, j)' <=> HasOwner(db, j)
                                   /\ HasOwner(work, j)' <=> HasOwner(work, j)
            BY <3>4 DEF HasOwner
        <3>7. \A k \in Instances : \A j \in removing'[k] :
                ~Alive(j)' /\ inst'[j] # "unborn"
            <4> SUFFICES ASSUME NEW k \in Instances, NEW j \in removing'[k]
                         PROVE ~Alive(j)' /\ inst'[j] # "unborn"
                OBVIOUS
            <4>1. j \in removing[k] BY <3>4
            <4>2. j \in Instances BY <4>1, <1>0 DEF TypeOK
            <4>3. ~Alive(j) /\ inst[j] # "unborn" BY <4>1 DEF LockInv
            <4> QED BY <3>1, <3>2, <3>3, <4>1, <4>2, <4>3
        <3>8. \A j \in Instances : inst'[j] = "unborn" => inst[j] = "unborn" BY <3>1
        <3> QED BY <1>0, <3>4, <3>5, <3>6, <3>7, <3>8 DEF LockInv
    <2>2. CASE Register(i)
        <3>1. \A j \in Instances : inst'[j] = IF j = i THEN "registered" ELSE inst[j]
            BY <2>2, <1>0 DEF Register, TypeOK
        <3>2. \A j \in Instances : Alive(j)' <=> Alive(j)
            BY <2>2, <3>1 DEF Alive, Register
        <3>3. UNCHANGED <<db, work, locker, lockFiles, removing>>
              /\ registered' = registered \cup {i}
            BY <2>2 DEF Register
        <3>4. \A j \in Instances : /\ HasOwner(db, j)' <=> HasOwner(db, j)
                                   /\ HasOwner(work, j)' <=> HasOwner(work, j)
            BY <3>3 DEF HasOwner
        <3>5. \A j \in Instances : inst'[j] = "unborn" => inst[j] = "unborn" BY <3>1
        <3>6. \A k \in Instances : \A j \in removing'[k] : j \in Instances
            BY <3>3, <1>0 DEF TypeOK
        <3> QED BY <1>0, <3>1, <3>2, <3>3, <3>4, <3>5, <3>6
                DEF LockInv, RunningKeepsLockFile
    <2>3. CASE BootRecovery(i)
        <3>1. \A j \in Instances : inst'[j] = IF j = i THEN "up" ELSE inst[j]
            BY <2>3, <1>0 DEF BootRecovery, TypeOK
        <3>2. inst[i] = "registered" BY <2>3 DEF BootRecovery
        <3> QED BY <1>0, <2>3, <3>1, <3>2, LockRecover DEF BootRecovery, Alive
    <2>4. CASE BootFails(i)
        <3>1. \A j \in Instances : inst'[j] = IF j = i THEN "exited" ELSE inst[j]
            BY <2>4, <1>0 DEF BootFails, TypeOK
        <3>2. \A j \in Instances : Alive(j)' => Alive(j) /\ j # i
            BY <3>1 DEF Alive
        <3>3. UNCHANGED <<db, work, locker, registered, removing>>
              /\ lockFiles' = lockFiles \ {i}
            BY <2>4 DEF BootFails
        <3>4. \A j \in Instances : /\ HasOwner(db, j)' <=> HasOwner(db, j)
                                   /\ HasOwner(work, j)' <=> HasOwner(work, j)
            BY <3>3 DEF HasOwner
        <3>5. \A j \in Instances : inst'[j] = "unborn" => inst[j] = "unborn" BY <3>1
        <3>6. \A k \in Instances : \A j \in removing'[k] : j \in Instances
            BY <3>3, <1>0 DEF TypeOK
        <3> QED BY <1>0, <3>2, <3>3, <3>4, <3>5, <3>6 DEF LockInv, RunningKeepsLockFile
    <2> QED BY <1>1, <2>1, <2>2, <2>3, <2>4 DEF Start
<1>2. ASSUME NEW i \in Instances, Recovery(i) PROVE LockInv'
    <2>1. CASE Sweep(i) BY <1>0, <2>1, LockRecover DEF Sweep, Alive
    <2>2. CASE RemoveLockFiles(i)
        <3>1. PICK failed \in SUBSET removing[i] :
                lockFiles' = lockFiles \ (removing[i] \ failed)
            BY <2>2 DEF RemoveLockFiles
        <3>2. UNCHANGED <<db, work, locker, registered, inst>>
              /\ removing' = [removing EXCEPT ![i] = {}]
            BY <2>2 DEF RemoveLockFiles
        <3>3. RunningKeepsLockFile' BY <3>1, <3>2 DEF LockInv, RunningKeepsLockFile, Alive
        <3>4. \A k \in Instances : removing'[k] \subseteq removing[k]
            BY <3>2, <1>0 DEF TypeOK
        <3>5. \A j \in Instances : /\ HasOwner(db, j)' <=> HasOwner(db, j)
                                   /\ HasOwner(work, j)' <=> HasOwner(work, j)
            BY <3>2 DEF HasOwner
        <3> QED BY <1>0, <3>2, <3>3, <3>4, <3>5 DEF LockInv, Alive
    <2> QED BY <1>2, <2>1, <2>2 DEF Recovery
<1>b. inst' = inst => \A j \in Instances : /\ inst'[j] = "unborn" => inst[j] = "unborn"
                                          /\ Alive(j) <=> Alive(j)'
    BY DEF Alive
<1>3. ASSUME NEW i \in Instances, Writer(i) PROVE LockInv'
    <2>1. CASE Receive(i) BY <1>0, <1>b, <2>1, LockIdle DEF Receive
    <2>2. CASE BeginFlush(i)
        <3>1. \A j \in Instances : (HasOwner(db, j)' \/ HasOwner(work, j)') => HasOwner(db, j)
            BY <2>2 DEF BeginFlush, HasOwner
        <3>2. inst[i] # "unborn" BY <2>2 DEF BeginFlush, Serving
        <3>3. /\ UNCHANGED <<registered, lockFiles, inst, removing>>
              /\ locker' = i
            BY <2>2 DEF BeginFlush
        <3> QED BY <1>0, <3>1, <3>2, <3>3 DEF LockInv, RunningKeepsLockFile, Alive
    <2>3. CASE Execute(i)
        <3>1. batch[i][applied + 1] \in Op BY <2>3, <1>0 DEF Execute, TypeOK
        <3>2. \A j \in Instances : HasOwner(work, j)' => HasOwner(work, j) \/ j = i
            <4> DEFINE new == ApplyOp(work, batch[i][applied + 1], batch[i], i)
            <4>1. \A j \in Instances : HasOwner(new, j) => HasOwner(work, j) \/ j = i
                <5>1. work \in Database BY <1>0 DEF TypeOK
                <5> QED BY <3>1, <5>1, ApplyOwner
            <4>2. work' = new BY <2>3 DEF Execute
            <4> HIDE DEF new
            <4> QED BY <4>1, <4>2 DEF HasOwner
        <3>3. \A j \in Instances : HasOwner(db, j)' <=> HasOwner(db, j)
            BY <2>3 DEF Execute, HasOwner
        <3>4. /\ UNCHANGED <<registered, lockFiles, inst, removing, locker>>
              /\ locker = i
            BY <2>3 DEF Execute
        <3> QED BY <1>0, <3>2, <3>3, <3>4 DEF LockInv, RunningKeepsLockFile, Alive
    <2>4. CASE Commit(i)
        <3>1. \A j \in Instances : (HasOwner(db, j)' \/ HasOwner(work, j)') => HasOwner(work, j)
            BY <2>4 DEF Commit, HasOwner
        <3>2. /\ UNCHANGED <<registered, lockFiles, inst, removing>>
              /\ locker' = Nobody
            BY <2>4 DEF Commit
        <3> QED BY <1>0, <3>1, <3>2, NobodyFresh DEF LockInv, RunningKeepsLockFile, Alive
    <2>5. CASE FlushBusy(i) BY <1>0, <1>b, <2>5, LockIdle DEF FlushBusy
    <2>6. CASE FlushError(i)
        <3>1. \A j \in Instances : (HasOwner(db, j)' \/ HasOwner(work, j)') => HasOwner(db, j)
            BY <2>6 DEF FlushError, HasOwner
        <3>2. /\ UNCHANGED <<registered, lockFiles, inst, removing>>
              /\ locker' = Nobody
            BY <2>6 DEF FlushError, FailBatch
        <3> QED BY <1>0, <3>1, <3>2, NobodyFresh DEF LockInv, RunningKeepsLockFile, Alive
    <2>7. CASE FlushGivesUp(i)
        BY <1>0, <1>b, <2>7, LockIdle DEF FlushGivesUp, FailBatch
    <2> QED BY <1>3, <2>1, <2>2, <2>3, <2>4, <2>5, <2>6, <2>7 DEF Writer
<1>4. ASSUME NEW i \in Instances, Shutdown(i) PROVE LockInv'
    <2>0. ASSUME NEW from \in {"up", "draining", "flushing", "closing", "stopped"},
                 NEW to \in {"draining", "flushing", "closing", "stopped", "released"},
                 Step(i, from, to)
          PROVE \A j \in Instances : /\ inst'[j] = "unborn" => inst[j] = "unborn"
                                     /\ Alive(j) <=> Alive(j)'
        <3>1. \A j \in Instances : inst'[j] = IF j = i THEN to ELSE inst[j]
            BY <2>0, <1>0 DEF Step, TypeOK
        <3> QED BY <2>0, <3>1 DEF Step, Alive
    <2>1. CASE Terminate(i) BY <1>0, <2>0, <2>1, LockIdle DEF Terminate
    <2>2. CASE EndDrain(i) BY <1>0, <2>0, <2>2, LockIdle DEF EndDrain
    <2>3. CASE CloseChannel(i) BY <1>0, <2>0, <2>3, LockIdle DEF CloseChannel
    <2>4. CASE WriterExits(i) BY <1>0, <2>0, <2>4, LockIdle DEF WriterExits
    <2>5. CASE Release(i)
        <3>1. \A j \in Instances : /\ inst'[j] = "unborn" => inst[j] = "unborn"
                                   /\ Alive(j) <=> Alive(j)'
            BY <2>0, <2>5 DEF Release
        <3>2. /\ UNCHANGED <<db, work, locker, lockFiles, removing>>
              /\ registered' \subseteq registered
            BY <2>5 DEF Release
        <3>3. \A j \in Instances : /\ HasOwner(db, j)' <=> HasOwner(db, j)
                                   /\ HasOwner(work, j)' <=> HasOwner(work, j)
            BY <3>2 DEF HasOwner
        <3>4. \A k \in Instances : \A j \in removing[k] : j \in Instances
            BY <1>0 DEF TypeOK
        <3> QED BY <1>0, <3>1, <3>2, <3>3, <3>4 DEF LockInv, RunningKeepsLockFile
    <2>6. CASE Exit(i) BY <1>0, <2>6, LockVanish DEF Exit, Step
    <2> QED BY <1>4, <2>1, <2>2, <2>3, <2>4, <2>5, <2>6 DEF Shutdown
<1>5. ASSUME NEW i \in Instances, Crash(i) PROVE LockInv'
    BY <1>0, <1>5, LockVanish DEF Crash
<1>6. ASSUME NEW r \in Requests, Handler(r) PROVE LockInv'
    <2>1. UNCHANGED <<db, work, locker, lockFiles, registered, removing, inst>>
        BY <1>6 DEF Handler, Arrive, SendAccept, SendFinalize, Send, Forward, ReplyWhole,
                    StartStream, EndStream, DetachedFinalize, Disconnect, Age
    <2> QED BY <1>0, <1>b, <2>1, LockIdle
<1>7. ASSUME UNCHANGED vars PROVE LockInv' BY <1>0, <1>b, <1>7, LockIdle DEF vars
<1> QED BY <1>1, <1>2, <1>3, <1>4, <1>5, <1>6, <1>7 DEF Next

\* No peer's recovery or cleanup ever removes the lock file of a running process,
\* so a conclusive probe never finds a running process dead.
THEOREM LockFileOfRunningKept == Spec => []RunningKeepsLockFile
<1>1. Init => LockInv BY LockInit
<1>2. LockInv /\ [Next]_vars => LockInv' BY LockStep
<1>3. LockInv => RunningKeepsLockFile BY DEF LockInv
<1> QED BY <1>1, <1>2, <1>3, PTL DEF Spec

-----------------------------------------------------------------------------
(* No request is served unmetered.  The accept a handler waits for is durable *)
(* when it is acknowledged, so a request that is forwarded has a row.         *)

\* What the open transaction has executed so far of the batch is in its rows; an
\* accept may have been left to the finalize that supersedes it.
Executed(w, ops, n) ==
    \A k \in 1..n : Superseded(ops[k], ops) \/ w.rows[ops[k].req] # NoRow

MeteredInv ==
    /\ TypeOK
    /\ NeverServedUnmetered
    /\ \A r \in Requests : pc[r] = "accepted" => db.rows[r] # NoRow
    /\ \A r \in Requests : db.rows[r] # NoRow => work.rows[r] # NoRow
    /\ locker # Nobody => /\ applied <= Len(batch[locker])
                          /\ Executed(work, batch[locker], applied)

\* A write deletes no row, and leaves one for the request it is about.
LEMMA ApplyKeeps ==
    ASSUME NEW d \in Database, NEW op \in Op, NEW ops, NEW i \in Instances
    PROVE  /\ \A r \in Requests : d.rows[r] # NoRow => ApplyOp(d, op, ops, i).rows[r] # NoRow
           /\ Superseded(op, ops) \/ ApplyOp(d, op, ops, i).rows[op.req] # NoRow
<1>1. op.req \in Requests /\ op.rec \in RequestRecord BY DEF Op
<1>2. d.rows \in [Requests -> Row \cup {NoRow}] BY DEF Database
<1>3. CASE Superseded(op, ops)
    <2>1. ApplyOp(d, op, ops, i) = d BY <1>3 DEF ApplyOp
    <2> QED BY <1>3, <2>1
<1>4. CASE ApplyOp(d, op, ops, i) = InsertAccept(d, op.req, op.rec, i)
    <2>1. [status |-> "in_flight", stream |-> op.rec.stream,
           tokens |-> Unavailable, owner |-> i] \in Row
        BY <1>1 DEF Row, RequestRecord, Statuses
    <2> QED BY <1>1, <1>2, <1>4, <2>1, NoRowFresh DEF InsertAccept, Database
<1>5. CASE ApplyOp(d, op, ops, i) = FinalizeRecord(d, op.req, op.rec, i)
    <2>1. ApplyOp(d, op, ops, i).rows =
            [d.rows EXCEPT ![op.req] = FinalizedRow(d.rows[op.req], op.rec, i)]
        BY <1>5 DEF FinalizeRecord
    <2>2. FinalizedRow(d.rows[op.req], op.rec, i) \in Row
        BY <1>1, <1>2, FinalizedRowType
    <2> QED BY <1>1, <1>2, <2>1, <2>2, NoRowFresh
<1> QED BY <1>3, <1>4, <1>5 DEF ApplyOp

LEMMA MeteredInit == Init => MeteredInv
<1> SUFFICES ASSUME Init PROVE MeteredInv OBVIOUS
<1>1. TypeOK BY TypeInit
<1> QED BY <1>1 DEF Init, MeteredInv, NeverServedUnmetered

\* A step that leaves the database and the open transaction alone, acknowledges
\* no accept and forwards no request that was not accepted.
LEMMA MeteredIdle ==
    ASSUME MeteredInv, TypeOK', UNCHANGED <<db, work, locker, applied>>,
           locker # Nobody => batch'[locker] = batch[locker],
           \A r \in Requests : pc'[r] = "accepted" => pc[r] = "accepted",
           \A r \in sent' : r \in sent \/ pc[r] = "accepted"
    PROVE  MeteredInv'
<1>1. NeverServedUnmetered'
    <2>1. \A r \in sent' : r \in Requests BY DEF TypeOK
    <2> QED BY <2>1 DEF MeteredInv, NeverServedUnmetered
<1>2. \A r \in Requests : pc'[r] = "accepted" => db'.rows[r] # NoRow BY DEF MeteredInv
<1>3. \A r \in Requests : db'.rows[r] # NoRow => work'.rows[r] # NoRow BY DEF MeteredInv
<1>4. locker' # Nobody => /\ applied' <= Len(batch'[locker'])
                          /\ Executed(work', batch'[locker'], applied')
    BY DEF MeteredInv, Executed, Superseded
<1> QED BY <1>1, <1>2, <1>3, <1>4 DEF MeteredInv, Executed, Superseded

\* A step after which no transaction is open, the committed rows have only grown
\* and the working copy is the committed database.
LEMMA MeteredClosed ==
    ASSUME MeteredInv, TypeOK', locker' = Nobody, work' = db', sent' = sent,
           \A r \in Requests : db.rows[r] # NoRow => db'.rows[r] # NoRow,
           \A r \in Requests : pc'[r] = "accepted" => db'.rows[r] # NoRow
    PROVE  MeteredInv'
<1>1. NeverServedUnmetered'
    <2>1. \A r \in sent' : r \in Requests BY DEF TypeOK
    <2> QED BY <2>1 DEF MeteredInv, NeverServedUnmetered
<1> QED BY <1>1 DEF MeteredInv

LEMMA MeteredRecover ==
    ASSUME MeteredInv, TypeOK', NEW i \in Instances, RecoverInFlight(i)
    PROVE  MeteredInv'
<1> DEFINE Dead(unknown) == {j \in Candidates(i) \ unknown : j \notin lockFiles \/ ~Alive(j)}
<1>1. PICK unknown \in SUBSET Candidates(i) :
        /\ locker = Nobody
        /\ db' = RecoverRows(db, Stranded(Dead(unknown), unknown)) /\ work' = db'
        /\ UNCHANGED <<locker, pc, sent>>
    BY DEF RecoverInFlight, reqVars
<1> DEFINE S == Stranded(Dead(unknown), unknown)
<1>2. S \in SUBSET Requests /\ \A r \in S : IsInFlightRow(db.rows[r]) BY DEF Stranded
<1>3. db' = RecoverRows(db, S) BY <1>1
<1> HIDE DEF S, Dead
<1>4. \A r \in Requests : RecoverRows(db, S).rows[r] = NoRow <=> db.rows[r] = NoRow
    BY <1>2, RecoverOwner DEF MeteredInv, TypeOK
<1>5. \A r \in Requests : db.rows[r] # NoRow => db'.rows[r] # NoRow BY <1>3, <1>4
<1>6. \A r \in Requests : pc'[r] = "accepted" => db'.rows[r] # NoRow
    BY <1>1, <1>5 DEF MeteredInv
<1> QED BY <1>1, <1>5, <1>6, MeteredClosed

LEMMA MeteredVanish ==
    ASSUME MeteredInv, TypeOK', NEW i \in Instances, Vanish(i)
    PROVE  MeteredInv'
<1>1. \A r \in Requests : pc'[r] = "accepted" => pc[r] = "accepted"
    BY DEF Vanish, MeteredInv, TypeOK
<1>2. db' = db /\ sent' = sent BY DEF Vanish
<1>3. CASE locker = i
    <2>1. locker' = Nobody /\ work' = db' BY <1>2, <1>3 DEF Vanish
    <2>2. \A r \in Requests : pc'[r] = "accepted" => db'.rows[r] # NoRow
        BY <1>1, <1>2 DEF MeteredInv
    <2> QED BY <1>2, <2>1, <2>2, MeteredClosed
<1>4. CASE locker # i
    <2>1. UNCHANGED <<work, locker, applied>> BY <1>4 DEF Vanish
    <2>2. locker # Nobody => batch'[locker] = batch[locker]
        BY <1>4 DEF Vanish, MeteredInv, TypeOK
    <2> QED BY <1>1, <1>2, <2>1, <2>2, MeteredIdle
<1> QED BY <1>3, <1>4

\* What a committed batch acknowledges is in the rows it commits.
LEMMA MeteredCommit ==
    ASSUME MeteredInv, TypeOK', NEW i \in Instances, Commit(i)
    PROVE  MeteredInv'
<1>1. /\ locker = i /\ applied = Len(batch[i]) /\ db' = work /\ work' = db'
      /\ locker' = Nobody /\ sent' = sent
    BY DEF Commit
<1>2. \A r \in Requests : db.rows[r] # NoRow => db'.rows[r] # NoRow
    BY <1>1 DEF MeteredInv
<1>3. batch[i] \in Seq(Op) BY DEF MeteredInv, TypeOK
<1>4. \A k \in DOMAIN batch[i] :
        Superseded(batch[i][k], batch[i]) \/ work.rows[batch[i][k].req] # NoRow
    BY <1>1, <1>3, NobodyFresh DEF MeteredInv, Executed
<1>5. \A k \in DOMAIN batch[i] : work.rows[batch[i][k].req] # NoRow
    <2> SUFFICES ASSUME NEW k \in DOMAIN batch[i]
                 PROVE work.rows[batch[i][k].req] # NoRow
        OBVIOUS
    <2>1. CASE Superseded(batch[i][k], batch[i])
        <3>1. PICK m \in DOMAIN batch[i] :
                batch[i][m].kind = "finalize" /\ batch[i][m].req = batch[i][k].req
            BY <2>1 DEF Superseded
        <3>2. ~Superseded(batch[i][m], batch[i]) BY <3>1 DEF Superseded
        <3> QED BY <1>4, <3>1, <3>2
    <2> QED BY <1>4, <2>1
<1>6. \A r \in Requests : pc'[r] = "accepted" =>
        pc[r] = "accepted" \/ InBatch(i, r, "accept")
    BY DEF Commit, Acknowledge
<1>7. \A r \in Requests : pc'[r] = "accepted" => db'.rows[r] # NoRow
    <2> SUFFICES ASSUME NEW r \in Requests, pc'[r] = "accepted" PROVE db'.rows[r] # NoRow
        OBVIOUS
    <2>1. CASE pc[r] = "accepted" BY <1>2, <2>1 DEF MeteredInv
    <2>2. CASE InBatch(i, r, "accept") BY <1>1, <1>5, <2>2 DEF InBatch
    <2> QED BY <1>6, <2>1, <2>2
<1> QED BY <1>1, <1>2, <1>7, MeteredClosed

LEMMA MeteredExecute ==
    ASSUME MeteredInv, TypeOK', NEW i \in Instances, Execute(i)
    PROVE  MeteredInv'
<1> DEFINE ops == batch[i]
           new == ApplyOp(work, ops[applied + 1], ops, i)
<1>1. /\ locker = i /\ applied < Len(ops) /\ work' = new /\ applied' = applied + 1
      /\ UNCHANGED <<db, locker, batch, pc, sent>>
    BY DEF Execute, writeVars, reqVars
<1>2. ops \in Seq(Op) /\ applied \in Nat /\ work \in Database BY DEF MeteredInv, TypeOK
<1>3. ops[applied + 1] \in Op BY <1>1, <1>2
<1>4. /\ \A r \in Requests : work.rows[r] # NoRow => new.rows[r] # NoRow
      /\ Superseded(ops[applied + 1], ops) \/ new.rows[ops[applied + 1].req] # NoRow
    BY <1>2, <1>3, ApplyKeeps
<1>5. Executed(work, ops, applied) BY <1>1, NobodyFresh DEF MeteredInv
<1>6. Executed(new, ops, applied + 1)
    <2> HIDE DEF new
    <2> SUFFICES ASSUME NEW k \in 1..(applied + 1)
                 PROVE Superseded(ops[k], ops) \/ new.rows[ops[k].req] # NoRow
        BY DEF Executed
    <2>1. CASE k = applied + 1 BY <1>4, <2>1
    <2>2. CASE k \in 1..applied
        <3>1. ops[k] \in Op BY <1>1, <1>2, <2>2
        <3>2. ops[k].req \in Requests BY <3>1 DEF Op
        <3> QED BY <1>4, <1>5, <2>2, <3>2 DEF Executed
    <2> QED BY <1>2, <2>1, <2>2
<1> HIDE DEF new
<1>7. \A r \in Requests : db'.rows[r] # NoRow => work'.rows[r] # NoRow
    BY <1>1, <1>4 DEF MeteredInv
<1>8. Executed(work, batch[locker], applied)' BY <1>1, <1>6 DEF Executed, Superseded
<1>9. applied' <= Len(batch'[locker']) BY <1>1, <1>2
<1>10. NeverServedUnmetered' BY <1>1 DEF MeteredInv, NeverServedUnmetered
<1>11. \A r \in Requests : pc'[r] = "accepted" => db'.rows[r] # NoRow
    BY <1>1 DEF MeteredInv
<1> QED BY <1>7, <1>8, <1>9, <1>10, <1>11 DEF MeteredInv

LEMMA MeteredStep == MeteredInv /\ [Next]_vars => MeteredInv'
<1> SUFFICES ASSUME MeteredInv, [Next]_vars PROVE MeteredInv' OBVIOUS
<1>0. TypeOK /\ TypeOK' BY TypeStep DEF MeteredInv
<1> USE DEF dbVars, procVars, writeVars, reqVars
<1>1. ASSUME NEW i \in Instances, Start(i) PROVE MeteredInv'
    <2>1. CASE ClaimLock(i) BY <1>0, <2>1, MeteredIdle DEF ClaimLock
    <2>2. CASE Register(i) BY <1>0, <2>2, MeteredIdle DEF Register
    <2>3. CASE BootRecovery(i) BY <1>0, <2>3, MeteredRecover DEF BootRecovery
    <2>4. CASE BootFails(i) BY <1>0, <2>4, MeteredIdle DEF BootFails
    <2> QED BY <1>1, <2>1, <2>2, <2>3, <2>4 DEF Start
<1>2. ASSUME NEW i \in Instances, Recovery(i) PROVE MeteredInv'
    <2>1. CASE Sweep(i) BY <1>0, <2>1, MeteredRecover DEF Sweep
    <2>2. CASE RemoveLockFiles(i) BY <1>0, <2>2, MeteredIdle DEF RemoveLockFiles
    <2> QED BY <1>2, <2>1, <2>2 DEF Recovery
<1>3. ASSUME NEW i \in Instances, Writer(i) PROVE MeteredInv'
    <2>1. CASE Receive(i)
        <3>1. locker # Nobody => batch'[locker] = batch[locker]
            BY <1>0, <2>1 DEF Receive, TypeOK
        <3> QED BY <1>0, <2>1, <3>1, MeteredIdle DEF Receive
    <2>2. CASE BeginFlush(i)
        <3>1. /\ locker' = i /\ applied' = 0 /\ work' = db
              /\ UNCHANGED <<db, batch, pc, sent>>
            BY <2>2 DEF BeginFlush
        <3>2. batch[i] \in Seq(Op) BY <1>0 DEF TypeOK
        <3>3. applied' <= Len(batch'[locker']) BY <3>1, <3>2
        <3>4. Executed(work, batch[locker], applied)' BY <3>1 DEF Executed
        <3>5. \A r \in Requests : db'.rows[r] # NoRow => work'.rows[r] # NoRow BY <3>1
        <3> QED BY <1>0, <3>1, <3>3, <3>4, <3>5 DEF MeteredInv, NeverServedUnmetered
    <2>3. CASE Execute(i) BY <1>0, <2>3, MeteredExecute
    <2>4. CASE Commit(i) BY <1>0, <2>4, MeteredCommit
    <2>5. CASE FlushBusy(i) BY <1>0, <2>5, MeteredIdle DEF FlushBusy
    <2>6. ASSUME FailBatch(i)
          PROVE \A r \in Requests : pc'[r] = "accepted" => pc[r] = "accepted"
        BY <2>6 DEF FailBatch, Acknowledge
    <2>7. CASE FlushError(i)
        <3>1. /\ locker' = Nobody /\ work' = db' /\ db' = db /\ sent' = sent
              /\ FailBatch(i)
            BY <2>7 DEF FlushError, FailBatch
        <3>2. \A r \in Requests : pc'[r] = "accepted" => db'.rows[r] # NoRow
            BY <2>6, <3>1 DEF MeteredInv
        <3> QED BY <1>0, <3>1, <3>2, MeteredClosed
    <2>8. CASE FlushGivesUp(i)
        <3>1. /\ UNCHANGED <<db, work, locker, applied, sent>> /\ locker # i
              /\ FailBatch(i)
            BY <2>8 DEF FlushGivesUp, FailBatch
        <3>2. locker # Nobody => batch'[locker] = batch[locker]
            BY <1>0, <3>1 DEF FailBatch, TypeOK
        <3> QED BY <1>0, <2>6, <3>1, <3>2, MeteredIdle
    <2> QED BY <1>3, <2>1, <2>2, <2>3, <2>4, <2>5, <2>7, <2>8 DEF Writer
<1>4. ASSUME NEW i \in Instances, Shutdown(i) PROVE MeteredInv'
    <2>1. CASE Terminate(i) BY <1>0, <2>1, MeteredIdle DEF Terminate
    <2>2. CASE EndDrain(i) BY <1>0, <2>2, MeteredIdle DEF EndDrain
    <2>3. CASE CloseChannel(i) BY <1>0, <2>3, MeteredIdle DEF CloseChannel
    <2>4. CASE WriterExits(i) BY <1>0, <2>4, MeteredIdle DEF WriterExits
    <2>5. CASE Release(i) BY <1>0, <2>5, MeteredIdle DEF Release
    <2>6. CASE Exit(i) BY <1>0, <2>6, MeteredVanish DEF Exit
    <2> QED BY <1>4, <2>1, <2>2, <2>3, <2>4, <2>5, <2>6 DEF Shutdown
<1>5. ASSUME NEW i \in Instances, Crash(i) PROVE MeteredInv'
    BY <1>0, <1>5, MeteredVanish DEF Crash
<1>6. ASSUME NEW r \in Requests, Handler(r) PROVE MeteredInv'
    <2>1. UNCHANGED <<db, work, locker, applied, batch>>
        BY <1>6 DEF Handler, Arrive, SendAccept, SendFinalize, Send, Forward, ReplyWhole,
                    StartStream, EndStream, DetachedFinalize, Disconnect, Age
    <2>2. \A q \in Requests : pc'[q] = "accepted" => pc[q] = "accepted"
        <3>1. \/ UNCHANGED pc
              \/ \E to \in PcStates \ {"accepted"} : pc' = [pc EXCEPT ![r] = to]
            <4> USE <1>6 DEF PcStates, Live, Awaited, Detached, Ended
            <4>1. ASSUME NEW i \in Instances,
                         Arrive(r, i) \/ SendAccept(r, i) \/ SendFinalize(r, i)
                  PROVE \E to \in PcStates \ {"accepted"} : pc' = [pc EXCEPT ![r] = to]
                BY <4>1 DEF Arrive, SendAccept, SendFinalize, Send
            <4>2. CASE ReplyWhole(r) \/ DetachedFinalize(r)
                BY <4>2 DEF ReplyWhole, DetachedFinalize, StartFinalize
            <4>3. CASE Forward(r) \/ StartStream(r) \/ EndStream(r) \/ Disconnect(r)
                BY <4>3 DEF Forward, StartStream, EndStream, Disconnect
            <4>4. CASE Age(r) BY <4>4 DEF Age
            <4> QED BY <4>1, <4>2, <4>3, <4>4 DEF Handler
        <3> QED BY <1>0, <3>1 DEF TypeOK
    <2>3. \A q \in sent' : q \in sent \/ pc[q] = "accepted"
        BY <1>6 DEF Handler, Arrive, SendAccept, SendFinalize, Send, Forward, ReplyWhole,
                    StartStream, EndStream, DetachedFinalize, Disconnect, Age
    <2> QED BY <1>0, <2>1, <2>2, <2>3, MeteredIdle
<1>7. ASSUME UNCHANGED vars PROVE MeteredInv' BY <1>0, <1>7, MeteredIdle DEF vars
<1> QED BY <1>1, <1>2, <1>3, <1>4, <1>5, <1>6, <1>7 DEF Next

\* A request reaches the upstream only over a committed row, whatever batches,
\* failed commits, recoveries and crashes happen meanwhile.
THEOREM ServedIsMetered == Spec => []NeverServedUnmetered
<1>1. Init => MeteredInv BY MeteredInit
<1>2. MeteredInv /\ [Next]_vars => MeteredInv' BY MeteredStep
<1>3. MeteredInv => NeverServedUnmetered BY DEF MeteredInv
<1> QED BY <1>1, <1>2, <1>3, PTL DEF Spec

-----------------------------------------------------------------------------
(* The operations in flight between handlers and writers. *)

\* What a writer still holds: its batch b and its channel q.
Held(b, q) == {b[k] : k \in DOMAIN b} \cup {q[k] : k \in DOMAIN q}

\* No request has two operations among them.
Distinct(b, q) ==
    /\ \A j, k \in DOMAIN b : b[j].req = b[k].req => j = k
    /\ \A j, k \in DOMAIN q : q[j].req = q[k].req => j = k
    /\ \A j \in DOMAIN b, k \in DOMAIN q : b[j].req # q[k].req

LEMMA HeldReceive ==
    ASSUME NEW b \in Seq(Op), NEW q \in Seq(Op), q # <<>>, Distinct(b, q)
    PROVE  /\ Held(Append(b, Head(q)), Tail(q)) = Held(b, q)
           /\ Distinct(Append(b, Head(q)), Tail(q))
<1> DEFINE c == Append(b, Head(q))
           t == Tail(q)
<1>1. /\ 1 \in DOMAIN q /\ Head(q) = q[1] /\ Len(q) \in Nat /\ Len(b) \in Nat
      /\ DOMAIN q = 1..Len(q) /\ DOMAIN b = 1..Len(b)
    OBVIOUS
<1>2. /\ DOMAIN c = 1..(Len(b) + 1) /\ c[Len(b) + 1] = q[1]
      /\ \A k \in DOMAIN b : c[k] = b[k]
    BY <1>1
<1>3. /\ DOMAIN t = 1..(Len(q) - 1)
      /\ \A k \in DOMAIN t : k + 1 \in DOMAIN q /\ t[k] = q[k + 1]
    BY <1>1
<1> HIDE DEF c, t
<1>4. \A k \in DOMAIN c : \/ k \in DOMAIN b /\ c[k] = b[k]
                          \/ k = Len(b) + 1 /\ c[k] = q[1]
    BY <1>1, <1>2
<1>5. \A k \in DOMAIN q : k = 1 \/ (k - 1 \in DOMAIN t /\ t[k - 1] = q[k])
    BY <1>1, <1>3
<1>6. Held(c, t) = Held(b, q)
    <2>1. ASSUME NEW x \in Held(c, t) PROVE x \in Held(b, q)
        BY <1>1, <1>3, <1>4, <2>1 DEF Held
    <2>2. ASSUME NEW x \in Held(b, q) PROVE x \in Held(c, t)
        <3>1. CASE \E k \in DOMAIN b : x = b[k] BY <1>1, <1>2, <3>1 DEF Held
        <3>2. CASE \E k \in DOMAIN q : x = q[k]
            <4>1. Len(b) + 1 \in DOMAIN c BY <1>1, <1>2
            <4> QED BY <1>2, <1>5, <3>2, <4>1 DEF Held
        <3> QED BY <2>2, <3>1, <3>2 DEF Held
    <2> QED BY <2>1, <2>2
<1>7. Distinct(c, t)
    <2>1. \A j, k \in DOMAIN c : c[j].req = c[k].req => j = k
        BY <1>1, <1>4 DEF Distinct
    <2>2. \A j, k \in DOMAIN t : t[j].req = t[k].req => j = k
        <3> SUFFICES ASSUME NEW j \in DOMAIN t, NEW k \in DOMAIN t, t[j].req = t[k].req
                     PROVE j = k
            OBVIOUS
        <3>1. j + 1 = k + 1 BY <1>3 DEF Distinct
        <3>2. j \in Int /\ k \in Int BY <1>1, <1>3
        <3> QED BY <3>1, <3>2
    <2>3. \A j \in DOMAIN c, k \in DOMAIN t : c[j].req # t[k].req
        <3> SUFFICES ASSUME NEW j \in DOMAIN c, NEW k \in DOMAIN t PROVE c[j].req # t[k].req
            OBVIOUS
        <3>1. k \in Int /\ k >= 1 BY <1>1, <1>3
        <3>2. k + 1 # 1 BY <3>1
        <3>3. q[1].req # t[k].req BY <1>1, <1>3, <3>2 DEF Distinct
        <3> QED BY <1>3, <1>4, <3>3 DEF Distinct
    <2> QED BY <2>1, <2>2, <2>3 DEF Distinct
<1> QED BY <1>6, <1>7 DEF c, t

LEMMA HeldSend ==
    ASSUME NEW b \in Seq(Op), NEW q \in Seq(Op), NEW op \in Op, Distinct(b, q),
           \A o \in Held(b, q) : o.req # op.req
    PROVE  /\ Held(b, Append(q, op)) = Held(b, q) \cup {op}
           /\ Distinct(b, Append(q, op))
<1> DEFINE t == Append(q, op)
<1>1. /\ Len(q) \in Nat /\ DOMAIN q = 1..Len(q)
      /\ DOMAIN t = 1..(Len(q) + 1) /\ t[Len(q) + 1] = op
      /\ \A k \in DOMAIN q : t[k] = q[k]
    OBVIOUS
<1> HIDE DEF t
<1>2. \A k \in DOMAIN t : \/ k \in DOMAIN q /\ t[k] = q[k]
                          \/ k = Len(q) + 1 /\ t[k] = op
    BY <1>1
<1>3. DOMAIN q \subseteq DOMAIN t /\ Len(q) + 1 \in DOMAIN t BY <1>1
<1>4. Held(b, t) = Held(b, q) \cup {op}
    <2>1. ASSUME NEW x \in Held(b, t) PROVE x \in Held(b, q) \cup {op}
        BY <1>2, <2>1 DEF Held
    <2>2. ASSUME NEW x \in Held(b, q) \cup {op} PROVE x \in Held(b, t)
        BY <1>1, <1>3, <2>2 DEF Held
    <2> QED BY <2>1, <2>2
<1>5. /\ \A k \in DOMAIN b : b[k].req # op.req
      /\ \A k \in DOMAIN q : q[k].req # op.req
    BY DEF Held
<1>6. Distinct(b, t) BY <1>2, <1>5 DEF Distinct
<1> QED BY <1>4, <1>6 DEF t

LEMMA HeldDrop ==
    ASSUME NEW b, NEW q, Distinct(b, q)
    PROVE  /\ Held(<<>>, q) \subseteq Held(b, q) /\ Distinct(<<>>, q)
           /\ Held(<<>>, <<>>) = {} /\ Distinct(<<>>, <<>>)
           /\ \A o \in Held(<<>>, q) : \A k \in DOMAIN b : b[k].req # o.req
BY DEF Held, Distinct

\* A handler that waits for its finalize, or whose finalize nobody watches.
Waiting == {"final_wait", "detached_wait", "unwatched"}

HeldBy(i) == Held(batch[i], queue[i])

\* An operation belongs to a request of its writer's instance whose handler waits
\* for it, or was dropped while its accept waited; a finalize carries the record
\* its handler holds.
OpGood(op, i) ==
    /\ home[op.req] = i
    /\ op.kind = "accept" => pc[op.req] \in {"accept_wait", "dropped"}
    /\ op.kind = "finalize" => pc[op.req] \in Waiting /\ op.rec = record[op.req]

FlowInv ==
    /\ TypeOK
    /\ \A i \in Instances : /\ Distinct(batch[i], queue[i])
                            /\ \A op \in HeldBy(i) : OpGood(op, i)
    /\ \A r \in Requests : pc[r] \in Waiting =>
          \E i \in Instances : \E op \in HeldBy(i) : op.req = r

LEMMA HeldAreOps ==
    ASSUME TypeOK, NEW i \in Instances
    PROVE  /\ \A op \in HeldBy(i) : op \in Op /\ op.req \in Requests
           /\ \A op \in HeldBy(i) : op.kind \in {"accept", "finalize"}
<1>1. batch[i] \in Seq(Op) /\ queue[i] \in Seq(Op) BY DEF TypeOK
<1>2. ASSUME NEW op \in HeldBy(i) PROVE op \in Op BY <1>1, <1>2 DEF HeldBy, Held
<1> QED BY <1>2 DEF Op

LEMMA FlowInit == Init => FlowInv
<1> SUFFICES ASSUME Init PROVE FlowInv OBVIOUS
<1>1. TypeOK BY TypeInit
<1>2. \A i \in Instances : batch[i] = <<>> /\ queue[i] = <<>> BY DEF Init
<1>3. Distinct(<<>>, <<>>) /\ Held(<<>>, <<>>) = {} BY HeldDrop DEF Distinct
<1>4. \A r \in Requests : pc[r] \notin Waiting BY DEF Init, Waiting
<1> QED BY <1>1, <1>2, <1>3, <1>4 DEF FlowInv, HeldBy

\* How a request may move while its operations stay where they are.
Moves(r) ==
    \/ pc'[r] = pc[r] /\ home'[r] = home[r] /\ record'[r] = record[r]
    \/ pc[r] \notin {"accept_wait", "dropped"} \cup Waiting /\ pc'[r] \notin Waiting
    \/ /\ home'[r] = home[r] /\ record'[r] = record[r]
       /\ \/ pc[r] = "accept_wait" /\ pc'[r] = "dropped"
          \/ pc[r] = "final_wait" /\ pc'[r] = "unwatched"

LEMMA FlowMove ==
    ASSUME FlowInv, TypeOK', UNCHANGED <<queue, batch>>, \A r \in Requests : Moves(r)
    PROVE  FlowInv'
<1>1. \A i \in Instances : HeldBy(i)' = HeldBy(i) BY DEF HeldBy
<1>2. ASSUME NEW i \in Instances, NEW op \in HeldBy(i) PROVE OpGood(op, i)'
    <2>1. op.req \in Requests /\ op.kind \in {"accept", "finalize"} /\ OpGood(op, i)
        BY <1>2, HeldAreOps DEF FlowInv
    <2>2. Moves(op.req) BY <2>1
    <2> QED BY <2>1, <2>2 DEF Moves, OpGood, Waiting
<1>3. ASSUME NEW r \in Requests, pc'[r] \in Waiting
      PROVE \E i \in Instances : \E op \in HeldBy(i) : op.req = r
    BY <1>3 DEF Moves, FlowInv, Waiting
<1>4. \A i \in Instances : Distinct(batch[i], queue[i])' BY DEF FlowInv
<1> QED BY <1>1, <1>2, <1>3, <1>4 DEF FlowInv

\* The batch of i leaves; its requests are answered.
LEMMA FlowAck ==
    ASSUME FlowInv, TypeOK', NEW i \in Instances, NEW a, NEW f, Acknowledge(i, a, f),
           a \notin Waiting, f \notin Waiting,
           batch' = [batch EXCEPT ![i] = <<>>], UNCHANGED <<queue, home, record>>
    PROVE  FlowInv'
<1>0. TypeOK BY DEF FlowInv
<1>1. \A j \in Instances : /\ batch'[j] = IF j = i THEN <<>> ELSE batch[j]
                           /\ queue'[j] = queue[j]
    BY <1>0 DEF TypeOK
<1>2. Distinct(batch[i], queue[i]) BY DEF FlowInv
<1>3. /\ HeldBy(i)' \subseteq HeldBy(i) /\ Distinct(batch[i], queue[i])'
      /\ \A o \in HeldBy(i)' : \A k \in DOMAIN batch[i] : batch[i][k].req # o.req
    BY <1>1, <1>2, HeldDrop DEF HeldBy
<1>4. \A j \in Instances \ {i} : HeldBy(j)' = HeldBy(j) BY <1>1 DEF HeldBy
<1>5. \A k \in DOMAIN batch[i] : batch[i][k] \in HeldBy(i) BY DEF HeldBy, Held
<1>6. ASSUME NEW j \in Instances, NEW op \in HeldBy(j)' PROVE OpGood(op, j)'
    <2>1. op \in HeldBy(j) BY <1>3, <1>4, <1>6
    <2>2. op.req \in Requests /\ OpGood(op, j) BY <1>0, <2>1, HeldAreOps DEF FlowInv
    <2>3. \A k \in DOMAIN batch[i] : batch[i][k].req # op.req
        <3>1. CASE j = i BY <1>3, <1>6, <3>1
        <3>2. CASE j # i BY <1>5, <2>2, <3>2 DEF FlowInv, OpGood
        <3> QED BY <3>1, <3>2
    <2>4. pc'[op.req] = pc[op.req] BY <2>2, <2>3 DEF Acknowledge, InBatch
    <2> QED BY <2>2, <2>4 DEF OpGood
<1>7. ASSUME NEW r \in Requests, pc'[r] \in Waiting
      PROVE  \E j \in Instances : \E op \in HeldBy(j)' : op.req = r
    <2>1. pc'[r] = pc[r] /\ ~InBatch(i, r, "finalize")
        BY <1>7 DEF Acknowledge, Waiting
    <2>2. PICK j \in Instances : \E op \in HeldBy(j) : op.req = r
        BY <1>7, <2>1 DEF FlowInv
    <2>3. PICK op \in HeldBy(j) : op.req = r BY <2>2
    <2>4. OpGood(op, j) /\ op.kind \in {"accept", "finalize"}
        BY <1>0, <2>3, HeldAreOps DEF FlowInv
    <2>5. op.kind = "finalize" BY <1>7, <2>1, <2>3, <2>4 DEF OpGood, Waiting
    <2>6. CASE j # i BY <1>4, <2>3, <2>6
    <2>7. CASE j = i
        <3>1. \A k \in DOMAIN batch[i] : batch[i][k] # op
            BY <2>1, <2>3, <2>5 DEF InBatch
        <3>2. op \in HeldBy(i)' BY <1>1, <2>3, <2>7, <3>1 DEF HeldBy, Held
        <3> QED BY <2>3, <3>2
    <2> QED BY <2>6, <2>7
<1>8. \A j \in Instances : Distinct(batch[j], queue[j])'
    BY <1>1, <1>3 DEF FlowInv
<1> QED BY <1>6, <1>7, <1>8 DEF FlowInv

LEMMA FlowVanish ==
    ASSUME FlowInv, TypeOK', NEW i \in Instances, Vanish(i)
    PROVE  FlowInv'
<1>0. TypeOK BY DEF FlowInv
<1>1. \A j \in Instances : /\ batch'[j] = IF j = i THEN <<>> ELSE batch[j]
                           /\ queue'[j] = IF j = i THEN <<>> ELSE queue[j]
    BY <1>0 DEF TypeOK, Vanish
<1>2. HeldBy(i)' = {} /\ Distinct(batch[i], queue[i])'
    BY <1>1, HeldDrop DEF HeldBy, FlowInv
<1>3. \A j \in Instances \ {i} : HeldBy(j)' = HeldBy(j) BY <1>1 DEF HeldBy
<1>4. \A r \in Requests :
        /\ home'[r] = home[r] /\ record'[r] = record[r]
        /\ home[r] # i => pc'[r] = pc[r]
        /\ home[r] = i /\ pc[r] \in Waiting => pc'[r] = "dead"
        /\ pc'[r] = pc[r] \/ pc'[r] = "dead"
    BY DEF Vanish, Live, Waiting, Detached
<1>5. ASSUME NEW j \in Instances, NEW op \in HeldBy(j)' PROVE OpGood(op, j)'
    <2>1. j # i /\ op \in HeldBy(j) BY <1>2, <1>3, <1>5
    <2>2. op.req \in Requests /\ OpGood(op, j) BY <1>0, <2>1, HeldAreOps DEF FlowInv
    <2> QED BY <1>4, <2>1, <2>2 DEF OpGood
<1>6. ASSUME NEW r \in Requests, pc'[r] \in Waiting
      PROVE  \E j \in Instances : \E op \in HeldBy(j)' : op.req = r
    <2>1. pc'[r] = pc[r] /\ home[r] # i BY <1>4, <1>6 DEF Waiting
    <2>2. PICK j \in Instances : \E op \in HeldBy(j) : op.req = r
        BY <1>6, <2>1 DEF FlowInv
    <2>3. PICK op \in HeldBy(j) : op.req = r BY <2>2
    <2>4. j # i BY <2>1, <2>3 DEF FlowInv, OpGood
    <2> QED BY <1>3, <2>3, <2>4
<1>7. \A j \in Instances : Distinct(batch[j], queue[j])' BY <1>1, <1>2 DEF FlowInv
<1> QED BY <1>5, <1>6, <1>7 DEF FlowInv

LEMMA FlowReceive ==
    ASSUME FlowInv, TypeOK', NEW i \in Instances, Receive(i)
    PROVE  FlowInv'
<1>0. TypeOK BY DEF FlowInv
<1>1. /\ UNCHANGED <<pc, home, record>> /\ queue[i] # <<>>
      /\ batch[i] \in Seq(Op) /\ queue[i] \in Seq(Op) /\ Distinct(batch[i], queue[i])
    BY <1>0 DEF Receive, reqVars, TypeOK, FlowInv
<1>2. \A j \in Instances :
        /\ batch'[j] = IF j = i THEN Append(batch[i], Head(queue[i])) ELSE batch[j]
        /\ queue'[j] = IF j = i THEN Tail(queue[i]) ELSE queue[j]
    BY <1>0 DEF TypeOK, Receive
<1>3. HeldBy(i)' = HeldBy(i) /\ Distinct(batch[i], queue[i])'
    BY <1>1, <1>2, HeldReceive DEF HeldBy
<1>4. \A j \in Instances : HeldBy(j)' = HeldBy(j) /\ Distinct(batch[j], queue[j])'
    BY <1>2, <1>3 DEF HeldBy, FlowInv
<1> QED BY <1>1, <1>4 DEF FlowInv, OpGood

LEMMA FlowSend ==
    ASSUME FlowInv, TypeOK', NEW r \in Requests, NEW i \in Instances, NEW from, NEW to,
           NEW kind, Send(r, i, from, to, kind),
           \/ kind = "accept" /\ from = "accept_send" /\ to = "accept_wait"
           \/ kind = "finalize" /\ from \in Sending \ {"accept_send"} /\ to \in Waiting
    PROVE  FlowInv'
<1>0. TypeOK BY DEF FlowInv
<1>1. /\ UNCHANGED <<batch, home, record>> /\ pc[r] = from /\ home[r] = i
      /\ batch[i] \in Seq(Op) /\ queue[i] \in Seq(Op) /\ Distinct(batch[i], queue[i])
    BY <1>0 DEF Send, TypeOK, FlowInv
<1>2. PICK op : op = [kind |-> kind, req |-> r, rec |-> record[r]] OBVIOUS
<1>3. \A j \in Instances : queue'[j] = IF j = i THEN Append(queue[i], op) ELSE queue[j]
    BY <1>0, <1>2 DEF TypeOK, Send
<1>4. \A q \in Requests : pc'[q] = IF q = r THEN to ELSE pc[q] BY <1>0 DEF TypeOK, Send
<1>5. op \in Op /\ op.kind = kind /\ op.req = r /\ op.rec = record[r]
    BY <1>0, <1>2 DEF Op, TypeOK
<1>6. \A j \in Instances : \A o \in HeldBy(j) : o.req # r
    <2> SUFFICES ASSUME NEW j \in Instances, NEW o \in HeldBy(j), o.req = r PROVE FALSE
        OBVIOUS
    <2>1. OpGood(o, j) /\ o.kind \in {"accept", "finalize"}
        BY <1>0, HeldAreOps DEF FlowInv
    <2> QED BY <1>1, <2>1 DEF OpGood, Waiting, Sending
<1>7. HeldBy(i)' = HeldBy(i) \cup {op} /\ Distinct(batch[i], queue[i])'
    BY <1>1, <1>3, <1>5, <1>6, HeldSend DEF HeldBy
<1>8. \A j \in Instances \ {i} : HeldBy(j)' = HeldBy(j) /\ Distinct(batch[j], queue[j])'
    BY <1>1, <1>3 DEF HeldBy, FlowInv
<1>9. OpGood(op, i)' BY <1>1, <1>4, <1>5 DEF OpGood
<1>10. ASSUME NEW j \in Instances, NEW o \in HeldBy(j) PROVE OpGood(o, j)'
    <2>1. OpGood(o, j) /\ o.req \in Requests /\ o.req # r
        BY <1>0, <1>6, <1>10, HeldAreOps DEF FlowInv
    <2> QED BY <1>1, <1>4, <2>1 DEF OpGood
<1>11. ASSUME NEW q \in Requests, pc'[q] \in Waiting
       PROVE  \E j \in Instances : \E o \in HeldBy(j)' : o.req = q
    <2>1. CASE q = r BY <1>5, <1>7, <2>1
    <2>2. CASE q # r
        <3>1. PICK j \in Instances : \E o \in HeldBy(j) : o.req = q
            BY <1>4, <1>11, <2>2 DEF FlowInv
        <3> QED BY <1>7, <1>8, <3>1
    <2> QED BY <2>1, <2>2
<1> QED BY <1>7, <1>8, <1>9, <1>10, <1>11 DEF FlowInv

\* What one step of a handler does to its request and to its writer's channel.
Turn(r) ==
    \/ UNCHANGED <<pc, home, record, queue, healthy>>
    \/ /\ pc[r] = "new" /\ pc'[r] \in {"refused", "accept_send"} /\ queue' = queue
       /\ \E i \in Instances :
             /\ home'[r] = i
             /\ inst[i] \in {"up", "draining"} \/ (Serving(i) /\ i \in forced)
    \/ /\ home'[r] = home[r] /\ record'[r] = record[r] /\ healthy' = healthy
       /\ \E i \in Instances :
             \/ /\ Send(r, i, "accept_send", "accept_wait", "accept")
                /\ pc[r] = "accept_send" /\ pc'[r] = "accept_wait"
             \/ /\ Send(r, i, "final_send", "final_wait", "finalize")
                /\ pc[r] = "final_send" /\ pc'[r] = "final_wait"
             \/ /\ Send(r, i, "detached_send", "detached_wait", "finalize")
                /\ pc[r] = "detached_send" /\ pc'[r] = "detached_wait"
    \/ /\ home'[r] = home[r] /\ queue' = queue /\ healthy' = healthy
       /\ \/ pc[r] = "accepted" /\ pc'[r] = "upstream"
          \/ pc[r] = "upstream" /\ pc'[r] \in {"final_send", "streaming"}
          \/ pc[r] = "streaming" /\ pc'[r] = "detached"
          \/ pc[r] = "detached" /\ pc'[r] = "detached_send"
    \/ /\ home'[r] = home[r] /\ queue' = queue /\ healthy' = healthy
       /\ record'[r] = record[r]
       /\ \/ pc[r] \in Awaited /\ pc'[r] = "dropped"
          \/ pc[r] = "final_wait" /\ pc'[r] = "unwatched"
    \/ /\ home'[r] = home[r] /\ queue' = queue
       /\ pc[r] \in {"upstream", "detached"} /\ pc'[r] = "lost"
       /\ healthy' = [healthy EXCEPT ![home[r]] = FALSE]

LEMMA HandlerTurn ==
    ASSUME TypeOK, NEW r \in Requests, Handler(r)
    PROVE  /\ UNCHANGED <<dbVars, procVars, batch>>
           /\ \A q \in Requests \ {r} : /\ pc'[q] = pc[q] /\ home'[q] = home[q]
                                        /\ record'[q] = record[q]
           /\ \A j \in Instances : healthy'[j] => healthy[j]
           /\ Turn(r)
<1> DEFINE Goal == /\ UNCHANGED <<dbVars, procVars, batch>>
                   /\ \A q \in Requests \ {r} : /\ pc'[q] = pc[q] /\ home'[q] = home[q]
                                                /\ record'[q] = record[q]
                   /\ \A j \in Instances : healthy'[j] => healthy[j]
                   /\ Turn(r)
<1> USE DEF dbVars, procVars, writeVars, reqVars, TypeOK
<1>1. ASSUME NEW i \in Instances, Arrive(r, i) PROVE Goal
    <2>1. PICK s \in BOOLEAN : record' = [record EXCEPT ![r] = FreshRecord(s)]
        BY <1>1 DEF Arrive
    <2>2. /\ pc[r] = "new" /\ pc'[r] \in {"refused", "accept_send"} /\ queue' = queue
          /\ home'[r] = i
          /\ inst[i] \in {"up", "draining"} \/ (Serving(i) /\ i \in forced)
        BY <1>1 DEF Arrive
    <2>3. Turn(r)
        <3>1. \E j \in Instances :
                 /\ home'[r] = j
                 /\ inst[j] \in {"up", "draining"} \/ (Serving(j) /\ j \in forced)
            BY <2>2
        <3> QED BY ONLY <2>2, <3>1 DEF Turn
    <2>4. \A j \in Instances : healthy'[j] => healthy[j] BY <1>1 DEF Arrive
    <2> QED BY <1>1, <2>1, <2>3, <2>4 DEF Arrive
<1>2. ASSUME NEW i \in Instances, NEW from, NEW to, NEW kind, Send(r, i, from, to, kind)
      PROVE  /\ UNCHANGED <<dbVars, procVars, batch, home, record, healthy>>
             /\ pc[r] = from /\ pc'[r] = to
             /\ \A q \in Requests \ {r} : pc'[q] = pc[q]
    BY <1>2 DEF Send
<1>3. ASSUME NEW i \in Instances, SendAccept(r, i) PROVE Goal
    BY <1>2, <1>3 DEF SendAccept, Turn
<1>4. ASSUME NEW i \in Instances, SendFinalize(r, i) PROVE Goal
    BY <1>2, <1>4 DEF SendFinalize, Turn
<1>5. CASE Forward(r) BY <1>5 DEF Forward, Turn
<1>6. ASSUME NEW to, StartFinalize(r, to)
      PROVE  /\ \A q \in Requests \ {r} : pc'[q] = pc[q]
             /\ \A j \in Instances : healthy'[j] => healthy[j]
             /\ \/ pc'[r] = to /\ healthy' = healthy
                \/ pc'[r] = "lost" /\ healthy' = [healthy EXCEPT ![home[r]] = FALSE]
    BY <1>6 DEF StartFinalize
<1>7. CASE ReplyWhole(r)
    <2>1. PICK rec : record' = [record EXCEPT ![r] = rec] BY <1>7 DEF ReplyWhole
    <2>2. /\ pc[r] = "upstream" /\ StartFinalize(r, "final_send")
          /\ UNCHANGED <<dbVars, procVars, queue, batch, home>>
        BY <1>7 DEF ReplyWhole
    <2>3. Turn(r) BY <1>6, <2>2 DEF Turn
    <2> QED BY <1>6, <2>1, <2>2, <2>3
<1>8. CASE StartStream(r) BY <1>8 DEF StartStream, Turn
<1>9. CASE EndStream(r)
    <2>1. PICK rec : record' = [record EXCEPT ![r] = rec] BY <1>9 DEF EndStream
    <2>2. Turn(r) BY <1>9 DEF EndStream, Turn
    <2> QED BY <1>9, <2>1, <2>2 DEF EndStream
<1>10. CASE DetachedFinalize(r)
    <2>1. /\ pc[r] = "detached" /\ StartFinalize(r, "detached_send")
          /\ UNCHANGED <<dbVars, procVars, queue, batch, home, record>>
        BY <1>10 DEF DetachedFinalize
    <2>2. Turn(r) BY <1>6, <2>1 DEF Turn
    <2> QED BY <1>6, <2>1, <2>2
<1>11. CASE Disconnect(r) BY <1>11 DEF Disconnect, Turn
<1>12. CASE Age(r) BY <1>12 DEF Age, Turn
<1> QED BY <1>1, <1>3, <1>4, <1>5, <1>7, <1>8, <1>9, <1>10, <1>11, <1>12 DEF Handler

LEMMA FlowStep == FlowInv /\ [Next]_vars => FlowInv'
<1> SUFFICES ASSUME FlowInv, [Next]_vars PROVE FlowInv' OBVIOUS
<1>0. TypeOK /\ TypeOK' BY TypeStep DEF FlowInv
<1> USE DEF dbVars, procVars, writeVars, reqVars
<1>a. ASSUME UNCHANGED <<queue, batch, pc, home, record>> PROVE FlowInv'
    BY <1>0, <1>a, FlowMove DEF Moves
<1>1. ASSUME NEW i \in Instances, Start(i) \/ Recovery(i) PROVE FlowInv'
    BY <1>1, <1>a DEF Start, Recovery, ClaimLock, Register, BootRecovery, BootFails, Sweep,
                      RemoveLockFiles, RecoverInFlight
<1>2. ASSUME NEW i \in Instances, Writer(i) PROVE FlowInv'
    <2>1. CASE Receive(i) BY <1>0, <2>1, FlowReceive
    <2>2. CASE BeginFlush(i) \/ Execute(i) \/ FlushBusy(i)
        BY <1>a, <2>2 DEF BeginFlush, Execute, FlushBusy
    <2>3. CASE Commit(i) BY <1>0, <2>3, FlowAck DEF Commit, Waiting
    <2>4. ASSUME FailBatch(i) PROVE FlowInv' BY <1>0, <2>4, FlowAck DEF FailBatch, Waiting
    <2>5. CASE FlushError(i) \/ FlushGivesUp(i) BY <2>4, <2>5 DEF FlushError, FlushGivesUp
    <2> QED BY <1>2, <2>1, <2>2, <2>3, <2>5 DEF Writer
<1>3. ASSUME NEW i \in Instances, Shutdown(i) PROVE FlowInv'
    <2>1. CASE Terminate(i) \/ EndDrain(i) \/ CloseChannel(i) \/ WriterExits(i) \/ Release(i)
        BY <1>a, <2>1 DEF Terminate, EndDrain, CloseChannel, WriterExits, Release
    <2>2. CASE Exit(i) BY <1>0, <2>2, FlowVanish DEF Exit
    <2> QED BY <1>3, <2>1, <2>2 DEF Shutdown
<1>4. ASSUME NEW i \in Instances, Crash(i) PROVE FlowInv'
    BY <1>0, <1>4, FlowVanish DEF Crash
<1>5. ASSUME NEW r \in Requests, Handler(r) PROVE FlowInv'
    <2>1. /\ Turn(r) /\ batch' = batch
          /\ \A q \in Requests \ {r} : /\ pc'[q] = pc[q] /\ home'[q] = home[q]
                                       /\ record'[q] = record[q]
        BY <1>0, <1>5, HandlerTurn
    <2>2. CASE \E i \in Instances :
                 \/ Send(r, i, "accept_send", "accept_wait", "accept")
                 \/ Send(r, i, "final_send", "final_wait", "finalize")
                 \/ Send(r, i, "detached_send", "detached_wait", "finalize")
        BY <1>0, <2>2, FlowSend DEF Sending, Waiting
    <2>3. CASE queue' = queue /\ Moves(r)
        <3>1. \A q \in Requests : Moves(q) BY <2>1, <2>3 DEF Moves
        <3> QED BY <1>0, <2>1, <2>3, <3>1, FlowMove
    <2> QED BY <2>1, <2>2, <2>3 DEF Turn, Moves, Waiting, Awaited
<1>6. CASE UNCHANGED vars BY <1>6, <1>a DEF vars
<1> QED BY <1>1, <1>2, <1>3, <1>4, <1>5, <1>6 DEF Next

-----------------------------------------------------------------------------
(* The life of a process and of the requests it serves. *)

\* Handler states a shutdown that met no deadline leaves at each of its stages.
Left(s) ==
    IF s = "flushing" THEN Detached \cup {"unwatched"}
    ELSE IF s = "closing" THEN {"unwatched"}
    ELSE IF s \in {"stopped", "released", "exited"} THEN {}
    ELSE Live

\* A request in state p fits its process: the process is in state s, its writer
\* is healthy or not, its shutdown was cut short by a deadline or not.
Fit(p, s, ok, cut) ==
    /\ s \notin {"unborn", "claimed", "registered"}
    /\ p \in Live => s \notin {"exited", "crashed"}
    /\ p = "lost" => ~ok
    /\ p = "dead" => s \in {"exited", "crashed"}
    /\ ~cut => /\ p \in Live => p \in Left(s)
               /\ p = "dead" => s = "crashed"

LifeInv ==
    /\ FlowInv
    /\ \A r \in Requests :
          \/ home[r] \notin Instances /\ pc[r] \in {"new", "dead"}
          \/ /\ home[r] \in Instances
             /\ Fit(pc[r], inst[home[r]], healthy[home[r]], home[r] \in forced)

LEMMA LifeInit == Init => LifeInv
<1> SUFFICES ASSUME Init PROVE LifeInv OBVIOUS
<1>1. \A r \in Requests : home[r] \notin Instances /\ pc[r] \in {"new", "dead"}
    BY OwnersDistinct DEF Init
<1> QED BY <1>1, FlowInit DEF LifeInv

\* Requests stay where they are; a request of an instance that changes its state
\* still fits it.
LEMMA LifeIdle ==
    ASSUME LifeInv, FlowInv', UNCHANGED <<pc, home, healthy>>, forced \subseteq forced',
           \A r \in Requests : home[r] \in Instances =>
              \/ inst'[home[r]] = inst[home[r]]
              \/ Fit(pc[r], inst'[home[r]], healthy[home[r]], home[r] \in forced')
    PROVE  LifeInv'
<1> SUFFICES ASSUME NEW r \in Requests, home[r] \in Instances
             PROVE  Fit(pc[r], inst'[home[r]], healthy[home[r]], home[r] \in forced')
    BY DEF LifeInv
<1>1. Fit(pc[r], inst[home[r]], healthy[home[r]], home[r] \in forced) BY DEF LifeInv
<1>2. CASE inst'[home[r]] = inst[home[r]] BY <1>1, <1>2 DEF Fit
<1>3. CASE Fit(pc[r], inst'[home[r]], healthy[home[r]], home[r] \in forced') BY <1>3
<1> QED BY <1>2, <1>3

\* An instance that has not served yet has no requests.
LEMMA LifeYoung ==
    ASSUME LifeInv, NEW i \in Instances, inst[i] \in {"unborn", "claimed", "registered"},
           NEW r \in Requests
    PROVE  home[r] # i
BY DEF LifeInv, Fit

LEMMA LifeAck ==
    ASSUME LifeInv, FlowInv', NEW i \in Instances, NEW a, NEW f, Acknowledge(i, a, f),
           UNCHANGED <<home, inst, forced>>,
           \A j \in Instances : healthy'[j] => healthy[j],
           \/ a = "accepted" /\ f = "settled"
           \/ a = "refused" /\ f = "lost" /\ ~healthy'[i]
    PROVE  LifeInv'
<1>0. TypeOK BY DEF LifeInv, FlowInv
<1>1. \A r \in Requests : \/ pc'[r] = pc[r]
                          \/ pc[r] = "accept_wait" /\ pc'[r] = a
                          \/ /\ pc[r] \in Waiting /\ pc'[r] = f
                             /\ InBatch(i, r, "finalize")
    BY DEF Acknowledge, Waiting
<1>2. ASSUME NEW r \in Requests, InBatch(i, r, "finalize") PROVE home[r] = i
    <2>1. PICK k \in DOMAIN batch[i] : batch[i][k].req = r BY <1>2 DEF InBatch
    <2>2. batch[i][k] \in HeldBy(i) BY DEF HeldBy, Held
    <2> QED BY <2>1, <2>2 DEF LifeInv, FlowInv, OpGood
<1>3. ASSUME NEW r \in Requests, home[r] \in Instances
      PROVE  Fit(pc'[r], inst[home[r]], healthy'[home[r]], home[r] \in forced)
    <2>1. Fit(pc[r], inst[home[r]], healthy[home[r]], home[r] \in forced)
        BY <1>3 DEF LifeInv
    <2>2. healthy'[home[r]] => healthy[home[r]] BY <1>3
    <2>3. CASE pc'[r] = pc[r] BY <2>1, <2>2, <2>3 DEF Fit
    <2>4. CASE pc[r] = "accept_wait" /\ pc'[r] = a
        BY <2>1, <2>4 DEF Fit, Live, Left, Detached, Awaited
    <2>5. CASE pc[r] \in Waiting /\ pc'[r] = f /\ InBatch(i, r, "finalize")
        <3>1. home[r] = i BY <1>2, <2>5
        <3> QED BY <2>1, <2>2, <2>5, <3>1 DEF Fit, Live, Detached, Awaited
    <2> QED BY <1>1, <2>3, <2>4, <2>5
<1>4. ASSUME NEW r \in Requests, home[r] \notin Instances PROVE pc'[r] = pc[r]
    BY <1>1, <1>4 DEF LifeInv, Waiting
<1> QED BY <1>3, <1>4 DEF LifeInv

LEMMA LifeVanish ==
    ASSUME LifeInv, FlowInv', NEW i \in Instances, Vanish(i),
           \/ inst[i] = "released" /\ inst' = [inst EXCEPT ![i] = "exited"]
           \/ inst' = [inst EXCEPT ![i] = "crashed"]
    PROVE  LifeInv'
<1>0. TypeOK BY DEF LifeInv, FlowInv
<1>1. /\ UNCHANGED <<home, healthy, forced>>
      /\ \A r \in Requests :
            pc'[r] = IF home[r] = i /\ pc[r] \in Live THEN "dead" ELSE pc[r]
    BY DEF Vanish
<1>2. \A j \in Instances \ {i} : inst'[j] = inst[j] BY <1>0 DEF TypeOK
<1>3. \/ inst[i] = "released" /\ inst'[i] = "exited"
      \/ inst'[i] = "crashed"
    BY <1>0 DEF TypeOK
<1>4. ASSUME NEW r \in Requests, home[r] \in Instances
      PROVE  Fit(pc'[r], inst'[home[r]], healthy[home[r]], home[r] \in forced)
    <2>1. Fit(pc[r], inst[home[r]], healthy[home[r]], home[r] \in forced)
        BY <1>4 DEF LifeInv
    <2>2. CASE home[r] # i BY <1>1, <1>2, <1>4, <2>1, <2>2
    <2>3. CASE home[r] = i /\ pc[r] \in Live
        <3>1. pc'[r] = "dead" BY <1>1, <2>3
        <3>2. "dead" \notin Live BY DEF Live, Awaited, Detached
        <3> QED BY <1>3, <2>1, <2>3, <3>1, <3>2 DEF Fit, Left
    <2>4. CASE home[r] = i /\ pc[r] \notin Live
        <3>1. pc'[r] = pc[r] BY <1>1, <2>4
        <3> QED BY <1>3, <2>1, <2>4, <3>1 DEF Fit
    <2> QED BY <2>2, <2>3, <2>4
<1>5. ASSUME NEW r \in Requests, home[r] \notin Instances PROVE pc'[r] = pc[r]
    BY <1>1, <1>5
<1> QED BY <1>1, <1>4, <1>5 DEF LifeInv

LEMMA LifeHandler ==
    ASSUME LifeInv, FlowInv', NEW r \in Requests, Handler(r)
    PROVE  LifeInv'
<1>0. TypeOK BY DEF LifeInv, FlowInv
<1>1. /\ Turn(r) /\ UNCHANGED <<inst, forced>>
      /\ \A q \in Requests \ {r} : pc'[q] = pc[q] /\ home'[q] = home[q]
      /\ \A j \in Instances : healthy'[j] => healthy[j]
    BY <1>0, HandlerTurn DEF procVars
<1>2. ASSUME NEW q \in Requests \ {r}, home[q] \in Instances
      PROVE  Fit(pc'[q], inst'[home'[q]], healthy'[home'[q]], home'[q] \in forced')
    <2>1. Fit(pc[q], inst[home[q]], healthy[home[q]], home[q] \in forced)
        BY <1>2 DEF LifeInv
    <2>2. healthy'[home[q]] => healthy[home[q]] BY <1>1, <1>2
    <2>3. Fit(pc[q], inst[home[q]], healthy'[home[q]], home[q] \in forced)
        BY <2>1, <2>2 DEF Fit
    <2> QED BY <1>1, <1>2, <2>3
<1>3. \/ home'[r] \notin Instances /\ pc'[r] \in {"new", "dead"}
      \/ /\ home'[r] \in Instances
         /\ Fit(pc'[r], inst[home'[r]], healthy'[home'[r]], home'[r] \in forced)
    <2>1. CASE UNCHANGED <<pc, home, record, queue, healthy>>
        BY <2>1 DEF LifeInv
    <2>2. ASSUME NEW i \in Instances, home'[r] = i, pc'[r] \in {"refused", "accept_send"},
                 inst[i] \in {"up", "draining"} \/ (Serving(i) /\ i \in forced)
          PROVE  Fit(pc'[r], inst[i], healthy'[i], i \in forced)
        BY <2>2 DEF Fit, Left, Live, Awaited, Detached, Serving
    <2>3. CASE pc[r] \in Live /\ home'[r] = home[r]
        <3>1. home[r] \in Instances
            BY <2>3 DEF LifeInv, Live, Awaited, Detached
        <3>2. Fit(pc[r], inst[home[r]], healthy[home[r]], home[r] \in forced)
            BY <3>1 DEF LifeInv
        <3>3. healthy'[home[r]] => healthy[home[r]] BY <1>1, <3>1
        <3>4. pc'[r] = "lost" => ~healthy'[home[r]]
            BY <1>0, <1>1, <2>3, <3>1 DEF Turn, Live, Awaited, Detached, TypeOK
        <3>5. \/ pc'[r] = pc[r]
              \/ pc'[r] \in {"lost", "dropped"}
              \/ pc[r] = "final_wait" /\ pc'[r] = "unwatched"
              \/ pc[r] \in Detached /\ pc'[r] \in Detached
              \/ pc[r] \notin Detached \cup {"unwatched"} /\ pc'[r] \in Live
            BY <1>1, <2>3 DEF Turn, Live, Awaited, Detached
        <3>6. \A s : pc[r] \in Left(s) =>
                 pc'[r] \in Left(s) \/ pc'[r] \in {"lost", "dropped"}
            BY <2>3, <3>5 DEF Left, Live, Awaited, Detached
        <3>7. pc'[r] \in Live \cup {"lost", "dropped"}
            BY <2>3, <3>5 DEF Live, Awaited, Detached
        <3>8. {"lost", "dropped", "dead"} \cap Live = {} BY DEF Live, Awaited, Detached
        <3>9. Fit(pc'[r], inst[home[r]], healthy'[home[r]], home[r] \in forced)
            BY <2>3, <3>2, <3>3, <3>4, <3>6, <3>7, <3>8 DEF Fit
        <3> QED BY <2>3, <3>1, <3>9
    <2>4. \/ UNCHANGED <<pc, home, record, queue, healthy>>
          \/ \E i \in Instances :
                /\ home'[r] = i /\ pc'[r] \in {"refused", "accept_send"}
                /\ inst[i] \in {"up", "draining"} \/ (Serving(i) /\ i \in forced)
          \/ pc[r] \in Live /\ home'[r] = home[r]
        BY <1>1 DEF Turn, Live, Awaited, Detached
    <2> QED BY <2>1, <2>2, <2>3, <2>4
<1>4. ASSUME NEW q \in Requests
      PROVE  \/ home'[q] \notin Instances /\ pc'[q] \in {"new", "dead"}
             \/ /\ home'[q] \in Instances
                /\ Fit(pc'[q], inst'[home'[q]], healthy'[home'[q]], home'[q] \in forced')
    <2>1. CASE q = r BY <1>1, <1>3, <2>1
    <2>2. CASE q # r
        <3>1. \/ home[q] \notin Instances /\ pc[q] \in {"new", "dead"}
              \/ home[q] \in Instances
            BY DEF LifeInv
        <3> QED BY <1>1, <1>2, <2>2, <3>1
    <2> QED BY <2>1, <2>2
<1> QED BY <1>4 DEF LifeInv

LEMMA LifeStep == LifeInv /\ [Next]_vars => LifeInv'
<1> SUFFICES ASSUME LifeInv, [Next]_vars PROVE LifeInv' OBVIOUS
<1>0. TypeOK /\ FlowInv /\ FlowInv' BY FlowStep DEF LifeInv, FlowInv
<1> USE DEF dbVars, procVars, writeVars, reqVars
<1>a. ASSUME UNCHANGED <<pc, home, healthy, inst, forced>> PROVE LifeInv'
    BY <1>0, <1>a, LifeIdle
<1>b. ASSUME NEW i \in Instances, inst[i] \in {"unborn", "claimed", "registered"},
             NEW to, inst' = [inst EXCEPT ![i] = to], UNCHANGED <<pc, home, healthy, forced>>
      PROVE LifeInv'
    <2>1. \A r \in Requests : home[r] \in Instances => inst'[home[r]] = inst[home[r]]
        BY <1>0, <1>b, LifeYoung DEF TypeOK
    <2> QED BY <1>0, <1>b, <2>1, LifeIdle
<1>1. ASSUME NEW i \in Instances, Start(i) PROVE LifeInv'
    <2>1. UNCHANGED <<pc, home, healthy, forced>>
        BY <1>1 DEF Start, ClaimLock, Register, BootRecovery, BootFails, RecoverInFlight
    <2>2. /\ inst[i] \in {"unborn", "claimed", "registered"}
          /\ \E to : inst' = [inst EXCEPT ![i] = to]
        BY <1>1 DEF Start, ClaimLock, Register, BootRecovery, BootFails
    <2> QED BY <1>b, <2>1, <2>2
<1>2. ASSUME NEW i \in Instances, Recovery(i) PROVE LifeInv'
    BY <1>2, <1>a DEF Recovery, Sweep, RemoveLockFiles, RecoverInFlight
<1>3. ASSUME NEW i \in Instances, Writer(i) PROVE LifeInv'
    <2>1. CASE Receive(i) \/ BeginFlush(i) \/ Execute(i) \/ FlushBusy(i)
        BY <1>a, <2>1 DEF Receive, BeginFlush, Execute, FlushBusy
    <2>2. CASE Commit(i) BY <1>0, <2>2, LifeAck DEF Commit
    <2>3. ASSUME FailBatch(i) PROVE LifeInv'
        <3>1. ~healthy'[i] /\ \A j \in Instances : healthy'[j] => healthy[j]
            BY <1>0, <2>3 DEF FailBatch, TypeOK
        <3>2. Acknowledge(i, "refused", "lost") /\ UNCHANGED <<home, inst, forced>>
            BY <2>3 DEF FailBatch
        <3> QED BY <1>0, <3>1, <3>2, LifeAck
    <2>4. CASE FlushError(i) \/ FlushGivesUp(i) BY <2>3, <2>4 DEF FlushError, FlushGivesUp
    <2> QED BY <1>3, <2>1, <2>2, <2>4 DEF Writer
<1>4. ASSUME NEW i \in Instances, Shutdown(i) PROVE LifeInv'
    <2>a. ASSUME NEW from, NEW to, Step(i, from, to),
                 UNCHANGED <<pc, home, healthy>>, forced \subseteq forced',
                 \A r \in Requests : (home[r] = i /\ Fit(pc[r], from, healthy[i], i \in forced))
                    => Fit(pc[r], to, healthy[i], i \in forced')
          PROVE LifeInv'
        <3>1. inst[i] = from /\ \A j \in Instances : inst'[j] = IF j = i THEN to ELSE inst[j]
            BY <1>0, <2>a DEF Step, TypeOK
        <3>2. \A r \in Requests : home[r] = i =>
                 Fit(pc[r], from, healthy[i], i \in forced)
            BY <3>1 DEF LifeInv
        <3> QED BY <1>0, <2>a, <3>1, <3>2, LifeIdle
    <2>1. CASE Terminate(i)
        <3>1. \A r \in Requests : Fit(pc[r], "up", healthy[i], i \in forced) =>
                 Fit(pc[r], "draining", healthy[i], i \in forced)
            BY DEF Fit, Left
        <3> QED BY <2>a, <2>1, <3>1 DEF Terminate
    <2>2. CASE EndDrain(i)
        <3>1. /\ Step(i, "draining", "flushing") /\ UNCHANGED <<pc, home, healthy>>
              /\ forced \subseteq forced'
            BY <2>2 DEF EndDrain
        <3>2. \A r \in Requests : (home[r] = i /\ i \notin forced' /\ pc[r] \in Live) =>
                 pc[r] \in Detached \cup {"unwatched"}
            BY <2>2 DEF EndDrain, Of
        <3>3. \A r \in Requests : (home[r] = i /\ Fit(pc[r], "draining", healthy[i], i \in forced))
                => Fit(pc[r], "flushing", healthy[i], i \in forced')
            BY <3>2 DEF Fit, Left
        <3> QED BY <2>a, <3>1, <3>3
    <2>3. CASE CloseChannel(i)
        <3>1. /\ Step(i, "flushing", "closing") /\ UNCHANGED <<pc, home, healthy>>
              /\ forced \subseteq forced'
            BY <2>3 DEF CloseChannel
        <3>2. \A r \in Requests : (home[r] = i /\ i \notin forced') => pc[r] \notin Detached
            BY <2>3 DEF CloseChannel, Of
        <3>3. \A r \in Requests : (home[r] = i /\ Fit(pc[r], "flushing", healthy[i], i \in forced))
                => Fit(pc[r], "closing", healthy[i], i \in forced')
            BY <3>1, <3>2 DEF Fit, Left
        <3> QED BY <2>a, <3>1, <3>3
    <2>4. CASE WriterExits(i)
        <3>1. /\ Step(i, "closing", "stopped") /\ UNCHANGED <<pc, home, healthy, forced>>
              /\ queue[i] = <<>> /\ batch[i] = <<>>
            BY <2>4 DEF WriterExits
        <3>2. HeldBy(i) = {} BY <3>1 DEF HeldBy, Held
        <3>3. \A r \in Requests : home[r] = i => pc[r] # "unwatched"
            BY <1>0, <3>2 DEF FlowInv, OpGood, Waiting
        <3>4. \A r \in Requests : (home[r] = i /\ Fit(pc[r], "closing", healthy[i], i \in forced))
                => Fit(pc[r], "stopped", healthy[i], i \in forced')
            BY <3>1, <3>3 DEF Fit, Left
        <3> QED BY <2>a, <3>1, <3>4
    <2>5. CASE Release(i)
        <3>1. \A r \in Requests : Fit(pc[r], "stopped", healthy[i], i \in forced) =>
                 Fit(pc[r], "released", healthy[i], i \in forced)
            BY DEF Fit, Left
        <3> QED BY <2>a, <2>5, <3>1 DEF Release
    <2>6. CASE Exit(i) BY <1>0, <2>6, LifeVanish DEF Exit, Step
    <2> QED BY <1>4, <2>1, <2>2, <2>3, <2>4, <2>5, <2>6 DEF Shutdown
<1>5. ASSUME NEW i \in Instances, Crash(i) PROVE LifeInv'
    BY <1>0, <1>5, LifeVanish DEF Crash
<1>6. ASSUME NEW r \in Requests, Handler(r) PROVE LifeInv'
    BY <1>0, <1>6, LifeHandler
<1>7. CASE UNCHANGED vars BY <1>7, <1>a DEF vars
<1> QED BY <1>1, <1>2, <1>3, <1>4, <1>5, <1>6, <1>7 DEF Next

-----------------------------------------------------------------------------
(* The raw rows: what the open transaction has written, and what a row says of *)
(* its request. *)

\* The row an operation of instance i leaves over the row o.
Written(o, op, i) ==
    IF op.kind = "accept"
    THEN [status |-> "in_flight", stream |-> op.rec.stream, tokens |-> Unavailable,
          owner |-> i]
    ELSE FinalizedRow(o, op.rec, i)

\* The first n operations of the batch b, and nothing else, separate the working
\* copy w from the committed database d.
Progress(d, w, b, n, i) ==
    /\ n <= Len(b)
    /\ \A k \in 1..n : w.rows[b[k].req] = Written(d.rows[b[k].req], b[k], i)
    /\ \A r \in Requests : (\A k \in 1..n : b[k].req # r) => w.rows[r] = d.rows[r]

\* A row that only says the request was accepted, or is presumed interrupted.
Unmeasured(row) ==
    row # NoRow => row.tokens = Unavailable /\ row.status \in {"in_flight", "interrupted"}

\* The row agrees with where its request is: a handler in state p holding the
\* record rec, on instance h.
RowFit(row, p, rec, h) ==
    /\ p \in {"new", "accept_send", "accept_wait", "refused"} => row = NoRow
    /\ p = "settled" => /\ IsTerminalRow(row) /\ row.status = rec.status
                        /\ row.tokens = rec.tokens /\ row.stream = rec.stream
    /\ p # "settled" => Unmeasured(row)
    /\ row # NoRow => row.owner = h

RowsInv ==
    /\ ExactInv /\ FlowInv
    /\ \A r \in Requests : RowFit(db.rows[r], pc[r], record[r], home[r])
    /\ \A i \in Instances : \A op \in HeldBy(i) :
          op.kind = "accept" => db.rows[op.req] = NoRow
    /\ locker = Nobody => work = db
    /\ locker # Nobody => Progress(db, work, batch[locker], applied, locker)

\* One more statement of the transaction.  Two operations of one request never
\* share a batch, so no accept is superseded.
LEMMA ApplyProgress ==
    ASSUME NEW d \in Database, NEW w \in Database, NEW b \in Seq(Op), NEW n \in Nat,
           n < Len(b), NEW i \in Instances, Progress(d, w, b, n, i),
           \A j, k \in DOMAIN b : b[j].req = b[k].req => j = k,
           b[n + 1].kind = "accept" => d.rows[b[n + 1].req] = NoRow
    PROVE  Progress(d, ApplyOp(w, b[n + 1], b, i), b, n + 1, i)
<1> DEFINE op == b[n + 1]
           v == ApplyOp(w, op, b, i)
<1>1. Len(b) \in Nat /\ DOMAIN b = 1..Len(b) /\ n + 1 \in DOMAIN b OBVIOUS
<1>2. op \in Op /\ \A k \in DOMAIN b : b[k] \in Op BY <1>1
<1>3. /\ op.req \in Requests /\ op.kind \in {"accept", "finalize"}
      /\ \A k \in DOMAIN b : b[k].req \in Requests
    <2>1. \A o \in Op : o.req \in Requests /\ o.kind \in {"accept", "finalize"}
        BY DEF Op
    <2> QED BY <1>2, <2>1
<1>4. \A k \in 1..n : k \in DOMAIN b /\ k # n + 1 BY <1>1
<1>5. \A k \in 1..n : b[k].req # op.req BY <1>1, <1>4
<1>6. w.rows[op.req] = d.rows[op.req] BY <1>3, <1>5 DEF Progress
<1>7. ~Superseded(op, b) BY <1>1 DEF Superseded
<1>8. w.rows \in [Requests -> Row \cup {NoRow}] BY DEF Database
<1> HIDE DEF op
<1>9. /\ v.rows[op.req] = Written(d.rows[op.req], op, i)
      /\ \A r \in Requests : r # op.req => v.rows[r] = w.rows[r]
    <2>1. CASE op.kind = "accept"
        <3>1. w.rows[op.req] = NoRow BY <1>6, <2>1 DEF op
        <3>2. v = InsertAccept(w, op.req, op.rec, i) BY <1>7, <2>1 DEF ApplyOp
        <3> HIDE DEF v
        <3>3. v.rows = [w.rows EXCEPT ![op.req] =
                          [status |-> "in_flight", stream |-> op.rec.stream,
                           tokens |-> Unavailable, owner |-> i]]
            BY <3>1, <3>2 DEF InsertAccept, Database
        <3> QED BY <1>3, <1>8, <2>1, <3>3 DEF Written
    <2>2. CASE op.kind = "finalize"
        <3>1. v = FinalizeRecord(w, op.req, op.rec, i) BY <1>7, <2>2 DEF ApplyOp
        <3> HIDE DEF v
        <3>2. v.rows = [w.rows EXCEPT ![op.req] = FinalizedRow(w.rows[op.req], op.rec, i)]
            BY <3>1 DEF FinalizeRecord
        <3> QED BY <1>3, <1>6, <1>8, <2>2, <3>2 DEF Written
    <2> QED BY <1>3, <2>1, <2>2
<1> HIDE DEF v
<1>10. \A k \in 1..(n + 1) : k \in 1..n \/ (k = n + 1 /\ b[k] = op) BY DEF op
<1>11. ASSUME NEW k \in 1..(n + 1)
       PROVE  v.rows[b[k].req] = Written(d.rows[b[k].req], b[k], i)
    <2>1. CASE k \in 1..n
        <3>1. b[k].req \in Requests /\ b[k].req # op.req BY <1>3, <1>4, <1>5, <2>1
        <3>2. v.rows[b[k].req] = w.rows[b[k].req] BY <1>9, <3>1
        <3> QED BY <2>1, <3>2 DEF Progress
    <2>2. CASE k = n + 1 /\ b[k] = op BY <1>9, <2>2
    <2> QED BY <1>10, <2>1, <2>2
<1>12. ASSUME NEW r \in Requests, \A k \in 1..(n + 1) : b[k].req # r
       PROVE  v.rows[r] = d.rows[r]
    <2>1. r # op.req BY <1>12 DEF op
    <2>2. \A k \in 1..n : b[k].req # r BY <1>12
    <2> QED BY <1>9, <2>1, <2>2 DEF Progress
<1>13. n + 1 <= Len(b) BY <1>1
<1> QED BY <1>11, <1>12, <1>13 DEF Progress, v, op

LEMMA RowsInit == Init => RowsInv
<1> SUFFICES ASSUME Init PROVE RowsInv OBVIOUS
<1>1. ExactInv /\ FlowInv BY ExactInit, FlowInit
<1>2. locker = Nobody /\ work = db BY DEF Init
<1>3. \A i \in Instances : HeldBy(i) = {} BY DEF Init, HeldBy, Held
<1>4. ASSUME NEW r \in Requests PROVE RowFit(db.rows[r], pc[r], record[r], home[r])
    <2>1. db.rows[r] = InitRows[r] /\ home[r] = NoOwner BY DEF Init
    <2>2. CASE r \in Legacy
        <3>1. pc[r] = "dead" BY <2>2 DEF Init
        <3>2. db.rows[r] = [status |-> "in_flight", stream |-> FALSE,
                            tokens |-> Unavailable, owner |-> NoOwner]
            BY <2>1, <2>2 DEF InitRows
        <3> QED BY <2>1, <3>1, <3>2 DEF RowFit, Unmeasured
    <2>3. CASE r \notin Legacy
        <3>1. pc[r] = "new" BY <2>3 DEF Init
        <3>2. db.rows[r] = NoRow BY <2>1, <2>3 DEF InitRows
        <3> QED BY <3>1, <3>2 DEF RowFit, Unmeasured
    <2> QED BY <2>2, <2>3
<1> QED BY <1>1, <1>2, <1>3, <1>4 DEF RowsInv

\* A step that writes nothing to the tables.
LEMMA RowsIdle ==
    ASSUME RowsInv, ExactInv', FlowInv', UNCHANGED <<db, work, locker, applied>>,
           locker # Nobody => batch'[locker] = batch[locker],
           \A r \in Requests : RowFit(db.rows[r], pc'[r], record'[r], home'[r]),
           \A i \in Instances : \A op \in HeldBy(i)' :
              op \in HeldBy(i) \/ db.rows[op.req] = NoRow
    PROVE  RowsInv'
<1>1. \A r \in Requests : RowFit(db.rows[r], pc[r], record[r], home[r])' OBVIOUS
<1>2. ASSUME NEW i \in Instances, NEW op \in HeldBy(i)', op.kind = "accept"
      PROVE  db'.rows[op.req] = NoRow
    BY <1>2 DEF RowsInv
<1>3. locker' = Nobody => work' = db' BY DEF RowsInv
<1>4. locker' # Nobody => Progress(db, work, batch[locker], applied, locker)'
    BY DEF RowsInv
<1> QED BY <1>1, <1>2, <1>3, <1>4 DEF RowsInv

\* No transaction is open after the step and the committed rows are kept.
LEMMA RowsClosed ==
    ASSUME RowsInv, ExactInv', FlowInv', db' = db, work' = db, locker' = Nobody,
           \A r \in Requests : RowFit(db.rows[r], pc'[r], record'[r], home'[r]),
           \A i \in Instances : HeldBy(i)' \subseteq HeldBy(i)
    PROVE  RowsInv'
<1>1. \A r \in Requests : RowFit(db.rows[r], pc[r], record[r], home[r])' OBVIOUS
<1>2. ASSUME NEW i \in Instances, NEW op \in HeldBy(i)', op.kind = "accept"
      PROVE  db'.rows[op.req] = NoRow
    BY <1>2 DEF RowsInv
<1> QED BY <1>1, <1>2 DEF RowsInv

LEMMA HeldDropped ==
    ASSUME TypeOK, NEW i \in Instances, batch' = [batch EXCEPT ![i] = <<>>],
           queue' = queue \/ queue' = [queue EXCEPT ![i] = <<>>]
    PROVE  \A j \in Instances : HeldBy(j)' \subseteq HeldBy(j)
<1>1. \A j \in Instances : /\ batch'[j] = batch[j] \/ batch'[j] = <<>>
                           /\ queue'[j] = queue[j] \/ queue'[j] = <<>>
    BY DEF TypeOK
<1> QED BY <1>1 DEF HeldBy, Held

\* What a commit does to one request: it is not in the batch, or its accept is
\* now durable, or its finalize is and its handler is told.
LEMMA CommitWrites ==
    ASSUME RowsInv, NEW i \in Instances, Commit(i), NEW r \in Requests
    PROVE  \/ work.rows[r] = db.rows[r] /\ pc'[r] = pc[r]
           \/ /\ db.rows[r] = NoRow /\ home[r] = i
              /\ work.rows[r] # NoRow /\ Unmeasured(work.rows[r]) /\ work.rows[r].owner = i
              /\ \/ pc[r] = "accept_wait" /\ pc'[r] = "accepted"
                 \/ pc[r] = "dropped" /\ pc'[r] = "dropped"
           \/ /\ home[r] = i /\ pc[r] \in Waiting /\ pc'[r] = "settled"
              /\ record[r].status \in Terminal
              /\ work.rows[r] = FinalizedRow(db.rows[r], record[r], i)
<1>0. TypeOK BY DEF RowsInv, FlowInv
<1> DEFINE b == batch[i]
<1>1. /\ locker = i /\ applied = Len(b) /\ i # Nobody /\ Acknowledge(i, "accepted", "settled")
    BY NobodyFresh DEF Commit
<1>2. /\ b \in Seq(Op) /\ DOMAIN b = 1..Len(b) /\ Progress(db, work, b, Len(b), i)
    BY <1>0, <1>1 DEF TypeOK, RowsInv
<1>3. /\ \A k \in DOMAIN b : b[k] \in HeldBy(i)
      /\ \A j, k \in DOMAIN b : b[j].req = b[k].req => j = k
    BY DEF HeldBy, Held, RowsInv, FlowInv, Distinct
<1>4. CASE \A k \in DOMAIN b : b[k].req # r
    <2>1. work.rows[r] = db.rows[r] BY <1>2, <1>4 DEF Progress
    <2>2. pc'[r] = pc[r] BY <1>1, <1>4 DEF Acknowledge, InBatch
    <2> QED BY <2>1, <2>2
<1>5. CASE \E k \in DOMAIN b : b[k].req = r
    <2>1. PICK k \in DOMAIN b : b[k].req = r BY <1>5
    <2>2. PICK op : op = b[k] OBVIOUS
    <2>3. /\ op \in HeldBy(i) /\ op.req = r /\ OpGood(op, i)
          /\ op.kind \in {"accept", "finalize"} /\ op \in Op
        BY <1>0, <1>3, <2>1, <2>2, HeldAreOps DEF RowsInv, FlowInv
    <2>4. work.rows[r] = Written(db.rows[r], op, i)
        BY <1>2, <2>1, <2>2 DEF Progress
    <2>5. \A kind : InBatch(i, r, kind) <=> kind = op.kind
        BY <1>3, <2>1, <2>2 DEF InBatch
    <2>6. pc'[r] = IF pc[r] = "accept_wait" /\ InBatch(i, r, "accept") THEN "accepted"
                   ELSE IF pc[r] \in Waiting /\ InBatch(i, r, "finalize") THEN "settled"
                   ELSE pc[r]
        BY <1>1 DEF Acknowledge, Waiting
    <2>7. CASE op.kind = "accept"
        <3>1. /\ db.rows[r] = NoRow /\ home[r] = i /\ pc[r] \in {"accept_wait", "dropped"}
            BY <2>3, <2>7 DEF RowsInv, OpGood
        <3>2. /\ work.rows[r] = [status |-> "in_flight", stream |-> op.rec.stream,
                                 tokens |-> Unavailable, owner |-> i]
            BY <2>4, <2>7 DEF Written
        <3>3. work.rows[r] \in Row BY <2>3, <3>2 DEF Row, Statuses, Op, RequestRecord
        <3>4. /\ work.rows[r] # NoRow /\ Unmeasured(work.rows[r])
              /\ work.rows[r].owner = i
            BY <3>2, <3>3, NoRowFresh DEF Unmeasured
        <3>5. pc'[r] = IF pc[r] = "accept_wait" THEN "accepted" ELSE pc[r]
            BY <2>5, <2>6, <2>7
        <3> QED BY <3>1, <3>4, <3>5
    <2>8. CASE op.kind = "finalize"
        <3>1. home[r] = i /\ pc[r] \in Waiting /\ op.rec = record[r]
            BY <2>3, <2>8 DEF OpGood
        <3>2. op.rec.status \in Terminal
            BY <2>1, <2>2, <2>8 DEF RowsInv, ExactInv, FinalizeTerminal
        <3>3. pc'[r] = "settled" BY <2>5, <2>6, <2>8, <3>1 DEF Waiting
        <3>4. work.rows[r] = FinalizedRow(db.rows[r], record[r], i)
            BY <2>4, <2>8, <3>1 DEF Written
        <3> QED BY <3>1, <3>2, <3>3, <3>4
    <2> QED BY <2>3, <2>7, <2>8
<1> QED BY <1>4, <1>5

LEMMA RowsCommit ==
    ASSUME RowsInv, ExactInv', FlowInv', NEW i \in Instances, Commit(i)
    PROVE  RowsInv'
<1>0. TypeOK BY DEF RowsInv, FlowInv
<1>1. /\ db' = work /\ work' = work /\ locker' = Nobody /\ UNCHANGED <<queue, home, record>>
      /\ batch' = [batch EXCEPT ![i] = <<>>]
    BY DEF Commit
<1>2. ASSUME NEW r \in Requests PROVE RowFit(work.rows[r], pc'[r], record[r], home[r])
    <2>1. RowFit(db.rows[r], pc[r], record[r], home[r]) BY DEF RowsInv
    <2>2. CASE work.rows[r] = db.rows[r] /\ pc'[r] = pc[r] BY <2>1, <2>2
    <2>3. CASE /\ db.rows[r] = NoRow /\ home[r] = i
               /\ work.rows[r] # NoRow /\ Unmeasured(work.rows[r])
               /\ work.rows[r].owner = i
               /\ \/ pc[r] = "accept_wait" /\ pc'[r] = "accepted"
                  \/ pc[r] = "dropped" /\ pc'[r] = "dropped"
        BY <2>3 DEF RowFit
    <2>4. CASE /\ home[r] = i /\ pc[r] \in Waiting /\ pc'[r] = "settled"
               /\ record[r].status \in Terminal
               /\ work.rows[r] = FinalizedRow(db.rows[r], record[r], i)
        <3>1. /\ db.rows[r] \in Row \cup {NoRow} /\ record[r] \in RequestRecord
              /\ db.rows[r] # NoRow => db.rows[r].owner = i
            BY <1>0, <2>1, <2>4 DEF TypeOK, Database, RowFit
        <3>2. work.rows[r] \in Row BY <2>4, <3>1, FinalizedRowType
        <3>3. work.rows[r] # NoRow BY <3>2, NoRowFresh
        <3>4. /\ work.rows[r].status = record[r].status
              /\ work.rows[r].tokens = record[r].tokens
              /\ work.rows[r].stream = record[r].stream
              /\ work.rows[r].owner = i
            BY <2>4, <3>1 DEF FinalizedRow
        <3> QED BY <2>4, <3>3, <3>4 DEF RowFit, IsTerminalRow
    <2> QED BY <2>2, <2>3, <2>4, CommitWrites
<1>3. \A j \in Instances : HeldBy(j)' \subseteq HeldBy(j) BY <1>0, <1>1, HeldDropped
<1>4. ASSUME NEW j \in Instances, NEW op \in HeldBy(j)', op.kind = "accept"
      PROVE  work.rows[op.req] = NoRow
    <2>1. op \in HeldBy(j) /\ op.req \in Requests BY <1>0, <1>3, <1>4, HeldAreOps
    <2>2. db.rows[op.req] = NoRow BY <1>4, <2>1 DEF RowsInv
    <2>3. pc'[op.req] \in {"accept_wait", "dropped"} /\ home[op.req] = j
        BY <1>1, <1>4 DEF FlowInv, OpGood
    <2>4. CASE work.rows[op.req] = db.rows[op.req] BY <2>2, <2>4
    <2>5. CASE pc[op.req] = "dropped" /\ j = i /\ work.rows[op.req] # db.rows[op.req]
        <3>1. \A k \in DOMAIN batch[i] : batch[i][k].req # op.req
            <4>1. Distinct(batch[i], queue[i]) BY DEF RowsInv, FlowInv
            <4>2. op \in Held(<<>>, queue[i])
                BY <1>0, <1>1, <1>4, <2>5 DEF HeldBy, TypeOK
            <4> QED BY <4>1, <4>2, HeldDrop
        <3>2. /\ batch[i] \in Seq(Op) /\ DOMAIN batch[i] = 1..Len(batch[i])
              /\ locker = i /\ i # Nobody /\ applied = Len(batch[i])
            BY <1>0, NobodyFresh DEF TypeOK, Commit
        <3>3. Progress(db, work, batch[i], Len(batch[i]), i) BY <3>2 DEF RowsInv
        <3>4. work.rows[op.req] = db.rows[op.req] BY <2>1, <3>1, <3>2, <3>3 DEF Progress
        <3> QED BY <2>5, <3>4
    <2> QED BY <2>1, <2>2, <2>3, <2>4, <2>5, CommitWrites
<1>5. \A r \in Requests : RowFit(db.rows[r], pc[r], record[r], home[r])' BY <1>1, <1>2
<1> QED BY <1>1, <1>4, <1>5 DEF RowsInv

LEMMA RowsExecute ==
    ASSUME RowsInv, ExactInv', FlowInv', NEW i \in Instances, Execute(i)
    PROVE  RowsInv'
<1>0. TypeOK BY DEF RowsInv, FlowInv
<1>1. /\ locker = i /\ i # Nobody /\ applied < Len(batch[i]) /\ applied' = applied + 1
      /\ work' = ApplyOp(work, batch[i][applied + 1], batch[i], i)
      /\ UNCHANGED <<db, locker, batch, queue, pc, home, record>>
    BY NobodyFresh DEF Execute, writeVars, reqVars
<1>2. /\ batch[i] \in Seq(Op) /\ applied \in Nat /\ db \in Database /\ work \in Database
    BY <1>0 DEF TypeOK
<1>3. Progress(db, work, batch[i], applied, i) BY <1>1 DEF RowsInv
<1>4. /\ \A j, k \in DOMAIN batch[i] : batch[i][j].req = batch[i][k].req => j = k
      /\ \A k \in DOMAIN batch[i] : batch[i][k] \in HeldBy(i)
    BY DEF RowsInv, FlowInv, Distinct, HeldBy, Held
<1>5. applied + 1 \in DOMAIN batch[i] BY <1>1, <1>2
<1>6. batch[i][applied + 1].kind = "accept" => db.rows[batch[i][applied + 1].req] = NoRow
    BY <1>4, <1>5 DEF RowsInv
<1>7. Progress(db, ApplyOp(work, batch[i][applied + 1], batch[i], i), batch[i],
               applied + 1, i)
    BY <1>1, <1>2, <1>3, <1>4, <1>6, ApplyProgress
<1>8. Progress(db', work', batch'[locker'], applied', locker') BY <1>1, <1>7
<1>9. \A j \in Instances : HeldBy(j)' = HeldBy(j) BY <1>1 DEF HeldBy
<1>10. \A r \in Requests : RowFit(db.rows[r], pc[r], record[r], home[r])'
    BY <1>1 DEF RowsInv
<1>11. ASSUME NEW j \in Instances, NEW op \in HeldBy(j)', op.kind = "accept"
       PROVE  db'.rows[op.req] = NoRow
    BY <1>1, <1>9, <1>11 DEF RowsInv
<1> QED BY <1>1, <1>8, <1>10, <1>11 DEF RowsInv

\* A recovery pass ends rows in flight and nothing else.
LEMMA RecoverWrites ==
    ASSUME TypeOK, NEW i \in Instances, RecoverInFlight(i), NEW r \in Requests
    PROVE  \/ db'.rows[r] = db.rows[r]
           \/ /\ IsInFlightRow(db.rows[r]) /\ db'.rows[r] # NoRow
              /\ db'.rows[r] = [db.rows[r] EXCEPT !.status = "interrupted"]
<1>1. PICK dead, unknown : db' = RecoverRows(db, Stranded(dead, unknown))
    BY DEF RecoverInFlight
<1>2. db'.rows[r] = IF r \in Stranded(dead, unknown)
                    THEN [db.rows[r] EXCEPT !.status = "interrupted"] ELSE db.rows[r]
    BY <1>1 DEF RecoverRows
<1>3. CASE r \in Stranded(dead, unknown)
    <2>1. IsInFlightRow(db.rows[r]) BY <1>3, StrandedExist
    <2>2. db.rows[r] \in Row BY <2>1 DEF TypeOK, Database, IsInFlightRow
    <2>3. [db.rows[r] EXCEPT !.status = "interrupted"] \in Row
        BY <2>2 DEF Row, Statuses
    <2> QED BY <1>2, <1>3, <2>1, <2>3, NoRowFresh
<1> QED BY <1>2, <1>3

LEMMA RowsRecover ==
    ASSUME RowsInv, ExactInv', FlowInv', NEW i \in Instances, RecoverInFlight(i)
    PROVE  RowsInv'
<1>0. TypeOK BY DEF RowsInv, FlowInv
<1>1. /\ work' = db' /\ locker' = Nobody
      /\ UNCHANGED <<queue, batch, pc, home, record>>
    BY DEF RecoverInFlight, writeVars, reqVars
<1>2. ASSUME NEW r \in Requests PROVE RowFit(db'.rows[r], pc[r], record[r], home[r])
    <2>1. RowFit(db.rows[r], pc[r], record[r], home[r]) BY DEF RowsInv
    <2>2. CASE db'.rows[r] = db.rows[r] BY <2>1, <2>2
    <2>3. CASE /\ IsInFlightRow(db.rows[r]) /\ db'.rows[r] # NoRow
               /\ db'.rows[r] = [db.rows[r] EXCEPT !.status = "interrupted"]
        <3>1. db.rows[r] \in Row /\ db.rows[r] # NoRow /\ db.rows[r].status = "in_flight"
            BY <1>0, <2>3 DEF TypeOK, Database, IsInFlightRow
        <3>2. /\ db'.rows[r].status = "interrupted"
              /\ db'.rows[r].tokens = db.rows[r].tokens
              /\ db'.rows[r].owner = db.rows[r].owner
            BY <2>3, <3>1 DEF Row
        <3>3. pc[r] # "settled" BY <2>1, <3>1 DEF RowFit, IsTerminalRow, Terminal
        <3> QED BY <2>1, <2>3, <3>1, <3>2, <3>3 DEF RowFit, Unmeasured
    <2> QED BY <1>0, <2>2, <2>3, RecoverWrites
<1>3. \A r \in Requests : RowFit(db.rows[r], pc[r], record[r], home[r])' BY <1>1, <1>2
<1>4. \A j \in Instances : HeldBy(j)' = HeldBy(j) BY <1>1 DEF HeldBy
<1>5. ASSUME NEW j \in Instances, NEW op \in HeldBy(j)', op.kind = "accept"
      PROVE  db'.rows[op.req] = NoRow
    <2>1. op.req \in Requests /\ db.rows[op.req] = NoRow
        BY <1>0, <1>4, <1>5, HeldAreOps DEF RowsInv
    <2> QED BY <1>0, <2>1, RecoverWrites DEF IsInFlightRow
<1> QED BY <1>1, <1>3, <1>5 DEF RowsInv

LEMMA RowsHandler ==
    ASSUME RowsInv, ExactInv', FlowInv', NEW r \in Requests, Handler(r)
    PROVE  RowsInv'
<1>0. TypeOK BY DEF RowsInv, FlowInv
<1>1. /\ Turn(r) /\ UNCHANGED <<db, work, locker, applied, batch>>
      /\ \A q \in Requests \ {r} : /\ pc'[q] = pc[q] /\ home'[q] = home[q]
                                   /\ record'[q] = record[q]
    BY <1>0, HandlerTurn DEF dbVars
<1>2. RowFit(db.rows[r], pc[r], record[r], home[r]) BY DEF RowsInv
<1>3. RowFit(db.rows[r], pc'[r], record'[r], home'[r])
    <2>1. CASE UNCHANGED <<pc, home, record, queue, healthy>> BY <1>2, <2>1
    <2>2. CASE pc[r] = "new" /\ pc'[r] \in {"refused", "accept_send"}
        BY <1>2, <2>2 DEF RowFit, Unmeasured
    <2>3. CASE pc[r] = "accept_send" /\ pc'[r] = "accept_wait"
        BY <1>2, <2>3 DEF RowFit, Unmeasured
    <2>4. CASE /\ home'[r] = home[r] /\ pc[r] # "settled"
               /\ pc'[r] \notin {"new", "accept_send", "accept_wait", "refused", "settled"}
        BY <1>2, <2>4 DEF RowFit
    <2> QED BY <1>1, <2>1, <2>2, <2>3, <2>4 DEF Turn, Awaited
<1>4. \A q \in Requests : RowFit(db.rows[q], pc'[q], record'[q], home'[q])
    BY <1>1, <1>3 DEF RowsInv
<1>5. ASSUME NEW j \in Instances, NEW op \in HeldBy(j)'
      PROVE  op \in HeldBy(j) \/ op.kind = "finalize" \/ db.rows[op.req] = NoRow
    <2>1. CASE queue' = queue BY <1>1, <1>5, <2>1 DEF HeldBy
    <2>2. ASSUME NEW i \in Instances, NEW from, NEW to, NEW kind,
                 Send(r, i, from, to, kind),
                 \/ kind = "finalize"
                 \/ from = "accept_send"
          PROVE  op \in HeldBy(j) \/ op.kind = "finalize" \/ db.rows[op.req] = NoRow
        <3>1. PICK o : o = [kind |-> kind, req |-> r, rec |-> record[r]] OBVIOUS
        <3>2. /\ pc[r] = from /\ o.kind = kind /\ o.req = r
              /\ \A k \in Instances :
                    queue'[k] = IF k = i THEN Append(queue[i], o) ELSE queue[k]
            BY <1>0, <2>2, <3>1 DEF Send, TypeOK
        <3>3. from = "accept_send" => db.rows[r] = NoRow BY <1>2, <3>2 DEF RowFit
        <3>4. CASE j # i BY <1>1, <1>5, <3>2, <3>4 DEF HeldBy
        <3>5. CASE j = i
            <4>1. queue[i] \in Seq(Op) BY <1>0 DEF TypeOK
            <4>2. /\ DOMAIN Append(queue[i], o) = 1..(Len(queue[i]) + 1)
                  /\ \A k \in 1..(Len(queue[i]) + 1) :
                        \/ k \in DOMAIN queue[i] /\ Append(queue[i], o)[k] = queue[i][k]
                        \/ Append(queue[i], o)[k] = o
                BY <4>1
            <4>3. HeldBy(j)' = Held(batch[i], Append(queue[i], o))
                BY <1>1, <3>2, <3>5 DEF HeldBy
            <4>4. op \in Held(batch[i], Append(queue[i], o)) BY <1>5, <4>3
            <4>5. op \in Held(batch[i], queue[i]) \/ op = o
                BY <4>2, <4>4 DEF Held
            <4>6. op \in HeldBy(j) \/ op = o BY <3>5, <4>5 DEF HeldBy
            <4> QED BY <2>2, <3>2, <3>3, <4>6
        <3> QED BY <3>4, <3>5
    <2> QED BY <1>1, <2>1, <2>2 DEF Turn
<1>6. ASSUME NEW j \in Instances, NEW op \in HeldBy(j)', op.kind = "accept"
      PROVE  db'.rows[op.req] = NoRow
    BY <1>1, <1>5, <1>6 DEF RowsInv
<1>7. locker' # Nobody => Progress(db, work, batch[locker], applied, locker)'
    BY <1>1 DEF RowsInv
<1>8. \A q \in Requests : RowFit(db.rows[q], pc[q], record[q], home[q])' BY <1>1, <1>4
<1> QED BY <1>1, <1>6, <1>7, <1>8 DEF RowsInv

LEMMA RowsStep == RowsInv /\ [Next]_vars => RowsInv'
<1> SUFFICES ASSUME RowsInv, [Next]_vars PROVE RowsInv' OBVIOUS
<1>0. TypeOK /\ ExactInv' /\ FlowInv' BY ExactStep, FlowStep DEF RowsInv, FlowInv
<1> USE DEF dbVars, procVars, writeVars, reqVars
<1>r. \A r \in Requests : RowFit(db.rows[r], pc[r], record[r], home[r]) BY DEF RowsInv
<1>a. ASSUME UNCHANGED <<db, work, locker, applied, queue, batch, pc, home, record>>
      PROVE RowsInv'
    <2>1. \A i \in Instances : HeldBy(i)' = HeldBy(i) BY <1>a DEF HeldBy
    <2> QED BY <1>0, <1>r, <1>a, <2>1, RowsIdle
<1>f. ASSUME NEW i \in Instances, FailBatch(i)
      PROVE  /\ \A r \in Requests : RowFit(db.rows[r], pc'[r], record'[r], home'[r])
             /\ \A j \in Instances : HeldBy(j)' \subseteq HeldBy(j)
    <2>1. /\ UNCHANGED <<home, record, queue>> /\ Acknowledge(i, "refused", "lost")
          /\ batch' = [batch EXCEPT ![i] = <<>>]
        BY <1>f DEF FailBatch
    <2>2. \A r \in Requests : \/ pc'[r] = pc[r]
                              \/ pc[r] = "accept_wait" /\ pc'[r] = "refused"
                              \/ pc[r] \in Waiting /\ pc'[r] = "lost"
        BY <2>1 DEF Acknowledge, Waiting
    <2>3. \A r \in Requests : RowFit(db.rows[r], pc'[r], record[r], home[r])
        BY <1>r, <2>2 DEF RowFit, Waiting
    <2> QED BY <1>0, <2>1, <2>3, HeldDropped
<1>v. ASSUME NEW i \in Instances, Vanish(i) PROVE RowsInv'
    <2>1. /\ UNCHANGED <<db, home, record>> /\ batch' = [batch EXCEPT ![i] = <<>>]
          /\ queue' = [queue EXCEPT ![i] = <<>>]
          /\ \A r \in Requests : pc'[r] = pc[r] \/ (pc[r] \in Live /\ pc'[r] = "dead")
          /\ \/ locker = i /\ work' = db /\ locker' = Nobody
             \/ locker # i /\ UNCHANGED <<work, locker, applied>>
        BY <1>v DEF Vanish
    <2>2. \A r \in Requests : RowFit(db.rows[r], pc'[r], record'[r], home'[r])
        BY <1>r, <2>1 DEF RowFit, Live, Awaited, Detached
    <2>3. \A j \in Instances : HeldBy(j)' \subseteq HeldBy(j) BY <1>0, <2>1, HeldDropped
    <2>4. CASE locker = i /\ work' = db /\ locker' = Nobody
        BY <1>0, <2>1, <2>2, <2>3, <2>4, RowsClosed
    <2>5. CASE locker # i /\ UNCHANGED <<work, locker, applied>>
        <3>1. locker # Nobody => batch'[locker] = batch[locker]
            BY <1>0, <2>1, <2>5 DEF TypeOK
        <3> QED BY <1>0, <2>1, <2>2, <2>3, <2>5, <3>1, RowsIdle
    <2> QED BY <2>1, <2>4, <2>5
<1>1. ASSUME NEW i \in Instances, Start(i) PROVE RowsInv'
    <2>1. CASE ClaimLock(i) \/ Register(i) \/ BootFails(i)
        BY <1>a, <2>1 DEF ClaimLock, Register, BootFails
    <2>2. CASE BootRecovery(i) BY <1>0, <2>2, RowsRecover DEF BootRecovery
    <2> QED BY <1>1, <2>1, <2>2 DEF Start
<1>2. ASSUME NEW i \in Instances, Recovery(i) PROVE RowsInv'
    <2>1. CASE Sweep(i) BY <1>0, <2>1, RowsRecover DEF Sweep
    <2>2. CASE RemoveLockFiles(i) BY <1>a, <2>2 DEF RemoveLockFiles
    <2> QED BY <1>2, <2>1, <2>2 DEF Recovery
<1>3. ASSUME NEW i \in Instances, Writer(i) PROVE RowsInv'
    <2>1. CASE Receive(i)
        <3>1. /\ UNCHANGED <<db, work, locker, applied, pc, home, record>>
              /\ locker # i /\ queue[i] # <<>>
              /\ batch[i] \in Seq(Op) /\ queue[i] \in Seq(Op) /\ Distinct(batch[i], queue[i])
            BY <1>0, <2>1 DEF Receive, TypeOK, RowsInv, FlowInv
        <3>2. \A j \in Instances :
                /\ batch'[j] = IF j = i THEN Append(batch[i], Head(queue[i])) ELSE batch[j]
                /\ queue'[j] = IF j = i THEN Tail(queue[i]) ELSE queue[j]
            BY <1>0, <2>1 DEF TypeOK, Receive
        <3>3. \A j \in Instances : HeldBy(j)' = HeldBy(j)
            BY <3>1, <3>2, HeldReceive DEF HeldBy
        <3>4. locker # Nobody => batch'[locker] = batch[locker]
            BY <1>0, <3>1, <3>2 DEF TypeOK
        <3> QED BY <1>0, <1>r, <3>1, <3>3, <3>4, RowsIdle
    <2>2. CASE BeginFlush(i)
        <3>1. /\ locker' = i /\ applied' = 0 /\ work' = db /\ i # Nobody
              /\ UNCHANGED <<db, batch, queue, pc, home, record>>
            BY <2>2, NobodyFresh DEF BeginFlush
        <3>2. batch[i] \in Seq(Op) BY <1>0 DEF TypeOK
        <3>3. Progress(db, db, batch[i], 0, i) BY <3>2 DEF Progress
        <3>4. Progress(db, work, batch[locker], applied, locker)' BY <3>1, <3>3
        <3>5. \A j \in Instances : HeldBy(j)' = HeldBy(j) BY <3>1 DEF HeldBy
        <3>6. \A r \in Requests : RowFit(db.rows[r], pc[r], record[r], home[r])'
            BY <1>r, <3>1
        <3>7. ASSUME NEW j \in Instances, NEW op \in HeldBy(j)', op.kind = "accept"
              PROVE  db'.rows[op.req] = NoRow
            BY <3>1, <3>5, <3>7 DEF RowsInv
        <3> QED BY <1>0, <3>1, <3>4, <3>6, <3>7 DEF RowsInv
    <2>3. CASE Execute(i) BY <1>0, <2>3, RowsExecute
    <2>4. CASE Commit(i) BY <1>0, <2>4, RowsCommit
    <2>5. CASE FlushBusy(i) BY <1>a, <2>5 DEF FlushBusy
    <2>6. CASE FlushError(i)
        <3>1. FailBatch(i) /\ db' = db /\ work' = db /\ locker' = Nobody
            BY <2>6 DEF FlushError
        <3> QED BY <1>0, <1>f, <3>1, RowsClosed
    <2>7. CASE FlushGivesUp(i)
        <3>1. FailBatch(i) /\ UNCHANGED <<db, work, locker, applied>> /\ locker # i
            BY <2>7 DEF FlushGivesUp
        <3>2. locker # Nobody => batch'[locker] = batch[locker]
            BY <1>0, <3>1 DEF FailBatch, TypeOK
        <3> QED BY <1>0, <1>f, <3>1, <3>2, RowsIdle
    <2> QED BY <1>3, <2>1, <2>2, <2>3, <2>4, <2>5, <2>6, <2>7 DEF Writer
<1>4. ASSUME NEW i \in Instances, Shutdown(i) PROVE RowsInv'
    <2>1. CASE Terminate(i) \/ EndDrain(i) \/ CloseChannel(i) \/ WriterExits(i) \/ Release(i)
        BY <1>a, <2>1 DEF Terminate, EndDrain, CloseChannel, WriterExits, Release
    <2>2. CASE Exit(i) BY <1>v, <2>2 DEF Exit
    <2> QED BY <1>4, <2>1, <2>2 DEF Shutdown
<1>5. ASSUME NEW i \in Instances, Crash(i) PROVE RowsInv' BY <1>5, <1>v DEF Crash
<1>6. ASSUME NEW r \in Requests, Handler(r) PROVE RowsInv' BY <1>0, <1>6, RowsHandler
<1>7. CASE UNCHANGED vars BY <1>7, <1>a DEF vars
<1> QED BY <1>1, <1>2, <1>3, <1>4, <1>5, <1>6, <1>7 DEF Next

\* Once a finalize is acknowledged, its row holds what its handler measured and no
\* recovery pass, later write, failed commit or crash takes it back.
THEOREM AcknowledgedStays == Spec => []AcknowledgedIsDurable
<1>1. Init => RowsInv BY RowsInit
<1>2. RowsInv /\ [Next]_vars => RowsInv' BY RowsStep
<1>3. RowsInv => AcknowledgedIsDurable BY DEF RowsInv, RowFit, AcknowledgedIsDurable
<1> QED BY <1>1, <1>2, <1>3, PTL DEF Spec

\* An in-flight row of a running process has a handler behind it, or a lost write
\* its writer's health reports, or a handler its client dropped.
THEOREM InFlightAlwaysExplained == Spec => []InFlightExplained
<1>1. Init => RowsInv /\ LifeInv BY RowsInit, LifeInit
<1>2. RowsInv /\ LifeInv /\ [Next]_vars => (RowsInv /\ LifeInv)' BY RowsStep, LifeStep
<1>3. RowsInv /\ LifeInv => InFlightExplained
    <2> SUFFICES ASSUME RowsInv, LifeInv, NEW r \in Requests, NEW i \in Instances,
                        IsInFlightRow(db.rows[r]), db.rows[r].owner = i, Alive(i)
                 PROVE  \/ pc[r] \in Live \cup {"dropped"}
                        \/ pc[r] = "lost" /\ ~healthy[i]
        BY DEF InFlightExplained
    <2>1. RowFit(db.rows[r], pc[r], record[r], home[r]) /\ db.rows[r] # NoRow
        BY DEF RowsInv, IsInFlightRow
    <2>2. home[r] = i BY <2>1 DEF RowFit
    <2>3. pc[r] \notin {"new", "refused", "settled"}
        BY <2>1 DEF RowFit, IsTerminalRow, IsInFlightRow, Terminal
    <2>4. Fit(pc[r], inst[i], healthy[i], i \in forced) BY <2>2 DEF LifeInv
    <2>5. pc[r] # "dead" BY <2>4 DEF Fit, Alive
    <2>6. pc[r] = "lost" => ~healthy[i] BY <2>4 DEF Fit
    <2>7. pc[r] \in PcStates BY DEF LifeInv, FlowInv, TypeOK
    <2> QED BY <2>3, <2>5, <2>6, <2>7 DEF PcStates, Ended
<1> QED BY <1>1, <1>2, <1>3, PTL DEF Spec

\* A shutdown that met neither of its deadlines leaves in flight only rows whose
\* handler was dropped or whose write was reported lost.
THEOREM CleanExitIsClean == Spec => []CleanExitLeavesNothing
<1>1. Init => RowsInv /\ LifeInv BY RowsInit, LifeInit
<1>2. RowsInv /\ LifeInv /\ [Next]_vars => (RowsInv /\ LifeInv)' BY RowsStep, LifeStep
<1>3. RowsInv /\ LifeInv => CleanExitLeavesNothing
    <2> SUFFICES ASSUME RowsInv, LifeInv, NEW i \in Instances, inst[i] = "exited",
                        i \notin forced, NEW r \in Requests,
                        IsInFlightRow(db.rows[r]), db.rows[r].owner = i
                 PROVE  pc[r] \in {"dropped", "lost"}
        BY DEF CleanExitLeavesNothing
    <2>1. RowFit(db.rows[r], pc[r], record[r], home[r]) /\ db.rows[r] # NoRow
        BY DEF RowsInv, IsInFlightRow
    <2>2. home[r] = i BY <2>1 DEF RowFit
    <2>3. pc[r] \notin {"new", "refused", "settled"}
        BY <2>1 DEF RowFit, IsTerminalRow, IsInFlightRow, Terminal
    <2>4. Fit(pc[r], inst[i], healthy[i], i \in forced) BY <2>2 DEF LifeInv
    <2>5. pc[r] # "dead" /\ pc[r] \notin Live BY <2>4 DEF Fit, Left
    <2>6. pc[r] \in PcStates BY DEF LifeInv, FlowInv, TypeOK
    <2> QED BY <2>3, <2>5, <2>6 DEF PcStates, Ended
<1> QED BY <1>1, <1>2, <1>3, PTL DEF Spec

-----------------------------------------------------------------------------
(* The pipeline implements the ledger's promise. *)

\* The promise recomputes the rollup as Rollup does.
LEMMA SameAggregate ==
    ASSUME NEW rows
    PROVE  Ledger!Aggregate(rows) = Aggregate(rows)
BY Zenon DEF Ledger!Aggregate, Aggregate, Ledger!Keys, Keys, Ledger!RowsIn, RowsIn,
   Ledger!SuccessesIn, SuccessesIn, Ledger!FailuresIn, FailuresIn, Ledger!IsTerminalRow,
   IsTerminalRow, Ledger!BucketKey, BucketKey, Ledger!Known, Known, Ledger!Terminal,
   Terminal, Ledger!Statuses, Statuses, Ledger!Cardinality, Cardinality,
   Ledger!MapThenSumSet, MapThenSumSet, Ledger!MapThenFoldSet, MapThenFoldSet

LEMMA SameRows ==
    /\ Ledger!Row = Row
    /\ \A row : Ledger!IsTerminalRow(row) <=> IsTerminalRow(row)
    /\ \A row : Ledger!IsInFlightRow(row) <=> IsInFlightRow(row)
BY Zenon DEF Ledger!Row, Row, Ledger!Statuses, Statuses, Ledger!IsTerminalRow, IsTerminalRow,
   Ledger!IsInFlightRow, IsInFlightRow, Ledger!Terminal, Terminal

LEMMA LedgerStarts == Init => Ledger!LedgerInit
<1> SUFFICES ASSUME Init PROVE Ledger!LedgerInit OBVIOUS
<1>1. TypeOK /\ ExactInv BY ExactInit DEF ExactInv
<1>2. db.rows \in [Requests -> Ledger!Row \cup {NoRow}]
    BY <1>1, SameRows DEF TypeOK, Database
<1>3. \A r \in Requests : IF r \in Legacy THEN Ledger!IsInFlightRow(db.rows[r])
                                         ELSE db.rows[r] = NoRow
    <2>1. db.rows = InitRows BY DEF Init
    <2>2. ASSUME NEW r \in Requests, r \in Legacy PROVE IsInFlightRow(db.rows[r])
        <3>1. db.rows[r] \in Row /\ db.rows[r].status = "in_flight"
            BY <2>1, <2>2 DEF InitRows, Row, Statuses
        <3> QED BY <3>1, NoRowFresh DEF IsInFlightRow
    <2>3. ASSUME NEW r \in Requests, r \notin Legacy PROVE db.rows[r] = NoRow
        BY <2>1, <2>3 DEF InitRows
    <2> QED BY <2>2, <2>3, SameRows
<1>4. db.hourly = Ledger!Aggregate(db.rows)
    <2>1. db.hourly = Aggregate(db.rows) BY <1>1, AllExact DEF ExactInv, Exact, TypeOK
    <2> QED BY <2>1, SameAggregate
<1>5. sent = {} BY DEF Init
<1> QED BY <1>2, <1>3, <1>4, <1>5 DEF Ledger!LedgerInit

\* A step that writes rows is a write of the promise, or changes nothing.
LEMMA LedgerWrites ==
    ASSUME RowsInv, RowsInv', sent' = sent,
           \A r \in Requests :
              db'.rows[r] = db.rows[r] \/ Ledger!Advances(db.rows[r], db'.rows[r])
    PROVE  [Ledger!LedgerNext]_<<db.rows, db.hourly, sent>>
<1>1. PICK e : e = db' OBVIOUS
<1>2. /\ db \in Database /\ e \in Database /\ Exact(db) /\ Exact(e)
    BY <1>1 DEF RowsInv, ExactInv, TypeOK
<1>3. db.hourly = Aggregate(db.rows) /\ e.hourly = Aggregate(e.rows)
    BY <1>2, AllExact DEF Exact
<1>4. e.hourly = Ledger!Aggregate(e.rows) BY <1>3, SameAggregate
<1>5. CASE db.rows = e.rows
    <2>1. db.hourly = e.hourly BY <1>3, <1>5
    <2> QED BY <1>1, <1>5, <2>1
<1>6. CASE db.rows # e.rows BY <1>1, <1>4, <1>6 DEF Ledger!LedgerNext, Ledger!Write
<1> QED BY <1>5, <1>6

LEMMA LedgerStep ==
    RowsInv /\ MeteredInv /\ [Next]_vars => [Ledger!LedgerNext]_<<db.rows, db.hourly, sent>>
<1> SUFFICES ASSUME RowsInv, MeteredInv, [Next]_vars
             PROVE [Ledger!LedgerNext]_<<db.rows, db.hourly, sent>>
    OBVIOUS
<1> DEFINE Goal == [Ledger!LedgerNext]_<<db.rows, db.hourly, sent>>
<1>0. TypeOK /\ RowsInv' BY RowsStep DEF RowsInv, FlowInv
<1> USE DEF dbVars, procVars, writeVars, reqVars
<1>a. ASSUME UNCHANGED <<db, sent>> PROVE Goal BY <1>a
<1>r. ASSUME NEW i \in Instances, RecoverInFlight(i) PROVE Goal
    <2>1. ASSUME NEW r \in Requests
          PROVE  db'.rows[r] = db.rows[r] \/ Ledger!Advances(db.rows[r], db'.rows[r])
        <3>1. CASE db'.rows[r] = db.rows[r] BY <3>1
        <3>2. CASE /\ IsInFlightRow(db.rows[r]) /\ db'.rows[r] # NoRow
                   /\ db'.rows[r] = [db.rows[r] EXCEPT !.status = "interrupted"]
            <4>1. db.rows[r] \in Row /\ db.rows[r] # NoRow /\ db.rows[r].status = "in_flight"
                BY <1>0, <3>2 DEF TypeOK, Database, IsInFlightRow
            <4>2. /\ db'.rows[r].status = "interrupted"
                  /\ db'.rows[r].owner = db.rows[r].owner
                BY <3>2, <4>1 DEF Row
            <4>3. IsTerminalRow(db'.rows[r])
                BY <3>2, <4>2 DEF IsTerminalRow, Terminal, Statuses
            <4> QED BY <4>1, <4>2, <4>3, SameRows DEF Ledger!Advances
        <3> QED BY <1>0, <1>r, <3>1, <3>2, RecoverWrites
    <2>2. sent' = sent BY <1>r DEF RecoverInFlight
    <2> QED BY <1>0, <2>1, <2>2, LedgerWrites
<1>1. ASSUME NEW i \in Instances, Start(i) PROVE Goal
    <2>1. CASE ClaimLock(i) \/ Register(i) \/ BootFails(i)
        BY <1>a, <2>1 DEF ClaimLock, Register, BootFails
    <2>2. CASE BootRecovery(i) BY <1>r, <2>2 DEF BootRecovery
    <2> QED BY <1>1, <2>1, <2>2 DEF Start
<1>2. ASSUME NEW i \in Instances, Recovery(i) PROVE Goal
    <2>1. CASE Sweep(i) BY <1>r, <2>1 DEF Sweep
    <2>2. CASE RemoveLockFiles(i) BY <1>a, <2>2 DEF RemoveLockFiles
    <2> QED BY <1>2, <2>1, <2>2 DEF Recovery
<1>3. ASSUME NEW i \in Instances, Writer(i) PROVE Goal
    <2>1. CASE Receive(i) \/ BeginFlush(i) \/ Execute(i) \/ FlushBusy(i)
        BY <1>a, <2>1 DEF Receive, BeginFlush, Execute, FlushBusy
    <2>2. CASE Commit(i)
        <3>1. db' = work /\ sent' = sent BY <2>2 DEF Commit
        <3>2. ASSUME NEW r \in Requests
              PROVE  work.rows[r] = db.rows[r] \/ Ledger!Advances(db.rows[r], work.rows[r])
            <4>1. CASE work.rows[r] = db.rows[r] BY <4>1
            <4>2. CASE db.rows[r] = NoRow /\ work.rows[r] # NoRow
                BY <4>2 DEF Ledger!Advances
            <4>3. CASE /\ home[r] = i /\ pc[r] \in Waiting /\ pc'[r] = "settled"
                       /\ record[r].status \in Terminal
                       /\ work.rows[r] = FinalizedRow(db.rows[r], record[r], i)
                <5>1. /\ db.rows[r] \in Row \cup {NoRow} /\ record[r] \in RequestRecord
                      /\ RowFit(db.rows[r], pc[r], record[r], home[r])
                    BY <1>0 DEF TypeOK, Database, RowsInv
                <5>2. work.rows[r] \in Row BY <4>3, <5>1, FinalizedRowType
                <5>3. IsTerminalRow(work.rows[r])
                    BY <4>3, <5>2, NoRowFresh DEF IsTerminalRow, FinalizedRow
                <5>4. CASE db.rows[r] = NoRow BY <5>2, <5>4, NoRowFresh DEF Ledger!Advances
                <5>5. CASE db.rows[r] # NoRow
                    <6>1. work.rows[r].owner = db.rows[r].owner
                        BY <4>3, <5>5 DEF FinalizedRow
                    <6>2. Unmeasured(db.rows[r]) BY <4>3, <5>1 DEF RowFit, Waiting
                    <6> QED BY <5>3, <5>5, <6>1, <6>2, SameRows
                            DEF Ledger!Advances, Unmeasured
                <5> QED BY <5>4, <5>5
            <4> QED BY <2>2, <4>1, <4>2, <4>3, CommitWrites
        <3> QED BY <1>0, <3>1, <3>2, LedgerWrites
    <2>3. CASE FlushError(i) \/ FlushGivesUp(i)
        BY <1>a, <2>3 DEF FlushError, FlushGivesUp, FailBatch
    <2> QED BY <1>3, <2>1, <2>2, <2>3 DEF Writer
<1>4. ASSUME NEW i \in Instances, Shutdown(i) \/ Crash(i) PROVE Goal
    BY <1>a, <1>4 DEF Shutdown, Terminate, EndDrain, CloseChannel, WriterExits, Release, Exit,
                      Crash, Vanish
<1>5. ASSUME NEW r \in Requests, Handler(r) PROVE Goal
    <2>1. CASE Forward(r)
        <3>1. db.rows[r] # NoRow BY <2>1 DEF Forward, MeteredInv
        <3>2. sent' = sent \cup {r} /\ db' = db BY <2>1 DEF Forward
        <3>3. Ledger!Serve BY <3>1, <3>2 DEF Ledger!Serve
        <3> QED BY <3>3 DEF Ledger!LedgerNext
    <2>2. CASE ~Forward(r)
        <3>1. UNCHANGED <<db, sent>>
            BY <1>5, <2>2 DEF Handler, Arrive, SendAccept, SendFinalize, Send, ReplyWhole,
                              StartStream, EndStream, DetachedFinalize, Disconnect, Age
        <3> QED BY <1>a, <3>1
    <2> QED BY <2>1, <2>2
<1>6. CASE UNCHANGED vars BY <1>6, <1>a DEF vars
<1> QED BY <1>1, <1>2, <1>3, <1>4, <1>5, <1>6 DEF Next

\* The pipeline of queues, batches, transactions, recoveries and crashes implements
\* the promise of UsageLedger: every step is a write that moves rows forward and
\* leaves the rollup recomputed from them, a request served over its row, or no
\* change the promise can see.
THEOREM PipelineImplementsLedger == Spec => ImplementsLedger
<1>1. Init => Ledger!LedgerInit BY LedgerStarts
<1>2. Init => RowsInv /\ MeteredInv BY RowsInit, MeteredInit
<1>3. RowsInv /\ MeteredInv /\ [Next]_vars => (RowsInv /\ MeteredInv)'
    BY RowsStep, MeteredStep
<1>4. RowsInv /\ MeteredInv /\ [Next]_vars =>
        [Ledger!LedgerNext]_<<db.rows, db.hourly, sent>>
    BY LedgerStep
<1> QED BY <1>1, <1>2, <1>3, <1>4, PTL DEF Spec, ImplementsLedger, Ledger!LedgerSpec

=============================================================================
