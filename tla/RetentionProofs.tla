-------------------------- MODULE RetentionProofs --------------------------
(***************************************************************************)
(* That no retention pass reaches a finalized request of the window, and   *)
(* that the rollup of the hours after every cutoff is exact while rows and *)
(* buckets go slice by slice.  The invariants add that a pass under way    *)
(* has a cutoff behind the window's edge and not beyond the newest: the    *)
(* clock only moves the edge further from it.                              *)
(***************************************************************************)
EXTENDS Retention, RollupProofs

Shapes ==
    /\ db.rows \in [Requests -> Row \cup {NoRow}]
    /\ clock \in Int
    /\ pc \in [Requests -> {"new", "open", "done"}]
    /\ sweep \in [Instances -> [pc : {"idle", "raw", "hourly"}, cutoff : Int, batches : Int]]

CutoffsBehind == \A i \in Instances : sweep[i].pc # "idle" => sweep[i].cutoff <= clock - Window

KeptInv == Shapes /\ CutoffsBehind /\ RecentKept

LEMMA KeptInit == Init => KeptInv
BY RetentionBounds DEF Init, KeptInv, Shapes, CutoffsBehind, RecentKept, NoSweep

\* A metering write: the rows keep their type, no terminal row goes, and the row
\* of a request that becomes done is terminal.
LEMMA WriteKeeps ==
    ASSUME KeptInv, db'.rows \in [Requests -> Row \cup {NoRow}],
           pc' \in [Requests -> {"new", "open", "done"}],
           \A r \in Requests : IsTerminalRow(db.rows[r]) => IsTerminalRow(db'.rows[r]),
           \A r \in Requests : pc'[r] = "done" => pc[r] = "done" \/ IsTerminalRow(db'.rows[r]),
           UNCHANGED <<clock, sweep>>
    PROVE  KeptInv'
BY DEF KeptInv, Shapes, CutoffsBehind, RecentKept, IsTerminalRow

LEMMA AcceptKeeps ==
    ASSUME KeptInv, NEW r \in Requests, NEW i \in Instances, Accept(r, i)
    PROVE  KeptInv'
<1>1. PICK s \in BOOLEAN : db' = InsertAccept(db, r, [status |-> "in_flight", stream |-> s,
                                                      tokens |-> Unavailable], i)
  BY DEF Accept
<1>2. /\ db.rows \in [Requests -> Row \cup {NoRow}] /\ pc \in [Requests -> {"new", "open", "done"}]
      /\ pc' = [pc EXCEPT ![r] = "open"] /\ UNCHANGED <<clock, sweep>>
  BY DEF KeptInv, Shapes, Accept, Metered
<1> DEFINE row == [status |-> "in_flight", stream |-> s, tokens |-> Unavailable, owner |-> i]
<1>3. row \in Row
  BY DEF Row, Statuses
<1>4. db'.rows = IF db.rows[r] # NoRow THEN db.rows ELSE [db.rows EXCEPT ![r] = row]
  <2>1. CASE db.rows[r] # NoRow
    BY <2>1, <1>1 DEF InsertAccept
  <2>2. CASE db.rows[r] = NoRow
    BY <2>2, <1>1 DEF InsertAccept
  <2> QED BY <2>1, <2>2
<1>5. db'.rows \in [Requests -> Row \cup {NoRow}]
  BY <1>2, <1>3, <1>4
<1>6. \A q \in Requests : IsTerminalRow(db.rows[q]) => IsTerminalRow(db'.rows[q])
  BY <1>2, <1>4 DEF IsTerminalRow
<1> HIDE DEF row
<1> QED BY <1>2, <1>5, <1>6, WriteKeeps

LEMMA FinalizeKeeps ==
    ASSUME KeptInv, NEW r \in Requests, NEW i \in Instances, Finalize(r, i)
    PROVE  KeptInv'
<1>1. PICK rec \in {x \in RequestRecord : x.status \in Terminal} :
          db' = FinalizeRecord(db, r, rec, i)
  BY DEF Finalize
<1>2. /\ db.rows \in [Requests -> Row \cup {NoRow}] /\ pc \in [Requests -> {"new", "open", "done"}]
      /\ pc' = [pc EXCEPT ![r] = "done"] /\ UNCHANGED <<clock, sweep>>
  BY DEF KeptInv, Shapes, Finalize, Metered
<1> DEFINE new == FinalizedRow(db.rows[r], rec, i)
<1>3. db'.rows = [db.rows EXCEPT ![r] = new]
  BY <1>1 DEF FinalizeRecord
<1>4. new \in Row /\ new.status \in Terminal
  BY <1>1, <1>2 DEF FinalizedRow, Row, RequestRecord
<1> HIDE DEF new
<1>5. IsTerminalRow(new)
  BY <1>4, NoRowFresh DEF IsTerminalRow
<1>6. db'.rows \in [Requests -> Row \cup {NoRow}]
  BY <1>2, <1>3, <1>4
<1>7. \A q \in Requests : IsTerminalRow(db.rows[q]) \/ q = r => IsTerminalRow(db'.rows[q])
  BY <1>2, <1>3, <1>5
<1> QED BY <1>2, <1>6, <1>7, WriteKeeps

LEMMA RecoverKeeps ==
    ASSUME KeptInv, NEW r \in Requests, Recover(r)
    PROVE  KeptInv'
<1>1. /\ db.rows \in [Requests -> Row \cup {NoRow}] /\ UNCHANGED <<pc, clock, sweep>>
      /\ IsInFlightRow(db.rows[r]) /\ pc \in [Requests -> {"new", "open", "done"}]
  BY DEF KeptInv, Shapes, Recover, Metered
<1>2. db'.rows = [q \in Requests |->
                    IF q \in {r} THEN [db.rows[q] EXCEPT !.status = "interrupted"]
                    ELSE db.rows[q]]
  BY DEF Recover, RecoverRows
<1>3. [db.rows[r] EXCEPT !.status = "interrupted"] \in Row
  BY <1>1 DEF Row, Statuses, IsInFlightRow
<1>4. db'.rows \in [Requests -> Row \cup {NoRow}]
  BY <1>1, <1>2, <1>3
<1>5. \A q \in Requests : IsTerminalRow(db.rows[q]) => IsTerminalRow(db'.rows[q])
  BY <1>1, <1>2 DEF IsTerminalRow, IsInFlightRow, Terminal
<1> QED BY <1>1, <1>4, <1>5, WriteKeeps

\* A slice counts itself, and at most ends its loop.
LEMMA SliceCounted ==
    ASSUME Shapes, NEW i \in Instances, sweep[i].pc # "idle", NEW S,
           NEW next \in {"hourly", "idle"}, AfterSlice(i, S, next)
    PROVE  /\ sweep' \in [Instances -> [pc : {"idle", "raw", "hourly"}, cutoff : Int, batches : Int]]
           /\ \A j \in Instances : /\ sweep'[j].cutoff = sweep[j].cutoff
                                   /\ sweep[j].pc = "idle" => sweep'[j].pc = "idle"
<1> DEFINE to == IF Cardinality(S) < BatchSize THEN next ELSE sweep[i].pc
<1>1. sweep' = [sweep EXCEPT ![i].batches = sweep[i].batches + 1, ![i].pc = to]
  BY DEF AfterSlice, Shapes
<1>2. to \in {"idle", "raw", "hourly"}
  BY DEF Shapes
<1> HIDE DEF to
<1>3. /\ sweep'[i] = [sweep[i] EXCEPT !.batches = sweep[i].batches + 1, !.pc = to]
      /\ \A j \in Instances \ {i} : sweep'[j] = sweep[j]
      /\ sweep' = [j \in Instances |-> sweep'[j]]
  BY <1>1 DEF Shapes
<1>4. /\ sweep'[i] \in [pc : {"idle", "raw", "hourly"}, cutoff : Int, batches : Int]
      /\ sweep'[i].cutoff = sweep[i].cutoff
  <2>1. sweep[i] \in [pc : {"idle", "raw", "hourly"}, cutoff : Int, batches : Int]
    BY DEF Shapes
  <2>2. sweep'[i] = [pc |-> to, cutoff |-> sweep[i].cutoff, batches |-> sweep[i].batches + 1]
    BY <2>1, <1>3
  <2>3. sweep[i].cutoff \in Int /\ sweep[i].batches + 1 \in Int
    BY <2>1
  <2> QED BY <2>2, <2>3, <1>2
<1>5. \A j \in Instances : sweep'[j] \in [pc : {"idle", "raw", "hourly"}, cutoff : Int, batches : Int]
  BY <1>3, <1>4 DEF Shapes
<1> QED BY <1>3, <1>4, <1>5

\* The one step that removes rows.
LEMMA RawSliceKeeps ==
    ASSUME KeptInv, NEW i \in Instances, RawSlice(i)
    PROVE  KeptInv'
<1> DEFINE old == {r \in Requests : db.rows[r] # NoRow /\ RowGone(r, sweep[i].cutoff)}
<1>1. PICK S \in Slices(old) :
         /\ db' = [db EXCEPT !.rows = [r \in Requests |-> IF r \in S THEN NoRow ELSE @[r]]]
         /\ AfterSlice(i, S, "hourly")
  BY DEF RawSlice
<1>2. /\ Shapes /\ CutoffsBehind /\ RecentKept /\ sweep[i].pc = "raw" /\ UNCHANGED <<clock, pc>>
  BY DEF KeptInv, RawSlice
<1>3. db'.rows = [r \in Requests |-> IF r \in S THEN NoRow ELSE db.rows[r]]
  BY <1>1
<1>4. \A r \in Requests : r \in S => Created[r] < clock - Window
  <2>1. \A r \in S : Created[r] < sweep[i].cutoff
    BY DEF Slices, RowGone
  <2> QED BY <2>1, <1>2, DimsAreHours, RetentionBounds DEF CutoffsBehind, Shapes
<1>5. RecentKept'
  <2> SUFFICES ASSUME NEW r \in Requests, pc'[r] = "done", Created[r] >= clock' - Window
               PROVE  IsTerminalRow(db.rows[r]) /\ r \notin S
    BY <1>3 DEF RecentKept, IsTerminalRow
  <2> QED BY <1>2, <1>4, DimsAreHours, RetentionBounds DEF RecentKept, Shapes
<1>6. /\ sweep' \in [Instances -> [pc : {"idle", "raw", "hourly"}, cutoff : Int, batches : Int]]
      /\ \A j \in Instances : /\ sweep'[j].cutoff = sweep[j].cutoff
                              /\ sweep[j].pc = "idle" => sweep'[j].pc = "idle"
  BY <1>1, <1>2, SliceCounted
<1>7. Shapes' /\ CutoffsBehind'
  BY <1>2, <1>3, <1>6 DEF Shapes, CutoffsBehind
<1> QED BY <1>5, <1>7 DEF KeptInv

\* The steps that leave the rows alone.
LEMMA SweepKeeps ==
    ASSUME KeptInv, NEW i \in Instances,
           BeginSweep(i) \/ HourlySlice(i) \/ HitBudget(i) \/ SweepFails(i)
    PROVE  KeptInv'
<1>1. Shapes /\ CutoffsBehind /\ RecentKept /\ UNCHANGED <<clock, pc>>
  BY DEF KeptInv, BeginSweep, HourlySlice, HitBudget, SweepFails
<1>2. CASE BeginSweep(i)
  <2>1. /\ db' = db
        /\ sweep' = [sweep EXCEPT ![i] = [pc |-> "raw", cutoff |-> clock - Window, batches |-> 0]]
    BY <1>2 DEF BeginSweep, CutoffFor
  <2> QED BY <2>1, <1>1, RetentionBounds DEF KeptInv, Shapes, CutoffsBehind, RecentKept
<1>3. CASE HourlySlice(i)
  <2>1. db'.rows = db.rows
    BY <1>3 DEF HourlySlice
  <2>2. PICK S : AfterSlice(i, S, "idle")
    BY <1>3 DEF HourlySlice
  <2>3. /\ sweep' \in [Instances -> [pc : {"idle", "raw", "hourly"}, cutoff : Int, batches : Int]]
        /\ \A j \in Instances : /\ sweep'[j].cutoff = sweep[j].cutoff
                                /\ sweep[j].pc = "idle" => sweep'[j].pc = "idle"
    BY <1>1, <1>3, <2>2, SliceCounted DEF HourlySlice
  <2> QED BY <2>1, <2>3, <1>1 DEF KeptInv, Shapes, CutoffsBehind, RecentKept
<1>4. CASE HitBudget(i) \/ SweepFails(i)
  <2>1. db' = db /\ sweep' = [sweep EXCEPT ![i] = NoSweep]
    BY <1>4 DEF HitBudget, SweepFails
  <2> QED BY <2>1, <1>1 DEF KeptInv, Shapes, CutoffsBehind, RecentKept, NoSweep
<1> QED BY <1>2, <1>3, <1>4

LEMMA KeptStep == KeptInv /\ [Next]_vars => KeptInv'
<1> SUFFICES ASSUME KeptInv, [Next]_vars PROVE KeptInv'
  OBVIOUS
<1>1. CASE UNCHANGED vars
  BY <1>1 DEF vars, KeptInv, Shapes, CutoffsBehind, RecentKept
<1>2. CASE Advance
  BY <1>2, RetentionBounds, DimsAreHours DEF Advance, KeptInv, Shapes, CutoffsBehind, RecentKept
<1>3. ASSUME NEW r \in Requests, Recover(r) PROVE KeptInv'
  BY <1>3, RecoverKeeps
<1>4. ASSUME NEW r \in Requests, NEW i \in Instances, Accept(r, i) \/ Finalize(r, i) PROVE KeptInv'
  BY <1>4, AcceptKeeps, FinalizeKeeps
<1>5. ASSUME NEW i \in Instances, Sweep(i) \/ SweepFails(i) PROVE KeptInv'
  BY <1>5, RawSliceKeeps, SweepKeeps DEF Sweep
<1> QED BY <1>1, <1>2, <1>3, <1>4, <1>5 DEF Next

\* A finalized request younger than the window keeps its row, whatever passes of
\* any number of processes run, for every window, batch size and budget
\* (run_retention against the writer).
THEOREM RecentNeverPruned == Spec => []RecentKept
<1>1. KeptInv => RecentKept
  BY DEF KeptInv
<1> QED BY <1>1, KeptInit, KeptStep, PTL DEF Spec

-----------------------------------------------------------------------------
(* The window stays exact.  A pass removes rows and buckets of hours that     *)
(* began at or before its cutoff, and no pass has a cutoff beyond the latest. *)

Inside(k) == k[1] * HourLen > newest

WindowInv ==
    /\ Shapes /\ db \in Database /\ newest \in Int
    /\ OpenBare(db.rows)
    /\ \A i \in Instances : sweep[i].pc # "idle" => sweep[i].cutoff <= newest
    /\ \A k \in Keys : Inside(k) => ExactAt(db, k)

LEMMA KeyHour == \A k \in Keys : k[1] \in Int /\ k[1] * HourLen \in Int
<1> SUFFICES ASSUME NEW k \in Keys PROVE k[1] \in Int /\ k[1] * HourLen \in Int
  OBVIOUS
<1>1. k[1] \in Dims
  BY DEF Keys
<1>2. k[1] \in Int /\ HourLen \in Int
  <2>1. Dims \subseteq Nat
    BY DimsAreHours, Zenon
  <2>2. HourLen \in Nat
    BY RetentionBounds
  <2>3. \A h \in Dims : h \in Int
    BY <2>1
  <2>4. k[1] \in Int
    BY <1>1, <2>3, Zenon
  <2> QED BY <2>2, <2>4
<1>3. \A a, b \in Int : a * b \in Int
  OBVIOUS
<1> QED BY <1>2, <1>3, Zenon

LEMMA WindowInit == Init => WindowInv
<1> SUFFICES ASSUME Init PROVE WindowInv
  OBVIOUS
<1>1. Shapes /\ newest \in Int /\ \A i \in Instances : sweep[i].pc = "idle"
  BY RetentionBounds DEF Init, Shapes, NoSweep
<1>2. db \in Database
  <2>1. [r \in Requests |-> NoRow] \in [Requests -> Row \cup {NoRow}]
    OBVIOUS
  <2>2. [k \in Keys |-> EmptyBucket] \in [Keys -> Bucket]
    BY DEF EmptyBucket, Bucket
  <2> QED BY <2>1, <2>2 DEF Init, Database
<1>3. Exact(db)
  BY <1>2, EmptyExact DEF Init, OpenBare, IsInFlightRow, IsTerminalRow
<1> QED BY <1>1, <1>2, <1>3 DEF WindowInv, Exact

\* A metering write, from what the writes do to any one bucket.
LEMMA WriteKeepsWindow ==
    ASSUME WindowInv, db' \in Database, OpenBare(db'.rows), Shapes',
           \A k \in Keys : ExactAt(db, k) => ExactAt(db', k), UNCHANGED <<sweep, newest>>
    PROVE  WindowInv'
<1>1. \A k \in Keys : Inside(k)' => ExactAt(db', k)
  BY DEF WindowInv, Inside
<1>2. \A k \in Keys : Inside(k)' => ExactAt(db, k)'
  BY <1>1
<1> QED BY <1>2 DEF WindowInv

LEMMA AcceptKeepsWindow ==
    ASSUME WindowInv, Shapes', NEW r \in Requests, NEW i \in Instances, Accept(r, i)
    PROVE  WindowInv'
<1>1. PICK s \in BOOLEAN : db' = InsertAccept(db, r, [status |-> "in_flight", stream |-> s,
                                                      tokens |-> Unavailable], i)
  BY DEF Accept
<1> DEFINE rec == [status |-> "in_flight", stream |-> s, tokens |-> Unavailable]
<1>2. rec \in RequestRecord
  BY DEF RequestRecord, Statuses
<1>3. db' = InsertAccept(db, r, rec, i) /\ UNCHANGED <<sweep, newest>>
  BY <1>1 DEF Accept, Metered
<1>4. db \in Database /\ OpenBare(db.rows)
  BY DEF WindowInv
<1> HIDE DEF rec
<1>5. db' \in Database /\ OpenBare(db'.rows)
  BY <1>2, <1>3, <1>4, AcceptType, AcceptBare
<1>6. \A k \in Keys : ExactAt(db, k) => ExactAt(db', k)
  BY <1>2, <1>3, <1>4, AcceptExact
<1> QED BY <1>3, <1>5, <1>6, WriteKeepsWindow

LEMMA FinalizeKeepsWindow ==
    ASSUME WindowInv, Shapes', NEW r \in Requests, NEW i \in Instances, Finalize(r, i)
    PROVE  WindowInv'
<1>1. PICK rec \in {x \in RequestRecord : x.status \in Terminal} :
          db' = FinalizeRecord(db, r, rec, i)
  BY DEF Finalize
<1>2. rec \in RequestRecord /\ rec.status \in Terminal /\ UNCHANGED <<sweep, newest>>
  BY DEF Finalize, Metered
<1>3. db \in Database /\ OpenBare(db.rows)
  BY DEF WindowInv
<1>4. db' \in Database /\ OpenBare(db'.rows)
  BY <1>1, <1>2, <1>3, FinalizeType, FinalizeBare
<1>5. \A k \in Keys : ExactAt(db, k) => ExactAt(db', k)
  BY <1>1, <1>2, <1>3, FinalizeExact
<1> QED BY <1>2, <1>4, <1>5, WriteKeepsWindow

LEMMA RecoverKeepsWindow ==
    ASSUME WindowInv, Shapes', NEW r \in Requests, Recover(r)
    PROVE  WindowInv'
<1>1. /\ {r} \in SUBSET Requests /\ \A q \in {r} : IsInFlightRow(db.rows[q])
      /\ db' = RecoverRows(db, {r}) /\ UNCHANGED <<sweep, newest>>
  BY DEF Recover, Metered
<1>2. db \in Database /\ OpenBare(db.rows)
  BY DEF WindowInv
<1>3. db' \in Database
  BY <1>1, <1>2, RecoverType DEF IsInFlightRow
<1>4. OpenBare(db'.rows)
  BY <1>1, <1>2, RecoverBare
<1>5. \A k \in Keys : ExactAt(db, k) => ExactAt(db', k)
  BY <1>1, <1>2, RecoverExact
<1> QED BY <1>1, <1>3, <1>4, <1>5, WriteKeepsWindow

\* A row older than a cutoff is in no hour that begins after it.
LEMMA OldRowOutside ==
    ASSUME NEW r \in Requests, NEW row \in Row, NEW c \in Int, Created[r] < c,
           NEW k \in Keys, k[1] * HourLen > c
    PROVE  BucketKey(r, row) # k
<1>1. Created[r] \in Nat /\ HourLen \in Nat \ {0} /\ DimOf[r] = Created[r] \div HourLen
  BY DimsAreHours, RetentionBounds
<1>2. DimOf[r] * HourLen <= Created[r] /\ DimOf[r] \in Nat
  BY <1>1, QuotientBelow
<1>3. DimOf[r] * HourLen \in Int
  BY <1>1, <1>2
<1>4. k[1] * HourLen \in Int
  BY KeyHour
<1>5. \A a, b, n, m \in Int : a <= n /\ n < m /\ b > m => a # b
  OBVIOUS
<1>6. DimOf[r] * HourLen # k[1] * HourLen
  BY <1>1, <1>2, <1>3, <1>4, <1>5
<1>7. BucketKey(r, row)[1] = DimOf[r]
  BY DEF BucketKey
<1> QED BY <1>6, <1>7

LEMMA RawSliceKeepsWindow ==
    ASSUME WindowInv, Shapes', NEW i \in Instances, RawSlice(i)
    PROVE  WindowInv'
<1> DEFINE old == {r \in Requests : db.rows[r] # NoRow /\ RowGone(r, sweep[i].cutoff)}
<1>1. PICK S \in Slices(old) :
         /\ db' = [db EXCEPT !.rows = [r \in Requests |-> IF r \in S THEN NoRow ELSE @[r]]]
         /\ AfterSlice(i, S, "hourly")
  BY DEF RawSlice
<1>2. /\ Shapes /\ db \in Database /\ newest \in Int /\ OpenBare(db.rows)
      /\ sweep[i].pc = "raw" /\ newest' = newest
      /\ sweep[i].cutoff \in Int /\ sweep[i].cutoff <= newest
  BY DEF WindowInv, RawSlice, Shapes
<1> DEFINE R == [r \in Requests |-> IF r \in S THEN NoRow ELSE db.rows[r]]
<1>3. db' = [rows |-> R, hourly |-> db.hourly]
  BY <1>1, <1>2 DEF Database
<1>4. R \in [Requests -> Row \cup {NoRow}] /\ db.rows \in [Requests -> Row \cup {NoRow}]
  BY <1>2 DEF Database
<1>5. \A r \in S : r \in Requests /\ db.rows[r] \in Row /\ Created[r] < sweep[i].cutoff
  BY <1>4 DEF Slices, RowGone
<1>6. \A r \in Requests : R[r] = IF r \in S THEN NoRow ELSE db.rows[r]
  OBVIOUS
<1> HIDE DEF R, old
<1>7. db' \in Database /\ db'.rows = R /\ db'.hourly = db.hourly
  BY <1>2, <1>3, <1>4 DEF Database
<1>8. OpenBare(R)
  BY <1>2, <1>6 DEF OpenBare, IsInFlightRow
<1>9. ASSUME NEW k \in Keys, Inside(k) PROVE ExactAt(db', k)
  <2>1. \A r \in S : BucketKey(r, db.rows[r]) # k
    <3> SUFFICES ASSUME NEW r \in S PROVE BucketKey(r, db.rows[r]) # k
      OBVIOUS
    <3>1. Created[r] < newest
      BY <1>2, <1>5, DimsAreHours
    <3> QED BY <1>2, <1>5, <1>9, <3>1, OldRowOutside DEF Inside
  <2>2. RowsIn(R, k) = RowsIn(db.rows, k)
    BY <1>6, <2>1 DEF RowsIn, IsTerminalRow
  <2>3. \A r \in RowsIn(db.rows, k) : R[r] = db.rows[r]
    BY <1>6, <2>1 DEF RowsIn
  <2>4. ExactAt(db, k)
    BY <1>9 DEF WindowInv
  <2> QED BY <1>4, <1>7, <2>2, <2>3, <2>4, SameBucket DEF ExactAt
<1>10. \A j \in Instances : sweep'[j].pc # "idle" => sweep'[j].cutoff <= newest
  BY <1>1, <1>2, SliceCounted DEF WindowInv
<1>11. \A k \in Keys : Inside(k)' => ExactAt(db, k)'
  BY <1>2, <1>9 DEF Inside
<1> QED BY <1>2, <1>7, <1>8, <1>10, <1>11 DEF WindowInv

LEMMA HourlySliceKeepsWindow ==
    ASSUME WindowInv, Shapes', NEW i \in Instances, HourlySlice(i)
    PROVE  WindowInv'
<1> DEFINE old == {k \in Keys : db.hourly[k] # EmptyBucket /\ HourGone(k[1], sweep[i].cutoff)}
<1>1. PICK S \in Slices(old) :
         /\ db' = [db EXCEPT !.hourly = [k \in Keys |-> IF k \in S THEN EmptyBucket ELSE @[k]]]
         /\ AfterSlice(i, S, "idle")
  BY DEF HourlySlice
<1>2. /\ Shapes /\ db \in Database /\ newest \in Int /\ OpenBare(db.rows)
      /\ sweep[i].pc = "hourly" /\ newest' = newest
      /\ sweep[i].cutoff \in Int /\ sweep[i].cutoff <= newest
  BY DEF WindowInv, HourlySlice, Shapes
<1> DEFINE H == [k \in Keys |-> IF k \in S THEN EmptyBucket ELSE db.hourly[k]]
<1>3. db' = [rows |-> db.rows, hourly |-> H]
  BY <1>1, <1>2 DEF Database
<1>4. H \in [Keys -> Bucket]
  BY <1>2 DEF Database, EmptyBucket, Bucket
<1>5. \A k \in S : k \in Keys /\ k[1] * HourLen <= sweep[i].cutoff
  BY DEF Slices, HourGone
<1>6. \A k \in Keys \ S : H[k] = db.hourly[k]
  OBVIOUS
<1> HIDE DEF H, old
<1>7. db' \in Database /\ db'.rows = db.rows /\ db'.hourly = H
  BY <1>2, <1>3, <1>4 DEF Database
<1>8. ASSUME NEW k \in Keys, Inside(k) PROVE ExactAt(db', k)
  <2>1. k \notin S
    <3>1. k[1] * HourLen \in Int
      BY KeyHour
    <3> QED BY <1>2, <1>5, <1>8, <3>1 DEF Inside
  <2>2. ExactAt(db, k)
    BY <1>8 DEF WindowInv
  <2> QED BY <1>6, <1>7, <2>1, <2>2 DEF ExactAt
<1>9. \A j \in Instances : sweep'[j].pc # "idle" => sweep'[j].cutoff <= newest
  BY <1>1, <1>2, SliceCounted DEF WindowInv
<1>10. \A k \in Keys : Inside(k)' => ExactAt(db, k)'
  BY <1>2, <1>8 DEF Inside
<1> QED BY <1>2, <1>7, <1>9, <1>10 DEF WindowInv

LEMMA BeginSweepKeepsWindow ==
    ASSUME WindowInv, Shapes', NEW i \in Instances, BeginSweep(i)
    PROVE  WindowInv'
<1>1. /\ db' = db
      /\ sweep' = [sweep EXCEPT ![i] = [pc |-> "raw", cutoff |-> clock - Window, batches |-> 0]]
      /\ newest' = Max({newest, clock - Window})
  BY DEF BeginSweep, CutoffFor
<1>2. /\ Shapes /\ clock \in Int /\ newest \in Int /\ Window \in Int
      /\ \A j \in Instances : sweep[j].pc # "idle" => sweep[j].cutoff <= newest
      /\ \A j \in Instances : sweep[j].cutoff \in Int
  BY RetentionBounds DEF WindowInv, Shapes
<1>3. newest' \in Int /\ newest' >= newest /\ newest' >= clock - Window
  BY <1>1, <1>2, MaxOfTwo
<1>4. \A j \in Instances : sweep'[j].pc # "idle" => sweep'[j].cutoff <= newest'
  <2> SUFFICES ASSUME NEW j \in Instances, sweep'[j].pc # "idle"
               PROVE  sweep'[j].cutoff <= newest'
    OBVIOUS
  <2>1. CASE j = i
    BY <1>1, <1>2, <1>3, <2>1 DEF Shapes
  <2>2. CASE j # i
    <3>1. sweep'[j] = sweep[j]
      BY <1>1, <1>2, <2>2 DEF Shapes
    <3> QED BY <1>2, <1>3, <3>1
  <2> QED BY <2>1, <2>2
<1>5. \A k \in Keys : Inside(k)' => Inside(k)
  BY <1>2, <1>3, KeyHour DEF Inside
<1>6. \A k \in Keys : Inside(k)' => ExactAt(db, k)'
  BY <1>1, <1>5 DEF WindowInv
<1> QED BY <1>1, <1>3, <1>4, <1>6 DEF WindowInv

LEMMA WindowStep == WindowInv /\ Shapes' /\ [Next]_vars => WindowInv'
<1> SUFFICES ASSUME WindowInv, Shapes', [Next]_vars PROVE WindowInv'
  OBVIOUS
<1>1. CASE UNCHANGED vars
  BY <1>1 DEF vars, WindowInv, Inside
<1>2. CASE Advance
  BY <1>2 DEF Advance, WindowInv, Inside
<1>3. ASSUME NEW r \in Requests, Recover(r) PROVE WindowInv'
  BY <1>3, RecoverKeepsWindow
<1>4. ASSUME NEW r \in Requests, NEW i \in Instances, Accept(r, i) \/ Finalize(r, i) PROVE WindowInv'
  BY <1>4, AcceptKeepsWindow, FinalizeKeepsWindow
<1>5. ASSUME NEW i \in Instances, HitBudget(i) \/ SweepFails(i) PROVE WindowInv'
  <2>1. db' = db /\ newest' = newest /\ sweep' = [sweep EXCEPT ![i] = NoSweep]
    BY <1>5 DEF HitBudget, SweepFails
  <2>2. \A j \in Instances : sweep'[j].pc # "idle" => sweep'[j] = sweep[j]
    BY <2>1 DEF WindowInv, Shapes, NoSweep
  <2> QED BY <2>1, <2>2 DEF WindowInv, Inside
<1>6. ASSUME NEW i \in Instances, Sweep(i) \/ SweepFails(i) PROVE WindowInv'
  BY <1>5, <1>6, RawSliceKeepsWindow, HourlySliceKeepsWindow, BeginSweepKeepsWindow DEF Sweep
<1> QED BY <1>1, <1>2, <1>3, <1>4, <1>6 DEF Next

\* Every hour of the retained window agrees with the raw rows, whatever slices of
\* whatever passes, late finalizes of pruned rows and recoveries happen around it
\* (run_retention's raw and hourly loops against the writer's deltas).
THEOREM WindowAlwaysExact == Spec => []WindowExact
<1>1. KeptInv /\ [Next]_vars => Shapes'
  BY KeptStep DEF KeptInv
<1>2. WindowInv => WindowExact
  BY ExactIsAggregate DEF WindowInv, WindowExact, Inside
<1> QED BY <1>1, <1>2, KeptInit, KeptStep, WindowInit, WindowStep, PTL DEF Spec

=============================================================================
