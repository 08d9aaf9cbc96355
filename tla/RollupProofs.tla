---------------------------- MODULE RollupProofs ----------------------------
(***************************************************************************)
(* What the ledger's writes do to the two tables, for every database: they *)
(* keep it well-typed, and a bucket that agreed with the raw rows before   *)
(* agrees with them afterwards.  Metering and Retention both rest on this. *)
(***************************************************************************)
EXTENDS Rollup, SetFacts

-----------------------------------------------------------------------------
(* Types. *)

\* The bucket of a well-typed row is one of the buckets.
LEMMA KeyType ==
    ASSUME NEW r \in Requests, NEW row \in Row
    PROVE  BucketKey(r, row) \in Keys
BY DimOfType DEF BucketKey, Keys, Row

\* A contribution is made of integers.
LEMMA MetricsType ==
    ASSUME NEW row \in Row
    PROVE  /\ Metrics(row).tokens \in Int
           /\ Metrics(row).success \in Int
           /\ Metrics(row).failure \in Int
<1>1. row.tokens \in Usages \cup {Unavailable} BY DEF Row
<1>2. Known(row.tokens) \in Int
    <2>1. CASE row.tokens = Unavailable BY <2>1 DEF Known
    <2>2. CASE row.tokens # Unavailable
        <3>1. row.tokens \in Nat BY <1>1, <2>2, UsagesNat
        <3> QED BY <2>2, <3>1 DEF Known
    <2> QED BY <2>1, <2>2
<1> QED BY <1>2 DEF Metrics

\* Adding to a bucket keeps the table well-typed.
LEMMA AddType ==
    ASSUME NEW h \in [Keys -> Bucket], NEW k \in Keys, NEW row \in Row
    PROVE  Add(h, k, Metrics(row)) \in [Keys -> Bucket]
<1>1. h[k] \in Bucket OBVIOUS
<1>2. [count   |-> h[k].count + 1,
       tokens  |-> h[k].tokens + Metrics(row).tokens,
       success |-> h[k].success + Metrics(row).success,
       failure |-> h[k].failure + Metrics(row).failure] \in Bucket
    BY <1>1, MetricsType DEF Bucket
<1> QED BY <1>2 DEF Add

\* Retracting from a bucket keeps the table well-typed.
LEMMA RetractType ==
    ASSUME NEW h \in [Keys -> Bucket], NEW k \in Keys, NEW row \in Row
    PROVE  Retract(h, k, Metrics(row)) \in [Keys -> Bucket]
<1>1. h[k] \in Bucket OBVIOUS
<1>2. [count   |-> h[k].count - 1,
       tokens  |-> h[k].tokens - Metrics(row).tokens,
       success |-> h[k].success - Metrics(row).success,
       failure |-> h[k].failure - Metrics(row).failure] \in Bucket
    BY <1>1, MetricsType DEF Bucket
<1>3. EmptyBucket \in Bucket BY DEF EmptyBucket, Bucket
<1> QED BY <1>2, <1>3 DEF Retract

\* The row an accept inserts, and the row a finalize leaves, are rows.
LEMMA AcceptType ==
    ASSUME NEW d \in Database, NEW r \in Requests, NEW rec \in RequestRecord,
           NEW i \in Instances
    PROVE  InsertAccept(d, r, rec, i) \in Database
<1>1. [status |-> "in_flight", stream |-> rec.stream,
       tokens |-> Unavailable, owner |-> i] \in Row
    BY DEF Row, RequestRecord, Statuses
<1> QED BY <1>1 DEF InsertAccept, Database

LEMMA FinalizedRowType ==
    ASSUME NEW o \in Row \cup {NoRow}, NEW rec \in RequestRecord, NEW i \in Instances
    PROVE  FinalizedRow(o, rec, i) \in Row
BY DEF FinalizedRow, Row, RequestRecord

LEMMA FinalizeType ==
    ASSUME NEW d \in Database, NEW r \in Requests, NEW rec \in RequestRecord,
           NEW i \in Instances
    PROVE  FinalizeRecord(d, r, rec, i) \in Database
<1> DEFINE o == d.rows[r]
           new == FinalizedRow(o, rec, i)
           cleared == IF IsTerminalRow(o)
                      THEN Retract(d.hourly, BucketKey(r, o), Metrics(o))
                      ELSE d.hourly
<1>1. /\ d.rows \in [Requests -> Row \cup {NoRow}]
      /\ d.hourly \in [Keys -> Bucket]
      /\ o \in Row \cup {NoRow}
    BY DEF Database
<1>2. new \in Row BY <1>1, FinalizedRowType
<1>3. cleared \in [Keys -> Bucket]
    <2>1. CASE IsTerminalRow(o)
        <3>1. o \in Row BY <1>1, <2>1 DEF IsTerminalRow
        <3>2. Retract(d.hourly, BucketKey(r, o), Metrics(o)) \in [Keys -> Bucket]
            BY <1>1, <3>1, KeyType, RetractType
        <3> QED BY <2>1, <3>2
    <2>2. CASE ~IsTerminalRow(o) BY <1>1, <2>2
    <2> QED BY <2>1, <2>2
<1>4. Add(cleared, BucketKey(r, new), Metrics(new)) \in [Keys -> Bucket]
    BY <1>2, <1>3, KeyType, AddType
<1>5. [d.rows EXCEPT ![r] = new] \in [Requests -> Row \cup {NoRow}]
    BY <1>1, <1>2
<1>6. FinalizeRecord(d, r, rec, i) =
        [rows |-> [d.rows EXCEPT ![r] = new],
         hourly |-> Add(cleared, BucketKey(r, new), Metrics(new))]
    BY DEF FinalizeRecord
<1> HIDE DEF o, new, cleared
<1> QED BY <1>4, <1>5, <1>6 DEF Database

\* Recovering in-flight rows keeps both tables well-typed.
LEMMA RecoverType ==
    ASSUME NEW d \in Database, NEW S \in SUBSET Requests,
           \A r \in S : d.rows[r] # NoRow
    PROVE  RecoverRows(d, S) \in Database
<1> DEFINE n(k) == Cardinality({r \in S : BucketKey(r, d.rows[r]) = k})
           R == [r \in Requests |->
                    IF r \in S THEN [d.rows[r] EXCEPT !.status = "interrupted"]
                    ELSE d.rows[r]]
           H == [k \in Keys |->
                    [count |-> d.hourly[k].count + n(k), tokens |-> d.hourly[k].tokens,
                     success |-> d.hourly[k].success,
                     failure |-> d.hourly[k].failure + n(k)]]
<1>1. /\ d.rows \in [Requests -> Row \cup {NoRow}]
      /\ d.hourly \in [Keys -> Bucket]
    BY DEF Database
<1>2. ASSUME NEW k \in Keys PROVE n(k) \in Nat
    <2>1. {r \in S : BucketKey(r, d.rows[r]) = k} \subseteq Requests OBVIOUS
    <2> QED BY <2>1, RequestsFinite, FS_Subset, FS_CardinalityType
<1>3. R \in [Requests -> Row \cup {NoRow}]
    <2>1. ASSUME NEW r \in S PROVE [d.rows[r] EXCEPT !.status = "interrupted"] \in Row
        <3>1. d.rows[r] \in Row BY <1>1
        <3> QED BY <3>1 DEF Row, Statuses
    <2> QED BY <1>1, <2>1
<1> HIDE DEF n
<1>4. H \in [Keys -> Bucket]
    <2>1. ASSUME NEW k \in Keys
          PROVE [count |-> d.hourly[k].count + n(k), tokens |-> d.hourly[k].tokens,
                 success |-> d.hourly[k].success,
                 failure |-> d.hourly[k].failure + n(k)] \in Bucket
        <3>1. d.hourly[k] \in Bucket BY <1>1
        <3> QED BY <3>1, <1>2 DEF Bucket
    <2> QED BY <2>1
<1>5. RecoverRows(d, S) = [rows |-> R, hourly |-> H]
    BY DEF RecoverRows, n
<1> HIDE DEF R, H
<1> QED BY <1>3, <1>4, <1>5 DEF Database

-----------------------------------------------------------------------------
(* Exact buckets.  Each write is a retraction, an addition, or both; each     *)
(* moves a bucket's counters by as much as it moves the sets of rows.        *)

\* The tokens each stored row contributes.
Amounts(rows) == [r \in Requests |-> Known(rows[r].tokens)]

\* The bucket k is what recomputing it from the rows gives.
ExactAt(d, k) ==
    /\ d.hourly[k].count   = Cardinality(RowsIn(d.rows, k))
    /\ d.hourly[k].tokens  = Sum(Amounts(d.rows), RowsIn(d.rows, k))
    /\ d.hourly[k].success = Cardinality(SuccessesIn(d.rows, k))
    /\ d.hourly[k].failure = Cardinality(FailuresIn(d.rows, k))

\* A row in flight has no usage yet, so recovery has none to count.
OpenBare(rows) ==
    \A r \in Requests : IsInFlightRow(rows[r]) => rows[r].tokens = Unavailable

LEMMA RowSetsFinite ==
    ASSUME NEW rows, NEW k
    PROVE  /\ IsFiniteSet(RowsIn(rows, k))
           /\ IsFiniteSet(SuccessesIn(rows, k))
           /\ IsFiniteSet(FailuresIn(rows, k))
<1>1. /\ RowsIn(rows, k) \in SUBSET Requests
      /\ SuccessesIn(rows, k) \in SUBSET Requests
      /\ FailuresIn(rows, k) \in SUBSET Requests
    BY DEF RowsIn, SuccessesIn, FailuresIn
<1> QED BY <1>1, RequestsFinite, FS_Subset

LEMMA AmountsType ==
    ASSUME NEW rows \in [Requests -> Row \cup {NoRow}], NEW r \in Requests, rows[r] # NoRow
    PROVE  /\ Amounts(rows)[r] = Known(rows[r].tokens)
           /\ Amounts(rows)[r] = Metrics(rows[r]).tokens
           /\ Amounts(rows)[r] \in Int
<1>1. rows[r] \in Row OBVIOUS
<1>2. Metrics(rows[r]).tokens = Known(rows[r].tokens) BY DEF Metrics
<1>3. Metrics(rows[r]).tokens \in Int BY <1>1, MetricsType
<1> QED BY <1>2, <1>3 DEF Amounts

LEMMA AmountsOfTerminal ==
    ASSUME NEW rows \in [Requests -> Row \cup {NoRow}], NEW k
    PROVE  \A r \in RowsIn(rows, k) : Amounts(rows)[r] \in Int
<1>1. \A r \in RowsIn(rows, k) : r \in Requests /\ rows[r] # NoRow
    BY DEF RowsIn, IsTerminalRow
<1> QED BY <1>1, AmountsType

\* Sum is the sum Aggregate takes.
LEMMA TokensSum ==
    ASSUME NEW rows, NEW S, S \subseteq Requests, IsFiniteSet(S),
           \A r \in S : Amounts(rows)[r] \in Int
    PROVE  MapThenSumSet(LAMBDA r : Known(rows[r].tokens), S) = Sum(Amounts(rows), S)
<1> DEFINE Takes(g) ==
        g = [s \in SUBSET S |-> IF s = {} THEN 0
                                ELSE Known(rows[Picked(s)].tokens) + g[s \ {Picked(s)}]]
           iter == CHOOSE iter : Takes(iter)
<1>1. MapThenSumSet(LAMBDA r : Known(rows[r].tokens), S) = iter[S]
    BY DEF MapThenSumSet, MapThenFoldSet, Picked
<1>2. PICK g : Adds(g, Amounts(rows), S) /\ Sum(Amounts(rows), S) = g[S] BY SumAdds
<1>3. ASSUME NEW s \in SUBSET S, s # {}
      PROVE  Amounts(rows)[Picked(s)] = Known(rows[Picked(s)].tokens)
    <2>1. Picked(s) \in Requests BY <1>3, PickedIn
    <2> QED BY <2>1 DEF Amounts
<1>4. \A h : Takes(h) <=> Adds(h, Amounts(rows), S)
    <2> SUFFICES ASSUME NEW h PROVE Takes(h) <=> Adds(h, Amounts(rows), S) OBVIOUS
    <2>1. \A s \in SUBSET S :
            (IF s = {} THEN 0 ELSE Known(rows[Picked(s)].tokens) + h[s \ {Picked(s)}])
              = (IF s = {} THEN 0 ELSE Amounts(rows)[Picked(s)] + h[s \ {Picked(s)}])
        BY <1>3
    <2>2. [s \in SUBSET S |-> IF s = {} THEN 0
                              ELSE Known(rows[Picked(s)].tokens) + h[s \ {Picked(s)}]]
            = [s \in SUBSET S |-> IF s = {} THEN 0
                              ELSE Amounts(rows)[Picked(s)] + h[s \ {Picked(s)}]]
        BY <2>1, Zenon
    <2> QED BY <2>2, Zenon DEF Adds
<1>5. Takes(iter) BY <1>2, <1>4
<1> HIDE DEF iter
<1>6. Adds(iter, Amounts(rows), S) BY <1>4, <1>5
<1>7. iter[S] = g[S] BY <1>2, <1>6, AddsAgree
<1> QED BY <1>1, <1>2, <1>7

\* An exact bucket is the one Aggregate computes.
LEMMA ExactIsAggregate ==
    ASSUME NEW d \in Database, NEW k \in Keys
    PROVE  ExactAt(d, k) <=> d.hourly[k] = Aggregate(d.rows)[k]
<1> DEFINE A == Aggregate(d.rows)[k]
<1>1. /\ d.rows \in [Requests -> Row \cup {NoRow}] /\ d.hourly[k] \in Bucket
    BY DEF Database
<1>2. RowsIn(d.rows, k) \subseteq Requests BY DEF RowsIn
<1>3. MapThenSumSet(LAMBDA r : Known(d.rows[r].tokens), RowsIn(d.rows, k))
        = Sum(Amounts(d.rows), RowsIn(d.rows, k))
    BY <1>1, <1>2, RowSetsFinite, AmountsOfTerminal, TokensSum
<1>4. A = [count   |-> Cardinality(RowsIn(d.rows, k)),
           tokens  |-> MapThenSumSet(LAMBDA r : Known(d.rows[r].tokens), RowsIn(d.rows, k)),
           success |-> Cardinality(SuccessesIn(d.rows, k)),
           failure |-> Cardinality(FailuresIn(d.rows, k))]
    BY Zenon DEF Aggregate
<1>5. A = [count   |-> Cardinality(RowsIn(d.rows, k)),
           tokens  |-> Sum(Amounts(d.rows), RowsIn(d.rows, k)),
           success |-> Cardinality(SuccessesIn(d.rows, k)),
           failure |-> Cardinality(FailuresIn(d.rows, k))]
    BY <1>3, <1>4, Zenon
<1> HIDE DEF A
<1>6. ExactAt(d, k) <=> d.hourly[k] = A
    BY <1>1, <1>5 DEF ExactAt, Bucket
<1> QED BY <1>6 DEF A

\* Rows that leave a bucket's own rows alone leave what it counts alone.
LEMMA SameBucket ==
    ASSUME NEW rows \in [Requests -> Row \cup {NoRow}], NEW k,
           NEW new \in [Requests -> Row \cup {NoRow}],
           RowsIn(new, k) = RowsIn(rows, k),
           \A r \in RowsIn(rows, k) : new[r] = rows[r]
    PROVE  /\ SuccessesIn(new, k) = SuccessesIn(rows, k)
           /\ FailuresIn(new, k) = FailuresIn(rows, k)
           /\ Sum(Amounts(new), RowsIn(new, k)) = Sum(Amounts(rows), RowsIn(rows, k))
<1>1. RowsIn(rows, k) \subseteq Requests BY DEF RowsIn
<1>2. \A r \in RowsIn(rows, k) :
        Amounts(rows)[r] \in Int /\ Amounts(rows)[r] = Amounts(new)[r]
    BY <1>1, AmountsOfTerminal DEF Amounts
<1>3. Sum(Amounts(rows), RowsIn(rows, k)) = Sum(Amounts(new), RowsIn(rows, k))
    BY <1>2, RowSetsFinite, SumSame
<1> QED BY <1>3 DEF SuccessesIn, FailuresIn

\* An accept inserts a row that counts nowhere yet.
LEMMA AcceptExact ==
    ASSUME NEW d \in Database, NEW k \in Keys, ExactAt(d, k), NEW r \in Requests,
           NEW rec \in RequestRecord, NEW i \in Instances
    PROVE  ExactAt(InsertAccept(d, r, rec, i), k)
<1>1. CASE d.rows[r] # NoRow BY <1>1 DEF InsertAccept
<1>2. CASE d.rows[r] = NoRow
    <2> DEFINE new == [status |-> "in_flight", stream |-> rec.stream,
                       tokens |-> Unavailable, owner |-> i]
               R == [d.rows EXCEPT ![r] = new]
    <2>0. d.rows \in [Requests -> Row \cup {NoRow}] /\ R \in [Requests -> Row \cup {NoRow}]
        BY DEF Database, Row, Statuses, RequestRecord
    <2>1. /\ InsertAccept(d, r, rec, i).rows = R
          /\ InsertAccept(d, r, rec, i).hourly = d.hourly
        BY <1>2 DEF InsertAccept, Database
    <2>2. ~IsTerminalRow(new) /\ ~IsTerminalRow(d.rows[r])
        BY <1>2 DEF IsTerminalRow, Terminal
    <2>3. /\ R[r] = new
          /\ \A q \in Requests \ {r} : R[q] = d.rows[q]
        BY <2>0
    <2> HIDE DEF new, R
    <2>4. RowsIn(R, k) = RowsIn(d.rows, k) BY <2>2, <2>3 DEF RowsIn
    <2>5. \A q \in RowsIn(d.rows, k) : R[q] = d.rows[q] BY <2>2, <2>3 DEF RowsIn
    <2> QED BY <2>0, <2>1, <2>4, <2>5, SameBucket DEF ExactAt
<1> QED BY <1>1, <1>2

\* Contribution::add for a row that was not counted.
LEMMA AddExact ==
    ASSUME NEW d \in Database, NEW k \in Keys, ExactAt(d, k), NEW r \in Requests,
           ~IsTerminalRow(d.rows[r]), NEW new \in Row, IsTerminalRow(new)
    PROVE  ExactAt([rows   |-> [d.rows EXCEPT ![r] = new],
                    hourly |-> Add(d.hourly, BucketKey(r, new), Metrics(new))], k)
<1> DEFINE K == BucketKey(r, new)
           R == [d.rows EXCEPT ![r] = new]
           H == Add(d.hourly, K, Metrics(new))
<1>0. d.rows \in [Requests -> Row \cup {NoRow}] /\ R \in [Requests -> Row \cup {NoRow}]
    BY DEF Database
<1>1. K \in Keys BY KeyType
<1>2. /\ R[r] = new
      /\ \A q \in Requests \ {r} : R[q] = d.rows[q]
    BY <1>0
<1>3. /\ H[K].count = d.hourly[K].count + 1
      /\ H[K].tokens = d.hourly[K].tokens + Metrics(new).tokens
      /\ H[K].success = d.hourly[K].success + Metrics(new).success
      /\ H[K].failure = d.hourly[K].failure + Metrics(new).failure
      /\ k # K => H[k] = d.hourly[k]
    BY <1>1 DEF Add, Database
<1>4. BucketKey(r, R[r]) = K BY <1>2
<1> HIDE DEF K, R, H
<1>5. /\ H[k].count   = Cardinality(RowsIn(R, k))
      /\ H[k].tokens  = Sum(Amounts(R), RowsIn(R, k))
      /\ H[k].success = Cardinality(SuccessesIn(R, k))
      /\ H[k].failure = Cardinality(FailuresIn(R, k))
    <2>0. /\ d.hourly[k].count   = Cardinality(RowsIn(d.rows, k))
          /\ d.hourly[k].tokens  = Sum(Amounts(d.rows), RowsIn(d.rows, k))
          /\ d.hourly[k].success = Cardinality(SuccessesIn(d.rows, k))
          /\ d.hourly[k].failure = Cardinality(FailuresIn(d.rows, k))
          /\ d.hourly[k].success \in Int /\ d.hourly[k].failure \in Int
          /\ d.hourly[k].tokens \in Int
        BY DEF ExactAt, Database, Bucket
    <2>1. r \notin RowsIn(d.rows, k) BY DEF RowsIn
    <2>2. CASE k = K
        <3>1. RowsIn(R, k) = RowsIn(d.rows, k) \cup {r}
            BY <1>2, <1>4, <2>1, <2>2 DEF RowsIn
        <3>2. SuccessesIn(R, k) = IF new.status = "completed"
                                  THEN SuccessesIn(d.rows, k) \cup {r}
                                  ELSE SuccessesIn(d.rows, k)
            BY <1>2, <3>1, <2>1 DEF SuccessesIn, RowsIn
        <3>3. FailuresIn(R, k) = IF new.status \in {"failed", "interrupted"}
                                 THEN FailuresIn(d.rows, k) \cup {r}
                                 ELSE FailuresIn(d.rows, k)
            BY <1>2, <3>1, <2>1 DEF FailuresIn, RowsIn
        <3>4. r \notin SuccessesIn(d.rows, k) /\ r \notin FailuresIn(d.rows, k)
            BY <2>1 DEF SuccessesIn, FailuresIn
        <3>5. Cardinality(RowsIn(R, k)) = Cardinality(RowsIn(d.rows, k)) + 1
            BY <3>1, <2>1, RowSetsFinite, FS_AddElement
        <3>6. Cardinality(SuccessesIn(R, k)) =
                Cardinality(SuccessesIn(d.rows, k)) + Metrics(new).success
            <4>1. CASE new.status = "completed"
                BY <4>1, <3>2, <3>4, RowSetsFinite, FS_AddElement DEF Metrics
            <4>2. CASE new.status # "completed" BY <4>2, <3>2, <2>0 DEF Metrics
            <4> QED BY <4>1, <4>2
        <3>7. Cardinality(FailuresIn(R, k)) =
                Cardinality(FailuresIn(d.rows, k)) + Metrics(new).failure
            <4>1. CASE new.status \in {"failed", "interrupted"}
                BY <4>1, <3>3, <3>4, RowSetsFinite, FS_AddElement DEF Metrics
            <4>2. CASE new.status \notin {"failed", "interrupted"}
                BY <4>2, <3>3, <2>0 DEF Metrics
            <4> QED BY <4>1, <4>2
        <3>8. Sum(Amounts(R), RowsIn(R, k)) =
                Metrics(new).tokens + Sum(Amounts(d.rows), RowsIn(d.rows, k))
            <4>1. Amounts(R)[r] = Metrics(new).tokens
                BY <1>0, <1>2, NoRowFresh, AmountsType
            <4>2. \A q \in RowsIn(d.rows, k) : q \in Requests /\ R[q] = d.rows[q]
                BY <1>2, <2>1 DEF RowsIn
            <4>3. \A q \in RowsIn(d.rows, k) : /\ Amounts(d.rows)[q] \in Int
                                               /\ Amounts(d.rows)[q] = Amounts(R)[q]
                BY <1>0, <4>2, AmountsOfTerminal DEF Amounts
            <4>4. Sum(Amounts(d.rows), RowsIn(d.rows, k)) = Sum(Amounts(R), RowsIn(d.rows, k))
                BY <4>3, RowSetsFinite, SumSame
            <4>5. \A q \in RowsIn(d.rows, k) \cup {r} : Amounts(R)[q] \in Int
                BY <1>0, <3>1, AmountsOfTerminal
            <4> QED BY <2>1, <3>1, <4>1, <4>4, <4>5, RowSetsFinite, SumAdd
        <3>9. Metrics(new).tokens \in Int BY MetricsType
        <3> QED BY <1>3, <2>0, <2>2, <3>5, <3>6, <3>7, <3>8, <3>9
    <2>3. CASE k # K
        <3>1. RowsIn(R, k) = RowsIn(d.rows, k)
            BY <1>2, <1>4, <2>1, <2>3 DEF RowsIn
        <3>2. \A q \in RowsIn(d.rows, k) : R[q] = d.rows[q]
            BY <1>2, <2>1 DEF RowsIn
        <3> QED BY <1>0, <1>3, <2>0, <2>3, <3>1, <3>2, SameBucket
    <2> QED BY <2>2, <2>3
<1>6. [rows |-> R, hourly |-> H].rows = R /\ [rows |-> R, hourly |-> H].hourly = H
    OBVIOUS
<1>7. ExactAt([rows |-> R, hourly |-> H], k) BY <1>5, <1>6 DEF ExactAt
<1> QED BY <1>7 DEF R, H, K

\* Contribution::retract of a counted row; a bucket that empties is deleted, and
\* loses nothing by it.
LEMMA RetractExact ==
    ASSUME NEW d \in Database, NEW k \in Keys, ExactAt(d, k), NEW r \in Requests,
           IsTerminalRow(d.rows[r])
    PROVE  ExactAt([rows   |-> [d.rows EXCEPT ![r] = NoRow],
                    hourly |-> Retract(d.hourly, BucketKey(r, d.rows[r]),
                                       Metrics(d.rows[r]))], k)
<1> DEFINE o == d.rows[r]
           K == BucketKey(r, o)
           R == [d.rows EXCEPT ![r] = NoRow]
           H == Retract(d.hourly, K, Metrics(o))
<1>0. /\ o \in Row /\ d.rows \in [Requests -> Row \cup {NoRow}]
      /\ R \in [Requests -> Row \cup {NoRow}]
    BY DEF IsTerminalRow, Database
<1>1. K \in Keys BY <1>0, KeyType
<1>2. /\ ~IsTerminalRow(R[r])
      /\ \A q \in Requests \ {r} : R[q] = d.rows[q]
    BY DEF Database, IsTerminalRow
<1>3. /\ k # K => H[k] = d.hourly[k]
      /\ d.hourly[K].count - 1 <= 0 => H[K] = EmptyBucket
      /\ ~(d.hourly[K].count - 1 <= 0) =>
            /\ H[K].count = d.hourly[K].count - 1
            /\ H[K].tokens = d.hourly[K].tokens - Metrics(o).tokens
            /\ H[K].success = d.hourly[K].success - Metrics(o).success
            /\ H[K].failure = d.hourly[K].failure - Metrics(o).failure
    BY <1>1 DEF Retract, Database
<1>4. IsTerminalRow(o) /\ o = d.rows[r] /\ K = BucketKey(r, d.rows[r]) OBVIOUS
<1> HIDE DEF K, R, H, o
<1>5. /\ H[k].count   = Cardinality(RowsIn(R, k))
      /\ H[k].tokens  = Sum(Amounts(R), RowsIn(R, k))
      /\ H[k].success = Cardinality(SuccessesIn(R, k))
      /\ H[k].failure = Cardinality(FailuresIn(R, k))
    <2>0. /\ d.hourly[k].count   = Cardinality(RowsIn(d.rows, k))
          /\ d.hourly[k].tokens  = Sum(Amounts(d.rows), RowsIn(d.rows, k))
          /\ d.hourly[k].success = Cardinality(SuccessesIn(d.rows, k))
          /\ d.hourly[k].failure = Cardinality(FailuresIn(d.rows, k))
          /\ d.hourly[k].success \in Int /\ d.hourly[k].failure \in Int
          /\ d.hourly[k].count \in Int /\ d.hourly[k].tokens \in Int
        BY DEF ExactAt, Database, Bucket
    <2>2. CASE k = K
        <3>0. r \in RowsIn(d.rows, k) BY <1>4, <2>2 DEF RowsIn
        <3>1. RowsIn(R, k) = RowsIn(d.rows, k) \ {r}
            BY <1>2, <3>0 DEF RowsIn
        <3>2. SuccessesIn(R, k) = SuccessesIn(d.rows, k) \ {r}
            BY <1>2, <3>1 DEF SuccessesIn, RowsIn
        <3>3. FailuresIn(R, k) = FailuresIn(d.rows, k) \ {r}
            BY <1>2, <3>1 DEF FailuresIn, RowsIn
        <3>4. /\ r \in SuccessesIn(d.rows, k) <=> o.status = "completed"
              /\ r \in FailuresIn(d.rows, k) <=> o.status \in {"failed", "interrupted"}
            BY <1>4, <3>0 DEF SuccessesIn, FailuresIn
        <3>5. Cardinality(RowsIn(R, k)) = Cardinality(RowsIn(d.rows, k)) - 1
            BY <3>0, <3>1, RowSetsFinite, Smaller
        <3>6. Cardinality(SuccessesIn(R, k)) =
                Cardinality(SuccessesIn(d.rows, k)) - Metrics(o).success
            <4>0. /\ Cardinality(SuccessesIn(d.rows, k) \ {r}) =
                       IF r \in SuccessesIn(d.rows, k)
                       THEN Cardinality(SuccessesIn(d.rows, k)) - 1
                       ELSE Cardinality(SuccessesIn(d.rows, k))
                  /\ Cardinality(SuccessesIn(d.rows, k)) \in Int
                BY <2>0, RowSetsFinite, FS_RemoveElement
            <4>1. CASE o.status = "completed"
                <5>1. Metrics(o).success = 1 BY <4>1 DEF Metrics
                <5> QED BY <4>0, <4>1, <5>1, <3>2, <3>4
            <4>2. CASE o.status # "completed"
                <5>1. Metrics(o).success = 0 BY <4>2 DEF Metrics
                <5> QED BY <4>0, <4>2, <5>1, <3>2, <3>4
            <4> QED BY <4>1, <4>2
        <3>7. Cardinality(FailuresIn(R, k)) =
                Cardinality(FailuresIn(d.rows, k)) - Metrics(o).failure
            <4>0. /\ Cardinality(FailuresIn(d.rows, k) \ {r}) =
                       IF r \in FailuresIn(d.rows, k)
                       THEN Cardinality(FailuresIn(d.rows, k)) - 1
                       ELSE Cardinality(FailuresIn(d.rows, k))
                  /\ Cardinality(FailuresIn(d.rows, k)) \in Int
                BY <2>0, RowSetsFinite, FS_RemoveElement
            <4>1. CASE o.status \in {"failed", "interrupted"}
                <5>1. Metrics(o).failure = 1 BY <4>1 DEF Metrics
                <5> QED BY <4>0, <4>1, <5>1, <3>3, <3>4
            <4>2. CASE o.status \notin {"failed", "interrupted"}
                <5>1. Metrics(o).failure = 0 BY <4>2 DEF Metrics
                <5> QED BY <4>0, <4>2, <5>1, <3>3, <3>4
            <4> QED BY <4>1, <4>2
        <3>7a. /\ Sum(Amounts(d.rows), RowsIn(d.rows, k)) =
                    Metrics(o).tokens + Sum(Amounts(R), RowsIn(R, k))
               /\ Sum(Amounts(R), RowsIn(R, k)) \in Int
            <4>1. Amounts(d.rows)[r] = Metrics(o).tokens
                BY <1>0, <1>4, AmountsType DEF IsTerminalRow
            <4>2. \A q \in RowsIn(R, k) : q \in Requests \ {r}
                BY <1>2 DEF RowsIn
            <4>3. \A q \in RowsIn(R, k) : /\ Amounts(R)[q] \in Int
                                           /\ Amounts(R)[q] = Amounts(d.rows)[q]
                BY <1>0, <1>2, <4>2, AmountsOfTerminal DEF Amounts
            <4>4. Sum(Amounts(R), RowsIn(R, k)) = Sum(Amounts(d.rows), RowsIn(R, k))
                BY <4>3, RowSetsFinite, SumSame
            <4>5. \A q \in RowsIn(d.rows, k) : Amounts(d.rows)[q] \in Int
                BY <1>0, AmountsOfTerminal
            <4> QED BY <3>0, <3>1, <4>1, <4>4, <4>5, RowSetsFinite, SumRemove
        <3>7b. Metrics(o).tokens \in Int BY <1>0, MetricsType
        <3>8. CASE d.hourly[k].count - 1 <= 0
            <4>1. Cardinality(RowsIn(R, k)) = 0
                BY <3>5, <3>8, <2>0, RowSetsFinite, FS_CardinalityType
            <4>2. RowsIn(R, k) = {} BY <4>1, RowSetsFinite, FS_EmptySet
            <4>3. SuccessesIn(R, k) = {} /\ FailuresIn(R, k) = {}
                BY <4>2 DEF SuccessesIn, FailuresIn
            <4> QED BY <1>3, <2>2, <3>8, <4>2, <4>3, FS_EmptySet, SumEmpty DEF EmptyBucket
        <3>9. CASE ~(d.hourly[k].count - 1 <= 0)
            BY <1>3, <2>0, <2>2, <3>5, <3>6, <3>7, <3>7a, <3>7b, <3>9
        <3> QED BY <3>8, <3>9
    <2>3. CASE k # K
        <3>0. r \notin RowsIn(d.rows, k) BY <1>4, <2>3 DEF RowsIn
        <3>1. RowsIn(R, k) = RowsIn(d.rows, k)
            BY <1>2, <3>0 DEF RowsIn
        <3>2. \A q \in RowsIn(d.rows, k) : R[q] = d.rows[q]
            BY <1>2, <3>0 DEF RowsIn
        <3> QED BY <1>0, <1>3, <2>0, <2>3, <3>1, <3>2, SameBucket
    <2> QED BY <2>2, <2>3
<1>6. [rows |-> R, hourly |-> H].rows = R /\ [rows |-> R, hourly |-> H].hourly = H
    OBVIOUS
<1>7. ExactAt([rows |-> R, hourly |-> H], k) BY <1>5, <1>6 DEF ExactAt
<1> QED BY <1>7 DEF R, H, K, o

\* finalize_record: whatever the row was, it is counted once, in its new bucket.
LEMMA FinalizeExact ==
    ASSUME NEW d \in Database, NEW k \in Keys, ExactAt(d, k), NEW r \in Requests,
           NEW rec \in RequestRecord, rec.status \in Terminal, NEW i \in Instances
    PROVE  ExactAt(FinalizeRecord(d, r, rec, i), k)
<1> DEFINE o == d.rows[r]
           new == FinalizedRow(o, rec, i)
<1>1. o \in Row \cup {NoRow} BY DEF Database
<1>2. new \in Row BY <1>1, FinalizedRowType
<1>3. IsTerminalRow(new)
    <2>1. new # NoRow BY <1>2, NoRowFresh
    <2>2. new.status = rec.status BY DEF FinalizedRow
    <2> QED BY <2>1, <2>2 DEF IsTerminalRow
<1>4. CASE ~IsTerminalRow(o)
    <2>1. FinalizeRecord(d, r, rec, i) =
            [rows   |-> [d.rows EXCEPT ![r] = new],
             hourly |-> Add(d.hourly, BucketKey(r, new), Metrics(new))]
        BY <1>4 DEF FinalizeRecord
    <2> HIDE DEF new
    <2> QED BY <1>2, <1>3, <1>4, <2>1, AddExact
<1>5. CASE IsTerminalRow(o)
    <2> DEFINE H == Retract(d.hourly, BucketKey(r, o), Metrics(o))
               d1 == [rows |-> [d.rows EXCEPT ![r] = NoRow], hourly |-> H]
    <2>1. o \in Row BY <1>1, <1>5 DEF IsTerminalRow
    <2>2. d1 \in Database
        <3>1. H \in [Keys -> Bucket] BY <2>1, KeyType, RetractType DEF Database
        <3>2. [d.rows EXCEPT ![r] = NoRow] \in [Requests -> Row \cup {NoRow}]
            BY DEF Database
        <3> HIDE DEF H
        <3> QED BY <3>1, <3>2 DEF Database
    <2>3. ExactAt(d1, k) BY <1>5, RetractExact
    <2>4. d1.rows = [d.rows EXCEPT ![r] = NoRow] /\ d1.hourly = H OBVIOUS
    <2>5. ~IsTerminalRow(d1.rows[r]) BY DEF Database, IsTerminalRow
    <2>6. [d1.rows EXCEPT ![r] = new] = [d.rows EXCEPT ![r] = new]
        BY DEF Database
    <2>7. FinalizeRecord(d, r, rec, i) =
            [rows   |-> [d1.rows EXCEPT ![r] = new],
             hourly |-> Add(d1.hourly, BucketKey(r, new), Metrics(new))]
        BY <1>5, <2>4, <2>6 DEF FinalizeRecord
    <2> HIDE DEF d1, new
    <2> QED BY <1>2, <1>3, <2>2, <2>3, <2>5, <2>7, AddExact
<1> QED BY <1>4, <1>5

\* recover_in_tx: the rows it updates and the failures it adds are the same rows.
LEMMA RecoverExact ==
    ASSUME NEW d \in Database, NEW k \in Keys, ExactAt(d, k), OpenBare(d.rows),
           NEW S \in SUBSET Requests,
           \A r \in S : IsInFlightRow(d.rows[r])
    PROVE  ExactAt(RecoverRows(d, S), k)
<1> DEFINE R == RecoverRows(d, S).rows
           H == RecoverRows(d, S).hourly
           In(b) == {r \in S : BucketKey(r, d.rows[r]) = b}
<1>1. /\ \A q \in Requests \ S : R[q] = d.rows[q]
      /\ \A q \in S : R[q] = [d.rows[q] EXCEPT !.status = "interrupted"]
    BY DEF RecoverRows
<1>2. \A q \in S : d.rows[q] \in Row BY DEF IsInFlightRow, Database
<1>3. \A q \in S : /\ R[q] \in Row
                    /\ R[q].status = "interrupted"
                    /\ BucketKey(q, R[q]) = BucketKey(q, d.rows[q])
  <2> SUFFICES ASSUME NEW q \in S
               PROVE  /\ R[q] \in Row
                      /\ R[q].status = "interrupted"
                      /\ BucketKey(q, R[q]) = BucketKey(q, d.rows[q])
      OBVIOUS
  <2> HIDE DEF R
  <2>1. d.rows[q] \in Row BY <1>2
  <2>2. R[q] = [d.rows[q] EXCEPT !.status = "interrupted"] BY <1>1
  <2> QED BY <2>1, <2>2 DEF Row, Statuses, BucketKey
<1>4. \A q \in S : IsTerminalRow(R[q]) /\ ~IsTerminalRow(d.rows[q])
    BY <1>3, NoRowFresh DEF IsTerminalRow, IsInFlightRow, Terminal, Statuses
<1>5. /\ H[k].count = d.hourly[k].count + Cardinality(In(k))
      /\ H[k].tokens = d.hourly[k].tokens
      /\ H[k].success = d.hourly[k].success
      /\ H[k].failure = d.hourly[k].failure + Cardinality(In(k))
    BY DEF RecoverRows
<1>6. /\ d.rows \in [Requests -> Row \cup {NoRow}]
      /\ R \in [Requests -> Row \cup {NoRow}]
    BY RecoverType DEF Database, IsInFlightRow
<1>7. \A q \in S : Known(R[q].tokens) = 0
    <2> SUFFICES ASSUME NEW q \in S PROVE R[q].tokens = Unavailable BY DEF Known
    <2> HIDE DEF R
    <2>1. d.rows[q] \in Row /\ d.rows[q].tokens = Unavailable BY <1>2 DEF OpenBare
    <2> QED BY <1>1, <2>1 DEF Row
<1> HIDE DEF R, H
<1>8. /\ H[k].count   = Cardinality(RowsIn(R, k))
      /\ H[k].tokens  = Sum(Amounts(R), RowsIn(R, k))
      /\ H[k].success = Cardinality(SuccessesIn(R, k))
      /\ H[k].failure = Cardinality(FailuresIn(R, k))
    <2>1. RowsIn(R, k) = RowsIn(d.rows, k) \cup In(k)
        BY <1>1, <1>3, <1>4 DEF RowsIn
    <2>2. RowsIn(d.rows, k) \cap In(k) = {} BY <1>4 DEF RowsIn
    <2>3. SuccessesIn(R, k) = SuccessesIn(d.rows, k)
        BY <1>1, <1>3, <1>4, <2>1 DEF SuccessesIn, RowsIn
    <2>4. FailuresIn(R, k) = FailuresIn(d.rows, k) \cup In(k)
        BY <1>1, <1>3, <1>4, <2>1 DEF FailuresIn, RowsIn
    <2>5. FailuresIn(d.rows, k) \cap In(k) = {} BY <2>2 DEF FailuresIn
    <2>6. IsFiniteSet(In(k))
        <3>1. In(k) \in SUBSET Requests OBVIOUS
        <3> QED BY <3>1, RequestsFinite, FS_Subset
    <2>6a. \A q \in In(k) : Amounts(R)[q] = 0 BY <1>7 DEF Amounts
    <2> HIDE DEF In
    <2>6b. Sum(Amounts(R), RowsIn(R, k)) = Sum(Amounts(d.rows), RowsIn(d.rows, k))
        <3>1. \A q \in RowsIn(R, k) : Amounts(R)[q] \in Int BY <1>6, AmountsOfTerminal
        <3>2. Sum(Amounts(R), RowsIn(R, k)) =
                Sum(Amounts(R), RowsIn(d.rows, k)) + Sum(Amounts(R), In(k))
            BY <2>1, <2>2, <2>6, <3>1, RowSetsFinite, SumUnion
        <3>3. Sum(Amounts(R), In(k)) = 0 BY <2>6, <2>6a, SumZero
        <3>4. \A q \in RowsIn(d.rows, k) : q \in Requests /\ R[q] = d.rows[q]
            BY <1>1, <1>4 DEF RowsIn
        <3>5. \A q \in RowsIn(d.rows, k) : /\ Amounts(d.rows)[q] \in Int
                                           /\ Amounts(d.rows)[q] = Amounts(R)[q]
            BY <1>6, <3>4, AmountsOfTerminal DEF Amounts
        <3>6. Sum(Amounts(d.rows), RowsIn(d.rows, k)) = Sum(Amounts(R), RowsIn(d.rows, k))
            BY <3>5, RowSetsFinite, SumSame
        <3>7. Sum(Amounts(d.rows), RowsIn(d.rows, k)) \in Int
            BY <3>5, RowSetsFinite, SumInt
        <3> QED BY <3>2, <3>3, <3>6, <3>7
    <2>7. /\ Cardinality(RowsIn(R, k)) =
                Cardinality(RowsIn(d.rows, k)) + Cardinality(In(k)) - 0
          /\ Cardinality(FailuresIn(R, k)) =
                Cardinality(FailuresIn(d.rows, k)) + Cardinality(In(k)) - 0
        BY <2>1, <2>2, <2>4, <2>5, <2>6, RowSetsFinite, FS_Union, FS_EmptySet
    <2>8. /\ d.hourly[k].count   = Cardinality(RowsIn(d.rows, k))
          /\ d.hourly[k].tokens  = Sum(Amounts(d.rows), RowsIn(d.rows, k))
          /\ d.hourly[k].success = Cardinality(SuccessesIn(d.rows, k))
          /\ d.hourly[k].failure = Cardinality(FailuresIn(d.rows, k))
        BY DEF ExactAt
    <2>9. /\ Cardinality(RowsIn(d.rows, k)) \in Int
          /\ Cardinality(FailuresIn(d.rows, k)) \in Int
          /\ Cardinality(In(k)) \in Int
        BY <2>6, RowSetsFinite, FS_CardinalityType
    <2> QED BY <1>5, <2>3, <2>6b, <2>7, <2>8, <2>9 DEF In
<1> QED BY <1>8 DEF ExactAt, R, H

\* The writes leave rows in flight without usage.
LEMMA AcceptBare ==
    ASSUME NEW d \in Database, OpenBare(d.rows), NEW r \in Requests,
           NEW rec \in RequestRecord, NEW i \in Instances
    PROVE  OpenBare(InsertAccept(d, r, rec, i).rows)
<1>1. CASE d.rows[r] # NoRow BY <1>1 DEF InsertAccept
<1>2. CASE d.rows[r] = NoRow
    <2>1. InsertAccept(d, r, rec, i).rows =
            [d.rows EXCEPT ![r] = [status |-> "in_flight", stream |-> rec.stream,
                                   tokens |-> Unavailable, owner |-> i]]
        BY <1>2 DEF InsertAccept
    <2> QED BY <2>1 DEF OpenBare, Database
<1> QED BY <1>1, <1>2

LEMMA FinalizeBare ==
    ASSUME NEW d \in Database, OpenBare(d.rows), NEW r \in Requests,
           NEW rec \in RequestRecord, rec.status \in Terminal, NEW i \in Instances
    PROVE  OpenBare(FinalizeRecord(d, r, rec, i).rows)
<1> DEFINE new == FinalizedRow(d.rows[r], rec, i)
<1>1. FinalizeRecord(d, r, rec, i).rows = [d.rows EXCEPT ![r] = new]
    BY DEF FinalizeRecord
<1>2. ~IsInFlightRow(new) BY DEF FinalizedRow, IsInFlightRow, Terminal
<1> HIDE DEF new
<1> QED BY <1>1, <1>2 DEF OpenBare, Database

LEMMA RecoverBare ==
    ASSUME NEW d \in Database, OpenBare(d.rows), NEW S \in SUBSET Requests,
           \A r \in S : IsInFlightRow(d.rows[r])
    PROVE  OpenBare(RecoverRows(d, S).rows)
<1> DEFINE R == RecoverRows(d, S).rows
<1>1. ASSUME NEW r \in S PROVE ~IsInFlightRow(R[r])
    <2>1. R[r] = [d.rows[r] EXCEPT !.status = "interrupted"] BY DEF RecoverRows
    <2>2. d.rows[r] \in Row BY DEF Database, IsInFlightRow
    <2> HIDE DEF R
    <2> QED BY <2>1, <2>2 DEF Row, IsInFlightRow
<1>2. \A r \in Requests \ S : R[r] = d.rows[r] BY DEF RecoverRows
<1> HIDE DEF R
<1>3. OpenBare(R) BY <1>1, <1>2 DEF OpenBare
<1> QED BY <1>3 DEF R

\* Every bucket exact is the whole table recomputed.
LEMMA AllExact ==
    ASSUME NEW d \in Database
    PROVE  (\A k \in Keys : ExactAt(d, k)) <=> d.hourly = Aggregate(d.rows)
<1> DEFINE A == Aggregate(d.rows)
<1>1. A = [k \in Keys |-> A[k]] BY Zenon DEF Aggregate
<1>2. d.hourly = [k \in Keys |-> d.hourly[k]] BY DEF Database
<1>3. \A k \in Keys : ExactAt(d, k) <=> d.hourly[k] = A[k] BY ExactIsAggregate
<1> HIDE DEF A
<1>4. (\A k \in Keys : ExactAt(d, k)) <=> d.hourly = A BY <1>1, <1>2, <1>3
<1> QED BY <1>4 DEF A

-----------------------------------------------------------------------------
(* The whole table. *)

Exact(d) == OpenBare(d.rows) /\ \A k \in Keys : ExactAt(d, k)

LEMMA AcceptKeepsExact ==
    ASSUME NEW d \in Database, Exact(d), NEW r \in Requests,
           NEW rec \in RequestRecord, NEW i \in Instances
    PROVE  Exact(InsertAccept(d, r, rec, i))
BY AcceptExact, AcceptBare DEF Exact

LEMMA FinalizeKeepsExact ==
    ASSUME NEW d \in Database, Exact(d), NEW r \in Requests,
           NEW rec \in RequestRecord, rec.status \in Terminal, NEW i \in Instances
    PROVE  Exact(FinalizeRecord(d, r, rec, i))
BY FinalizeExact, FinalizeBare DEF Exact

LEMMA RecoverKeepsExact ==
    ASSUME NEW d \in Database, Exact(d), NEW S \in SUBSET Requests,
           \A r \in S : IsInFlightRow(d.rows[r])
    PROVE  Exact(RecoverRows(d, S))
BY RecoverExact, RecoverBare DEF Exact

\* A database without a terminal row and without a bucket is exact.
LEMMA EmptyExact ==
    ASSUME NEW d \in Database, OpenBare(d.rows), \A r \in Requests : ~IsTerminalRow(d.rows[r]),
           \A k \in Keys : d.hourly[k] = EmptyBucket
    PROVE  Exact(d)
<1> SUFFICES ASSUME NEW k \in Keys PROVE ExactAt(d, k) BY DEF Exact
<1>1. /\ RowsIn(d.rows, k) = {}
      /\ SuccessesIn(d.rows, k) = {} /\ FailuresIn(d.rows, k) = {}
    BY DEF RowsIn, SuccessesIn, FailuresIn
<1> QED BY <1>1, FS_EmptySet, SumEmpty DEF ExactAt, EmptyBucket

=============================================================================
