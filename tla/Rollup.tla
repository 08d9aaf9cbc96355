------------------------------- MODULE Rollup -------------------------------
(***************************************************************************)
(* The two tables the ledger keeps and the writes that maintain them.      *)
(*                                                                         *)
(* usage_records holds one raw row per request; usage_hourly holds one     *)
(* bucket per (hour, consumer, model, endpoint, streaming).  Buckets are   *)
(* maintained by deltas: a write retracts what a row contributed and adds  *)
(* what it contributes now.  This module has no state of its own; it is    *)
(* the vocabulary Metering and UsageLedger share.                          *)
(*                                                                         *)
(* Abstractions: the four bucket columns that are fixed when a request is  *)
(* accepted (hour, consumer, model, endpoint) are one value, DimOf[r]; the *)
(* three token columns, the duration and the time to first token are       *)
(* carried by the same code and are one amount, tokens.                    *)
(***************************************************************************)
EXTENDS Integers, FiniteSets, FiniteSetsExt

CONSTANTS
    Requests,     \* request ids, primary key of usage_records
    Instances,    \* instance ids: one per process start, never reused
    Dims,         \* values of the fixed bucket columns
    DimOf,        \* the fixed bucket columns of each request
    Usages,       \* token amounts an upstream can report
    NoRow,        \* no row in usage_records
    NoOwner,      \* instance_id IS NULL: a row from before row ownership
    Unavailable   \* usage the upstream never reported (NULL columns)

ASSUME RequestsFinite == IsFiniteSet(Requests)
ASSUME DimOfType == DimOf \in [Requests -> Dims]
ASSUME UsagesNat == Usages \subseteq Nat /\ Unavailable \notin Nat
ASSUME OwnersDistinct == NoOwner \notin Instances

Statuses == {"in_flight", "completed", "failed", "interrupted"}
Terminal == Statuses \ {"in_flight"}

\* What a handler knows of a request and hands to the writer.
RequestRecord == [status : Statuses, stream : BOOLEAN,
                  tokens : Usages \cup {Unavailable}]

Row == [status : Statuses, stream : BOOLEAN,
        tokens : Usages \cup {Unavailable}, owner : Instances \cup {NoOwner}]

ASSUME NoRowFresh == NoRow \notin Row

Keys == Dims \X BOOLEAN

\* A bucket; the absent bucket is EmptyBucket, because the code deletes a
\* bucket the moment its request count is no longer positive.
Bucket == [count : Int, tokens : Int, success : Int, failure : Int]
EmptyBucket == [count |-> 0, tokens |-> 0, success |-> 0, failure |-> 0]

Database == [rows : [Requests -> Row \cup {NoRow}], hourly : [Keys -> Bucket]]

-----------------------------------------------------------------------------
(* Contributions. *)

BucketKey(r, row) == <<DimOf[r], row.stream>>

Known(tokens) == IF tokens = Unavailable THEN 0 ELSE tokens

Metrics(row) ==
    [tokens  |-> Known(row.tokens),
     success |-> IF row.status = "completed" THEN 1 ELSE 0,
     failure |-> IF row.status \in {"failed", "interrupted"} THEN 1 ELSE 0]

Add(hourly, key, m) ==
    [hourly EXCEPT ![key] =
        [count   |-> @.count + 1,
         tokens  |-> @.tokens + m.tokens,
         success |-> @.success + m.success,
         failure |-> @.failure + m.failure]]

\* UPDATE ... - 1, then DELETE ... WHERE request_count <= 0.
Retract(hourly, key, m) ==
    [hourly EXCEPT ![key] =
        IF @.count - 1 <= 0 THEN EmptyBucket
        ELSE [count   |-> @.count - 1,
              tokens  |-> @.tokens - m.tokens,
              success |-> @.success - m.success,
              failure |-> @.failure - m.failure]]

-----------------------------------------------------------------------------
(* The writes, each on a database as its transaction sees it. *)

IsTerminalRow(row) == row # NoRow /\ row.status \in Terminal
IsInFlightRow(row) == row # NoRow /\ row.status = "in_flight"

\* INSERT ... ON CONFLICT(request_id) DO NOTHING
InsertAccept(d, r, rec, i) ==
    IF d.rows[r] # NoRow THEN d
    ELSE [d EXCEPT !.rows[r] =
            [status |-> "in_flight", stream |-> rec.stream,
             tokens |-> Unavailable, owner |-> i]]

\* The row a finalize leaves: an existing row keeps its owner.
FinalizedRow(old, rec, i) ==
    [status |-> rec.status, stream |-> rec.stream, tokens |-> rec.tokens,
     owner |-> IF old = NoRow THEN i ELSE old.owner]

\* Mutant: the contribution goes under the key of the row as it was accepted.
FinalizeRecordOldKey(d, r, rec, i) ==
    LET old == d.rows[r]
        new == FinalizedRow(old, rec, i)
        cleared == IF IsTerminalRow(old)
                   THEN Retract(d.hourly, BucketKey(r, old), Metrics(old))
                   ELSE d.hourly
    IN [rows   |-> [d.rows EXCEPT ![r] = new],
        hourly |-> Add(cleared, BucketKey(r, IF old = NoRow THEN new ELSE old),
                       Metrics(new))]

\* Mutant: a row that is already terminal is left as it is.
FinalizeRecordFirstWins(d, r, rec, i) ==
    LET new == FinalizedRow(d.rows[r], rec, i)
    IN IF IsTerminalRow(d.rows[r]) THEN d
       ELSE [rows   |-> [d.rows EXCEPT ![r] = new],
             hourly |-> Add(d.hourly, BucketKey(r, new), Metrics(new))]

\* Retract what the stored row contributed, under the key it was stored with,
\* then add what the record contributes, under the record's own key.
FinalizeRecord(d, r, rec, i) ==
    LET old == d.rows[r]
        new == FinalizedRow(old, rec, i)
        cleared == IF IsTerminalRow(old)
                   THEN Retract(d.hourly, BucketKey(r, old), Metrics(old))
                   ELSE d.hourly
    IN [rows   |-> [d.rows EXCEPT ![r] = new],
        hourly |-> Add(cleared, BucketKey(r, new), Metrics(new))]

\* Recovery of the rows S, all in flight: each adds one failure without tokens
\* to its bucket and becomes interrupted.
RecoverRows(d, S) ==
    [rows   |-> [r \in Requests |->
                    IF r \in S THEN [d.rows[r] EXCEPT !.status = "interrupted"]
                    ELSE d.rows[r]],
     hourly |-> [k \in Keys |->
                    LET n == Cardinality({r \in S : BucketKey(r, d.rows[r]) = k})
                        b == d.hourly[k]
                    IN [count |-> b.count + n, tokens |-> b.tokens,
                        success |-> b.success, failure |-> b.failure + n]]]

-----------------------------------------------------------------------------
(* The reference: what the rollup must be, recomputed from the raw rows. *)

RowsIn(rows, k) ==
    {r \in Requests : IsTerminalRow(rows[r]) /\ BucketKey(r, rows[r]) = k}
SuccessesIn(rows, k) == {r \in RowsIn(rows, k) : rows[r].status = "completed"}
FailuresIn(rows, k) ==
    {r \in RowsIn(rows, k) : rows[r].status \in {"failed", "interrupted"}}

Aggregate(rows) ==
    [k \in Keys |->
        [count   |-> Cardinality(RowsIn(rows, k)),
         tokens  |-> MapThenSumSet(LAMBDA r : Known(rows[r].tokens), RowsIn(rows, k)),
         success |-> Cardinality(SuccessesIn(rows, k)),
         failure |-> Cardinality(FailuresIn(rows, k))]]
=============================================================================
