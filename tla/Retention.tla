----------------------------- MODULE Retention -----------------------------
(***************************************************************************)
(* Pruning of the ledger while it is being written: the retention task of  *)
(* every process deletes old raw rows, then old rollup buckets, in slices  *)
(* that are transactions of their own, with accepts, finalizes and         *)
(* recoveries in between.                                                  *)
(*                                                                         *)
(* The fixed bucket columns of Rollup are here the hour alone, HourLen     *)
(* units of time.  usage_hourly.hour is the first 13 characters of a       *)
(* timestamp and is compared as text with a whole timestamp, of which an   *)
(* hour's own start is an extension and therefore greater.                 *)
(***************************************************************************)
EXTENDS Rollup

CONSTANTS
    Created,      \* created_at of each request
    HourLen,
    Window,       \* retention_days
    BatchSize,    \* retention_batch_size
    MaxBatches,   \* DEFAULT_MAX_BATCHES
    MaxClock,     \* bound: the last instant
    MaxFaults     \* bound: slices that fail, processes that die in a sweep

ASSUME RetentionBounds == /\ HourLen \in Nat \ {0} /\ Window \in Nat \ {0}
                          /\ BatchSize \in Nat \ {0} /\ MaxBatches \in Nat
                          /\ MaxClock \in Nat /\ MaxFaults \in Nat
ASSUME DimsAreHours == /\ Created \in [Requests -> Nat] /\ Dims \subseteq Nat
                       /\ \A r \in Requests : DimOf[r] = Created[r] \div HourLen

VARIABLES
    db,       \* usage_records and usage_hourly, as committed
    clock,
    pc,       \* how far the metering of each request is
    sweep,    \* the retention pass of each process
    newest,   \* the latest cutoff any pass has used
    faults

vars == <<db, clock, pc, sweep, newest, faults>>

NoSweep == [pc |-> "idle", cutoff |-> 0, batches |-> 0]

\* Types; a pass never spends more slices than its budget.
TypeOK ==
    /\ db \in Database
    /\ clock \in 0..MaxClock
    /\ pc \in [Requests -> {"new", "open", "done"}]
    /\ sweep \in [Instances -> [pc : {"idle", "raw", "hourly"}, cutoff : Int,
                                batches : 0..MaxBatches]]
    /\ newest \in Int
    /\ faults \in 0..MaxFaults

Init ==
    /\ db = [rows |-> [r \in Requests |-> NoRow], hourly |-> [k \in Keys |-> EmptyBucket]]
    /\ clock = 0
    /\ pc = [r \in Requests |-> "new"]
    /\ sweep = [i \in Instances |-> NoSweep]
    /\ newest = -Window
    /\ faults = 0

-----------------------------------------------------------------------------
(* Metering meanwhile, one committed write at a time. *)

Advance ==
    /\ clock < MaxClock /\ clock' = clock + 1
    /\ UNCHANGED <<db, pc, sweep, newest, faults>>

Metered == UNCHANGED <<clock, sweep, newest, faults>>

Accept(r, i) ==
    /\ pc[r] = "new" /\ clock >= Created[r]
    /\ pc' = [pc EXCEPT ![r] = "open"]
    /\ \E s \in BOOLEAN :
          db' = InsertAccept(db, r, [status |-> "in_flight", stream |-> s,
                                     tokens |-> Unavailable], i)
    /\ Metered

\* The row may have been recovered or pruned meanwhile; it is then corrected or
\* inserted.
Finalize(r, i) ==
    /\ pc[r] = "open"
    /\ pc' = [pc EXCEPT ![r] = "done"]
    /\ \E rec \in {x \in RequestRecord : x.status \in Terminal} :
          db' = FinalizeRecord(db, r, rec, i)
    /\ Metered

Recover(r) ==
    /\ IsInFlightRow(db.rows[r])
    /\ db' = RecoverRows(db, {r})
    /\ UNCHANGED pc /\ Metered

-----------------------------------------------------------------------------
(* run_retention. *)

\* Mutant: a window of no days.
CutoffForNone(now) == now

CutoffFor(now) == now - Window

\* Mutant: an hour is gone when it begins within an hour of the cutoff.
HourGoneEarly(h, cutoff) == h * HourLen < cutoff + HourLen

\* hour < cutoff, as text.
HourGone(h, cutoff) == h * HourLen <= cutoff

RowGone(r, cutoff) == Created[r] < cutoff

BeginSweep(i) ==
    LET c == CutoffFor(clock)
    IN /\ sweep[i].pc = "idle"
       /\ sweep' = [sweep EXCEPT ![i] = [pc |-> "raw", cutoff |-> c, batches |-> 0]]
       /\ newest' = Max({newest, c})
       /\ UNCHANGED <<db, clock, pc, faults>>

InBudget(i) == sweep[i].batches < MaxBatches

\* A slice is as many of the old entries as there are, up to BatchSize.
Slices(old) == {S \in SUBSET old : Cardinality(S) = Min({BatchSize, Cardinality(old)})}

\* A slice that was not full is the last one of its loop.
AfterSlice(i, S, next) ==
    sweep' = [sweep EXCEPT ![i].batches = @ + 1,
                           ![i].pc = IF Cardinality(S) < BatchSize THEN next ELSE @]

\* Mutant: when no old row is left the pass returns.
RawSliceReturns(i) ==
    /\ sweep[i].pc = "raw" /\ InBudget(i)
    /\ \E S \in Slices({r \in Requests : db.rows[r] # NoRow /\ RowGone(r, sweep[i].cutoff)}) :
          /\ db' = [db EXCEPT !.rows = [r \in Requests |-> IF r \in S THEN NoRow ELSE @[r]]]
          /\ AfterSlice(i, S, "idle")
    /\ UNCHANGED <<clock, pc, newest, faults>>

RawSlice(i) ==
    /\ sweep[i].pc = "raw" /\ InBudget(i)
    /\ \E S \in Slices({r \in Requests : db.rows[r] # NoRow /\ RowGone(r, sweep[i].cutoff)}) :
          /\ db' = [db EXCEPT !.rows = [r \in Requests |-> IF r \in S THEN NoRow ELSE @[r]]]
          /\ AfterSlice(i, S, "hourly")
    /\ UNCHANGED <<clock, pc, newest, faults>>

HourlySlice(i) ==
    /\ sweep[i].pc = "hourly" /\ InBudget(i)
    /\ \E S \in Slices({k \in Keys : db.hourly[k] # EmptyBucket
                                     /\ HourGone(k[1], sweep[i].cutoff)}) :
          /\ db' = [db EXCEPT !.hourly = [k \in Keys |-> IF k \in S THEN EmptyBucket ELSE @[k]]]
          /\ AfterSlice(i, S, "idle")
    /\ UNCHANGED <<clock, pc, newest, faults>>

\* hit_budget ends both loops: the next pass goes on.
HitBudget(i) ==
    /\ sweep[i].pc # "idle" /\ ~InBudget(i)
    /\ sweep' = [sweep EXCEPT ![i] = NoSweep]
    /\ UNCHANGED <<db, clock, pc, newest, faults>>

\* A slice's transaction fails, or the process dies between two slices.
SweepFails(i) ==
    /\ sweep[i].pc # "idle" /\ faults < MaxFaults /\ faults' = faults + 1
    /\ sweep' = [sweep EXCEPT ![i] = NoSweep]
    /\ UNCHANGED <<db, clock, pc, newest>>

-----------------------------------------------------------------------------
Sweep(i) == BeginSweep(i) \/ RawSlice(i) \/ HourlySlice(i) \/ HitBudget(i)

Next == \/ Advance
        \/ \E r \in Requests : Recover(r) \/ \E i \in Instances : Accept(r, i) \/ Finalize(r, i)
        \/ \E i \in Instances : Sweep(i) \/ SweepFails(i)

Spec == Init /\ [][Next]_vars

\* spawn_retention's loop runs for the life of the process.
FairSpec == Spec /\ \A i \in Instances : WF_vars(Sweep(i))

-----------------------------------------------------------------------------
\* Every hour that begins after the latest cutoff is counted exactly, whatever
\* slices, failed passes, late finalizes of pruned rows and recoveries have
\* happened around it: pruning never reaches into the window.
WindowExact ==
    \A k \in Keys : k[1] * HourLen > newest => db.hourly[k] = Aggregate(db.rows)[k]

\* A finalized request younger than the retention window still has its row, also
\* while a pass with an older cutoff runs on.
RecentKept ==
    \A r \in Requests :
        (pc[r] = "done" /\ Created[r] >= clock - Window) => IsTerminalRow(db.rows[r])

\* Rows and buckets older than the window are pruned in the end, also when a pass
\* runs out of its budget or fails, or a late finalize brings a row back.
ExpiredPruned ==
    /\ \A r \in Requests :
          (db.rows[r] # NoRow /\ Created[r] < clock - Window) ~> (db.rows[r] = NoRow)
    /\ \A k \in Keys :
          (db.hourly[k] # EmptyBucket /\ k[1] * HourLen < clock - Window)
              ~> (db.hourly[k] = EmptyBucket)
=============================================================================
