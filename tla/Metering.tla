------------------------------ MODULE Metering ------------------------------
(***************************************************************************)
(* The metering pipeline of every process that shares one ledger file:     *)
(* the handler of each request, the bounded queue and batching writer of   *)
(* each instance, the SQLite write lock between instances, instance locks  *)
(* and registrations, crash recovery, and graceful shutdown.               *)
(*                                                                         *)
(* A write transaction of the batching writer is stepped statement by      *)
(* statement on a working copy, work, which replaces the committed         *)
(* database, db, at COMMIT; an error or a crash before that discards it.   *)
(* Recovery's own transaction probes, updates and commits while holding    *)
(* the same lock, so it is one step.                                       *)
(***************************************************************************)
EXTENDS Rollup, Sequences

CONSTANTS
    QueueSize,    \* capacity of an instance's channel
    BatchSize,    \* most operations one transaction commits
    BusyRetries,  \* attempts repeated while another instance holds the lock
    Legacy,       \* in-flight rows already in the file, without an owner
    MaxFaults,    \* bound: commits that fail for good
    MaxCrashes,   \* bound: processes killed
    Nobody        \* the write lock is free

ASSUME SizesPositive == /\ QueueSize \in Nat \ {0} /\ BatchSize \in Nat \ {0}
                        /\ BusyRetries \in Nat
ASSUME LegacyRequests == Legacy \subseteq Requests
ASSUME BoundsNat == MaxFaults \in Nat /\ MaxCrashes \in Nat
ASSUME NobodyFresh == Nobody \notin Instances

VARIABLES
    db,          \* the committed database: rows and hourly
    work,        \* what the open write transaction sees; db when none is open
    locker,      \* the instance whose writer holds the write lock, or Nobody
    applied,     \* operations of the batch the open transaction has executed
    registered,  \* ledger_instances
    lockFiles,   \* instances whose lock file exists
    inst,        \* the life of each process
    forced,      \* instances whose shutdown hit one of its two deadlines
    removing,    \* lock files a recovery pass has still to remove
    queue,       \* channel of each writer
    batch,       \* operations the writer has taken from the channel
    attempt,     \* busy retries of the current flush
    healthy,     \* LedgerWriter::healthy, a latch
    pc,          \* where the handling of each request is
    home,        \* the instance that serves each request
    record,      \* the RequestRecord its handler holds
    sent,        \* requests the upstream has received
    old,         \* rows older than the unknown-owner grace period
    faults, crashes

dbVars    == <<db, work, locker, applied>>
procVars  == <<registered, lockFiles, inst, forced, removing, crashes>>
writeVars == <<queue, batch, attempt, healthy, faults>>
reqVars   == <<pc, home, record, sent>>
vars == <<dbVars, procVars, writeVars, reqVars, old>>

InstStates == {"unborn", "claimed", "registered", "up", "draining", "flushing",
               "closing", "stopped", "released", "exited", "crashed"}

\* Handler states that hold a Sender clone, keeping the channel open.
Sending == {"accept_send", "final_send", "detached_send"}
\* States of an awaited handler future, which a client disconnect drops.
Awaited == {"accept_send", "accept_wait", "accepted", "upstream", "final_send"}
\* States of a finalize no client can cancel.
Detached == {"detached", "detached_send", "detached_wait"}
Live == Awaited \cup Detached \cup {"streaming", "final_wait", "unwatched"}
\* Ends: refused with 503, finalize acknowledged, finalize failed, handler
\* future dropped, process gone.
Ended == {"refused", "settled", "lost", "dropped", "dead"}
PcStates == {"new"} \cup Live \cup Ended

Op == [kind : {"accept", "finalize"}, req : Requests, rec : RequestRecord]

Alive(i) == inst[i] \notin {"unborn", "exited", "crashed"}
\* Processes that run the writer and serve connections.
Serving(i) == inst[i] \in {"up", "draining", "flushing", "closing"}
ShuttingDown(i) == inst[i] \in {"closing", "stopped", "released"}
Of(i) == {r \in Requests : home[r] = i}

FreshRecord(s) == [status |-> "in_flight", stream |-> s, tokens |-> Unavailable]

\* Types; a batch is never retried beyond its bound.
TypeOK ==
    /\ db \in Database /\ work \in Database
    /\ locker \in Instances \cup {Nobody}
    /\ applied \in Nat
    /\ registered \subseteq Instances /\ lockFiles \subseteq Instances
    /\ inst \in [Instances -> InstStates]
    /\ forced \subseteq Instances
    /\ removing \in [Instances -> SUBSET Instances]
    /\ queue \in [Instances -> Seq(Op)]
    /\ batch \in [Instances -> Seq(Op)]
    /\ attempt \in [Instances -> 0..BusyRetries]
    /\ healthy \in [Instances -> BOOLEAN]
    /\ pc \in [Requests -> PcStates]
    /\ home \in [Requests -> Instances \cup {NoOwner}]
    /\ record \in [Requests -> RequestRecord]
    /\ sent \subseteq Requests /\ old \subseteq Requests
    /\ faults \in 0..MaxFaults /\ crashes \in 0..MaxCrashes

InitRows == [r \in Requests |->
                IF r \in Legacy
                THEN [status |-> "in_flight", stream |-> FALSE,
                      tokens |-> Unavailable, owner |-> NoOwner]
                ELSE NoRow]

Init ==
    /\ db = [rows |-> InitRows, hourly |-> [k \in Keys |-> EmptyBucket]]
    /\ work = db /\ locker = Nobody /\ applied = 0
    /\ registered = {} /\ lockFiles = {} /\ forced = {}
    /\ inst = [i \in Instances |-> "unborn"]
    /\ removing = [i \in Instances |-> {}]
    /\ queue = [i \in Instances |-> <<>>] /\ batch = [i \in Instances |-> <<>>]
    /\ attempt = [i \in Instances |-> 0]
    /\ healthy = [i \in Instances |-> TRUE]
    /\ pc = [r \in Requests |-> IF r \in Legacy THEN "dead" ELSE "new"]
    /\ home = [r \in Requests |-> NoOwner]
    /\ record = [r \in Requests |-> FreshRecord(FALSE)]
    /\ sent = {} /\ old = {} /\ faults = 0 /\ crashes = 0

-----------------------------------------------------------------------------
(* Starting: claim the lock, register, recover, serve. *)

\* InstanceGuard::acquire creates and locks the file before it registers.
ClaimLock(i) ==
    /\ inst[i] = "unborn"
    /\ inst' = [inst EXCEPT ![i] = "claimed"]
    /\ lockFiles' = lockFiles \cup {i}
    /\ UNCHANGED <<dbVars, registered, forced, removing, crashes, writeVars, reqVars, old>>

Register(i) ==
    /\ inst[i] = "claimed" /\ locker = Nobody
    /\ inst' = [inst EXCEPT ![i] = "registered"]
    /\ registered' = registered \cup {i}
    /\ UNCHANGED <<dbVars, lockFiles, forced, removing, crashes, writeVars, reqVars, old>>

\* Mutant: only registered instances are probed.
CandidatesRegisteredOnly(i) == registered \ {i}

\* Instances a pass run by i probes: registered ones and owners of in-flight rows.
Candidates(i) ==
    (registered \cup {j \in Instances : \E r \in Requests :
                         IsInFlightRow(db.rows[r]) /\ db.rows[r].owner = j}) \ {i}

\* Mutant: the sweep's UPDATE forgets its status condition.
StrandedAnyStatus(dead, unknown) ==
    {r \in Requests :
        /\ db.rows[r] # NoRow
        /\ LET o == db.rows[r].owner
           IN \/ o \in dead
              \/ o \in unknown \cup {NoOwner} /\ r \in old}

\* A probe finds a lock held exactly while its owner runs (a missing file and a
\* free lock both mean dead); an I/O error leaves the owner unknown.
Stranded(dead, unknown) ==
    {r \in Requests :
        /\ IsInFlightRow(db.rows[r])
        /\ LET o == db.rows[r].owner
           IN \/ o \in dead
              \/ o \in unknown \cup {NoOwner} /\ r \in old}

\* Mutant: an owner whose probe failed counts as dead.
RecoverInFlightUnknownIsDead(i) ==
    \E unknown \in SUBSET Candidates(i) :
        LET dead == unknown \cup {j \in Candidates(i) : j \notin lockFiles \/ ~Alive(j)}
        IN /\ locker = Nobody /\ removing[i] = {}
           /\ db' = RecoverRows(db, Stranded(dead, unknown))
           /\ work' = db'
           /\ registered' = registered \ dead
           /\ removing' = [removing EXCEPT ![i] = dead]
           /\ UNCHANGED <<locker, applied, lockFiles, forced, crashes,
                          writeVars, reqVars, old>>

\* One recovery pass; the lock files go only after the commit.
RecoverInFlight(i) ==
    \E unknown \in SUBSET Candidates(i) :
        LET dead == {j \in Candidates(i) \ unknown :
                        j \notin lockFiles \/ ~Alive(j)}
        IN /\ locker = Nobody /\ removing[i] = {}
           /\ db' = RecoverRows(db, Stranded(dead, unknown))
           /\ work' = db'
           /\ registered' = registered \ dead
           /\ removing' = [removing EXCEPT ![i] = dead]
           /\ UNCHANGED <<locker, applied, lockFiles, forced, crashes,
                          writeVars, reqVars, old>>

BootRecovery(i) ==
    /\ inst[i] = "registered"
    /\ RecoverInFlight(i)
    /\ inst' = [inst EXCEPT ![i] = "up"]

\* A start whose recovery fails ends the process: the guard's drop removes the
\* lock file, the registration stays.
BootFails(i) ==
    /\ inst[i] = "registered" /\ faults < MaxFaults
    /\ inst' = [inst EXCEPT ![i] = "exited"]
    /\ lockFiles' = lockFiles \ {i}
    /\ faults' = faults + 1
    /\ UNCHANGED <<dbVars, registered, forced, removing, crashes,
                   queue, batch, attempt, healthy, reqVars, old>>

\* The sweeper runs until the drain of the listener is over.
Sweep(i) ==
    /\ inst[i] \in {"up", "draining"}
    /\ RecoverInFlight(i)
    /\ inst' = inst

\* Removal of a dead peer's lock file may fail; the failure is only logged.
RemoveLockFiles(i) ==
    /\ Alive(i) /\ removing[i] # {}
    /\ \E failed \in SUBSET removing[i] :
          lockFiles' = lockFiles \ (removing[i] \ failed)
    /\ removing' = [removing EXCEPT ![i] = {}]
    /\ UNCHANGED <<dbVars, registered, inst, forced, crashes, writeVars, reqVars, old>>

\* created_at passes out of the grace period.
Age(r) ==
    /\ r \notin old /\ db.rows[r] # NoRow
    /\ old' = old \cup {r}
    /\ UNCHANGED <<dbVars, procVars, writeVars, reqVars>>

-----------------------------------------------------------------------------
(* The handler of one request. *)

\* handle_proxy up to accept(): it takes a Sender clone, or is refused.  After a
\* drain that was cut short, connections outlive the listener.
Arrive(r, i) ==
    /\ pc[r] = "new"
    /\ inst[i] \in {"up", "draining"} \/ (Serving(i) /\ i \in forced)
    /\ home' = [home EXCEPT ![r] = i]
    /\ \E s \in BOOLEAN : record' = [record EXCEPT ![r] = FreshRecord(s)]
    /\ IF ShuttingDown(i)
       THEN /\ pc' = [pc EXCEPT ![r] = "refused"]
            /\ healthy' = [healthy EXCEPT ![i] = FALSE]
       ELSE /\ pc' = [pc EXCEPT ![r] = "accept_send"]
            /\ UNCHANGED healthy
    /\ UNCHANGED <<dbVars, procVars, queue, batch, attempt, faults, sent, old>>

\* The bounded send: it waits while the queue is full.
Send(r, i, from, to, kind) ==
    /\ pc[r] = from /\ home[r] = i
    /\ Len(queue[i]) < QueueSize
    /\ queue' = [queue EXCEPT ![i] =
                    Append(@, [kind |-> kind, req |-> r, rec |-> record[r]])]
    /\ pc' = [pc EXCEPT ![r] = to]
    /\ UNCHANGED <<dbVars, procVars, batch, attempt, healthy, faults,
                   home, record, sent, old>>

\* Mutant: the handler goes on as soon as the accept is queued.
SendAcceptNoWait(r, i) == Send(r, i, "accept_send", "accepted", "accept")

\* Mutant: a finalize that finds the queue full is dropped, as try_finalize would.
SendFinalizeTried(r, i) ==
    IF Len(queue[i]) < QueueSize
    THEN \/ Send(r, i, "final_send", "final_wait", "finalize")
         \/ Send(r, i, "detached_send", "detached_wait", "finalize")
    ELSE /\ pc[r] \in {"final_send", "detached_send"} /\ home[r] = i
         /\ pc' = [pc EXCEPT ![r] = "dropped"]
         /\ UNCHANGED <<dbVars, procVars, writeVars, home, record, sent, old>>

SendAccept(r, i)   == Send(r, i, "accept_send", "accept_wait", "accept")
SendFinalize(r, i) == \/ Send(r, i, "final_send", "final_wait", "finalize")
                      \/ Send(r, i, "detached_send", "detached_wait", "finalize")

\* The accept is durable: the request goes upstream.
Forward(r) ==
    /\ pc[r] = "accepted"
    /\ pc' = [pc EXCEPT ![r] = "upstream"]
    /\ sent' = sent \cup {r}
    /\ UNCHANGED <<dbVars, procVars, writeVars, home, record, old>>

\* Mutant: a finalize the closed writer refuses is not reported.
StartFinalizeSilent(r, to) ==
    /\ pc' = [pc EXCEPT ![r] = IF ShuttingDown(home[r]) THEN "lost" ELSE to]
    /\ UNCHANGED healthy

\* sender() of a finalize: refused once the writer is shutting down, which the
\* caller reports by marking the writer unhealthy.
StartFinalize(r, to) ==
    IF ShuttingDown(home[r])
    THEN /\ pc' = [pc EXCEPT ![r] = "lost"]
         /\ healthy' = [healthy EXCEPT ![home[r]] = FALSE]
    ELSE /\ pc' = [pc EXCEPT ![r] = to]
         /\ UNCHANGED healthy

TerminalRecord(status, stream, tokens) ==
    [status |-> status, stream |-> stream, tokens |-> tokens]

\* A response that is not streamed: an upstream failure of any kind, or a whole
\* body for a request that did not ask for a stream.
ReplyWhole(r) ==
    /\ pc[r] = "upstream"
    /\ \E status \in {"completed", "failed"}, u \in Usages \cup {Unavailable} :
          /\ status = "completed" => ~record[r].stream
          /\ record' = [record EXCEPT ![r] = TerminalRecord(status, FALSE, u)]
    /\ StartFinalize(r, "final_send")
    /\ UNCHANGED <<dbVars, procVars, queue, batch, attempt, faults, home, sent, old>>

\* A stream was asked for, or the upstream answers with one anyway.
StartStream(r) ==
    /\ pc[r] = "upstream"
    /\ pc' = [pc EXCEPT ![r] = "streaming"]
    /\ record' = [record EXCEPT ![r].stream = TRUE]
    /\ UNCHANGED <<dbVars, procVars, writeVars, home, sent, old>>

\* The meter's latch flips once: the stream ends, breaks, or its body is dropped,
\* and the terminal record goes to a detached task.
EndStream(r) ==
    /\ pc[r] = "streaming"
    /\ \E status \in Terminal, u \in Usages \cup {Unavailable} :
          record' = [record EXCEPT ![r] = TerminalRecord(status, TRUE, u)]
    /\ pc' = [pc EXCEPT ![r] = "detached"]
    /\ UNCHANGED <<dbVars, procVars, writeVars, home, sent, old>>

DetachedFinalize(r) ==
    /\ pc[r] = "detached"
    /\ StartFinalize(r, "detached_send")
    /\ UNCHANGED <<dbVars, procVars, queue, batch, attempt, faults, home, record, sent, old>>

\* The client disconnects and the handler future is dropped where it awaits.  An
\* operation already in the channel stays there, with nobody to acknowledge.
Disconnect(r) ==
    /\ \/ /\ pc[r] \in Awaited
          /\ pc' = [pc EXCEPT ![r] = "dropped"]
       \/ /\ pc[r] = "final_wait"
          /\ pc' = [pc EXCEPT ![r] = "unwatched"]
    /\ UNCHANGED <<dbVars, procVars, writeVars, home, record, sent, old>>

-----------------------------------------------------------------------------
(* The writer task. *)

Receive(i) ==
    /\ Serving(i) /\ locker # i /\ attempt[i] = 0
    /\ Len(batch[i]) < BatchSize /\ queue[i] # <<>>
    /\ batch' = [batch EXCEPT ![i] = Append(@, Head(queue[i]))]
    /\ queue' = [queue EXCEPT ![i] = Tail(@)]
    /\ UNCHANGED <<dbVars, procVars, attempt, healthy, faults, reqVars, old>>

\* A batch is due when full, when its window has elapsed, or once the channel
\* is closed; the window may elapse at any time.
BeginFlush(i) ==
    /\ Serving(i) /\ locker = Nobody /\ batch[i] # <<>>
    /\ locker' = i /\ applied' = 0 /\ work' = db
    /\ UNCHANGED <<db, procVars, writeVars, reqVars, old>>

\* Another instance holds the lock past the busy timeout: back off, retry.
FlushBusy(i) ==
    /\ Serving(i) /\ locker \notin {i, Nobody} /\ batch[i] # <<>>
    /\ attempt[i] < BusyRetries
    /\ attempt' = [attempt EXCEPT ![i] = @ + 1]
    /\ UNCHANGED <<dbVars, procVars, queue, batch, healthy, faults, reqVars, old>>

\* An accept superseded by a finalize of the same batch is not written.
Superseded(op, ops) ==
    /\ op.kind = "accept"
    /\ \E k \in DOMAIN ops : ops[k].kind = "finalize" /\ ops[k].req = op.req

ApplyOp(d, op, ops, i) ==
    IF Superseded(op, ops) THEN d
    ELSE IF op.kind = "accept" THEN InsertAccept(d, op.req, op.rec, i)
    ELSE FinalizeRecord(d, op.req, op.rec, i)

Execute(i) ==
    /\ locker = i /\ applied < Len(batch[i])
    /\ work' = ApplyOp(work, batch[i][applied + 1], batch[i], i)
    /\ applied' = applied + 1
    /\ UNCHANGED <<db, locker, procVars, writeVars, reqVars, old>>

InBatch(i, r, kind) ==
    \E k \in DOMAIN batch[i] : batch[i][k].req = r /\ batch[i][k].kind = kind

\* Where the acknowledgement of batch[i] takes each request it holds.
Acknowledge(i, onAccept, onFinalize) ==
    pc' = [r \in Requests |->
            IF pc[r] = "accept_wait" /\ InBatch(i, r, "accept") THEN onAccept
            ELSE IF pc[r] \in {"final_wait", "detached_wait", "unwatched"}
                    /\ InBatch(i, r, "finalize") THEN onFinalize
            ELSE pc[r]]

Commit(i) ==
    /\ locker = i /\ applied = Len(batch[i])
    /\ db' = work /\ locker' = Nobody /\ applied' = 0 /\ work' = work
    /\ batch' = [batch EXCEPT ![i] = <<>>]
    /\ attempt' = [attempt EXCEPT ![i] = 0]
    /\ Acknowledge(i, "accepted", "settled")
    /\ UNCHANGED <<procVars, queue, healthy, faults, home, record, sent, old>>

\* Mutant: the callers of a lost batch are never answered.
FailBatchUnanswered(i) ==
    /\ batch' = [batch EXCEPT ![i] = <<>>]
    /\ attempt' = [attempt EXCEPT ![i] = 0]
    /\ healthy' = [healthy EXCEPT ![i] = FALSE]
    /\ UNCHANGED <<pc, procVars, queue, home, record, sent, old>>

\* The batch is given up: every caller gets the error and the writer latches.
FailBatch(i) ==
    /\ batch' = [batch EXCEPT ![i] = <<>>]
    /\ attempt' = [attempt EXCEPT ![i] = 0]
    /\ healthy' = [healthy EXCEPT ![i] = FALSE]
    /\ Acknowledge(i, "refused", "lost")
    /\ UNCHANGED <<procVars, queue, home, record, sent, old>>

\* A statement or the COMMIT fails: the transaction rolls back.
FlushError(i) ==
    /\ locker = i /\ faults < MaxFaults
    /\ faults' = faults + 1
    /\ work' = db /\ locker' = Nobody /\ applied' = 0 /\ db' = db
    /\ FailBatch(i)

FlushGivesUp(i) ==
    /\ Serving(i) /\ locker \notin {i, Nobody} /\ batch[i] # <<>>
    /\ attempt[i] = BusyRetries
    /\ FailBatch(i)
    /\ UNCHANGED <<dbVars, faults>>

-----------------------------------------------------------------------------
(* Shutdown and death. *)

Step(i, from, to) == inst[i] = from /\ inst' = [inst EXCEPT ![i] = to]

\* The listener stops; open connections go on.
Terminate(i) ==
    /\ Step(i, "up", "draining")
    /\ UNCHANGED <<dbVars, registered, lockFiles, forced, removing, crashes,
                   writeVars, reqVars, old>>

\* Mutant: the drain has no bound.
EndDrainUnbounded(i) ==
    /\ Step(i, "draining", "flushing")
    /\ \A r \in Of(i) : pc[r] \notin (Live \ Detached) \ {"unwatched"}
    /\ UNCHANGED <<dbVars, registered, lockFiles, forced, removing, crashes,
                   writeVars, reqVars, old>>

\* Connections drained, or the drain bound passed.
EndDrain(i) ==
    /\ Step(i, "draining", "flushing")
    /\ forced' = IF \E r \in Of(i) : pc[r] \in (Live \ Detached) \ {"unwatched"}
                 THEN forced \cup {i} ELSE forced
    /\ UNCHANGED <<dbVars, registered, lockFiles, removing, crashes,
                   writeVars, reqVars, old>>

\* LedgerWriter::shutdown: no detached write is pending, or ten seconds passed;
\* new work is refused and the producer handle dropped.
CloseChannel(i) ==
    /\ Step(i, "flushing", "closing")
    /\ forced' = IF \E r \in Of(i) : pc[r] \in Detached
                 THEN forced \cup {i} ELSE forced
    /\ UNCHANGED <<dbVars, registered, lockFiles, removing, crashes,
                   writeVars, reqVars, old>>

\* Mutant: the task ends on the closed channel with operations still in it.
WriterExitsUndrained(i) ==
    /\ Step(i, "closing", "stopped")
    /\ \A r \in Of(i) : pc[r] \notin Sending
    /\ batch[i] = <<>>
    /\ UNCHANGED <<dbVars, registered, lockFiles, forced, removing, crashes,
                   writeVars, reqVars, old>>

\* The channel is closed and empty, so the task ends.
WriterExits(i) ==
    /\ Step(i, "closing", "stopped")
    /\ \A r \in Of(i) : pc[r] \notin Sending
    /\ queue[i] = <<>> /\ batch[i] = <<>>
    /\ UNCHANGED <<dbVars, registered, lockFiles, forced, removing, crashes,
                   writeVars, reqVars, old>>

\* A failure to delete the registration is only logged.
Release(i) ==
    /\ Step(i, "stopped", "released") /\ locker = Nobody
    /\ registered' \in {registered, registered \ {i}}
    /\ UNCHANGED <<dbVars, lockFiles, forced, removing, crashes,
                   writeVars, reqVars, old>>

\* Everything in the memory of process i is gone.
Vanish(i) ==
    /\ pc' = [r \in Requests |->
                IF home[r] = i /\ pc[r] \in Live THEN "dead" ELSE pc[r]]
    /\ queue' = [queue EXCEPT ![i] = <<>>]
    /\ batch' = [batch EXCEPT ![i] = <<>>]
    /\ attempt' = [attempt EXCEPT ![i] = 0]
    /\ removing' = [removing EXCEPT ![i] = {}]
    /\ IF locker = i
       THEN work' = db /\ locker' = Nobody /\ applied' = 0
       ELSE UNCHANGED <<work, locker, applied>>
    /\ UNCHANGED <<db, registered, forced, healthy, faults, home, record, sent, old>>

\* The guard is dropped: the lock file goes while the lock is still held.
Exit(i) ==
    /\ Step(i, "released", "exited")
    /\ lockFiles' = lockFiles \ {i}
    /\ Vanish(i) /\ UNCHANGED crashes

\* The kernel releases the lock of a killed process; its file stays.
Crash(i) ==
    /\ Alive(i) /\ crashes < MaxCrashes
    /\ inst' = [inst EXCEPT ![i] = "crashed"]
    /\ crashes' = crashes + 1
    /\ Vanish(i) /\ UNCHANGED lockFiles

-----------------------------------------------------------------------------
Start(i)    == ClaimLock(i) \/ Register(i) \/ BootRecovery(i) \/ BootFails(i)
Recovery(i) == Sweep(i) \/ RemoveLockFiles(i)
Writer(i)   == \/ Receive(i) \/ BeginFlush(i) \/ Execute(i) \/ Commit(i)
               \/ FlushBusy(i) \/ FlushError(i) \/ FlushGivesUp(i)
Shutdown(i) == \/ Terminate(i) \/ EndDrain(i) \/ CloseChannel(i)
               \/ WriterExits(i) \/ Release(i) \/ Exit(i)
Handler(r)  == \/ \E i \in Instances :
                     Arrive(r, i) \/ SendAccept(r, i) \/ SendFinalize(r, i)
               \/ Forward(r) \/ ReplyWhole(r) \/ StartStream(r) \/ EndStream(r)
               \/ DetachedFinalize(r) \/ Disconnect(r) \/ Age(r)

Next == \/ \E i \in Instances : Start(i) \/ Recovery(i) \/ Writer(i)
                                \/ Shutdown(i) \/ Crash(i)
        \/ \E r \in Requests : Handler(r)

Spec == Init /\ [][Next]_vars

\* Fairness.  Tokio polls every ready task, timers fire, and a free SQLite lock
\* is granted; nothing obliges a client or the upstream to act, a process to
\* start, stop or die, or a fault to happen.
Scheduling ==
    /\ \A i \in Instances :
          /\ WF_vars(Register(i) \/ BootRecovery(i))
          /\ WF_vars(Receive(i) \/ BeginFlush(i) \/ Execute(i) \/ Commit(i))
          /\ WF_vars(Recovery(i))
          /\ WF_vars(EndDrain(i) \/ CloseChannel(i) \/ WriterExits(i) \/ Release(i) \/ Exit(i))
    /\ \A r \in Requests :
          WF_vars(\/ Forward(r) \/ DetachedFinalize(r)
                  \/ \E i \in Instances : SendAccept(r, i) \/ SendFinalize(r, i))

\* Time passes as well.
Fairness == Scheduling /\ \A r \in Requests : WF_vars(Age(r))

ScheduledSpec == Spec /\ Scheduling
FairSpec == Spec /\ Fairness

-----------------------------------------------------------------------------
(* Safety. *)

\* The hourly rollup is at every committed state exactly what recomputing it from
\* the raw rows gives, whatever order accepts, finalizes, recoveries of rows
\* still being served, rollbacks and crashes happen in (finalize_record,
\* Contribution::add and retract, recover_in_tx).
RollupMatchesRaw == db.hourly = Aggregate(db.rows)

\* No request reaches the upstream before its accept is committed: the await of
\* accept() in handle_proxy, under batching, failed commits and crashes.
NeverServedUnmetered == \A r \in sent : db.rows[r] # NoRow

\* Once a finalize is acknowledged the row holds what the handler measured, even
\* if a recovery pass had resolved the row as interrupted before, and no later
\* pass takes it back.
AcknowledgedIsDurable ==
    \A r \in Requests : pc[r] = "settled" =>
        /\ IsTerminalRow(db.rows[r])
        /\ db.rows[r].status = record[r].status
        /\ db.rows[r].tokens = record[r].tokens
        /\ db.rows[r].stream = record[r].stream

\* An in-flight row of a running process has a handler or a queued write behind
\* it, or the loss of its write was noticed, or its handler future was dropped.
InFlightExplained ==
    \A r \in Requests : \A i \in Instances :
        (IsInFlightRow(db.rows[r]) /\ db.rows[r].owner = i /\ Alive(i)) =>
            \/ pc[r] \in Live \cup {"dropped"}
            \/ pc[r] = "lost" /\ ~healthy[i]

\* A running process keeps its lock file, so no probe can find it dead: recovery
\* passes and peers' cleanups never remove it.
RunningKeepsLockFile == \A i \in Instances : Alive(i) => i \in lockFiles

\* A shutdown that met neither deadline and lost no write leaves nothing to
\* recover but the rows of dropped handlers.
CleanExitLeavesNothing ==
    \A i \in Instances : (inst[i] = "exited" /\ i \notin forced) =>
        \A r \in Requests :
            (IsInFlightRow(db.rows[r]) /\ db.rows[r].owner = i) =>
                pc[r] \in {"dropped", "lost"}

-----------------------------------------------------------------------------
(* Refinement. *)

Ledger == INSTANCE UsageLedger WITH rows <- db.rows, hourly <- db.hourly

\* The pipeline implements the promise: every commit, batched flush or recovery
\* pass moves rows only forward and leaves the rollup recomputed from them, and
\* a request is forwarded only over a committed row.
ImplementsLedger == Ledger!LedgerSpec

-----------------------------------------------------------------------------
(* Liveness. *)

SomeoneSweeps == \E i \in Instances : inst[i] = "up"

\* No process will ever finalize row r.
Orphaned(r) == /\ IsInFlightRow(db.rows[r])
               /\ \/ db.rows[r].owner = NoOwner
                  \/ ~Alive(db.rows[r].owner)

\* A row whose owner is gone, or that never had one, is resolved as long as some
\* instance stays up (recover_in_flight at boot, then the sweeper).
StrandedIsResolved ==
    \A r \in Requests :
        Orphaned(r) ~> (IsTerminalRow(db.rows[r]) \/ ~SomeoneSweeps)

\* A stream's terminal record is committed or reported lost, unless its process is
\* killed or its shutdown meets a deadline: the full queue's backpressure, the flush of
\* what is ahead and the retries while a peer holds the lock all let go
\* (spawn_detached_finalize, enqueue, flush_with_retry).
DetachedIsSettled ==
    \A r \in Requests :
        pc[r] \in Detached
            ~> \/ pc[r] \in {"settled", "lost"}
               \/ pc[r] = "dead" /\ (inst[home[r]] = "crashed" \/ home[r] \in forced)

\* A shutdown ends: it waits for detached writes, these for queue capacity, the
\* queue for the writer, the writer for the lock, and none of them forever.
ShutdownCompletes ==
    \A i \in Instances : inst[i] = "draining" ~> inst[i] \in {"exited", "crashed"}
=============================================================================
