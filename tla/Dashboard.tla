----------------------------- MODULE Dashboard -----------------------------
(***************************************************************************)
(* The change events of the dashboard.  Every process polls the version of *)
(* the shared ledger on a connection of its own and tells the streams open *)
(* at it that something changed; a browser that hears so reads again.      *)
(* Events carry no data, so what matters is that a change is followed by a *)
(* read, and that reads are not changes.                                   *)
(*                                                                         *)
(* PRAGMA data_version is the number of commits by connections other than  *)
(* the one that asks.  A process that stops ends its streams; browsers     *)
(* connect again, to any process that accepts.                             *)
(***************************************************************************)
EXTENDS Integers, FiniteSets, FiniteSetsExt

CONSTANTS
    Instances,
    Clients,      \* browsers
    Usage,        \* those that show the usage view; the others show billing
    Buffer,       \* SSE_BUFFER
    MaxCommits,   \* bound: commits of the writers
    MaxStops,     \* bound: processes stopped
    MaxFaults,    \* bound: connections lost, versions not readable, reads failed
    MaxLoads,     \* bound: reads a browser is counted to have under way
    NoInstance

ASSUME DashboardBounds ==
    /\ Usage \subseteq Clients /\ Buffer \in Nat \ {0}
    /\ {MaxCommits, MaxStops, MaxFaults} \subseteq Nat /\ MaxLoads \in Nat \ {0}
    /\ IsFiniteSet(Instances) /\ NoInstance \notin Instances

VARIABLES
    commits,   \* commits of each process's writer connection
    last,      \* last_version of each process's poller
    life,      \* of each process: "up", "grace", "stopping", "down"
    stream,    \* the event stream of each browser
    page,      \* what each browser does
    stops, faults

eventVars == <<commits, last, life, stream, page, stops, faults>>

Closed == [at |-> NoInstance, unread |-> 0, told |-> FALSE, wire |-> 0, since |-> 0]
IdlePage == [change |-> 0, watched |-> 0, loads |-> 0, read |-> 0, failed |-> 0]

CommitsOf(f) == MapThenSumSet(LAMBDA i : f[i], Instances)
Version == CommitsOf(commits)
Connected(c) == stream[c].at # NoInstance
Watching(c) == page[c].change # page[c].watched
OpenAt(i) == {c \in Clients : stream[c].at = i}

EventsTypeOK ==
    /\ commits \in [Instances -> Nat]
    /\ last \in [Instances -> Int]
    /\ life \in [Instances -> {"up", "grace", "stopping", "down"}]
    /\ stream \in [Clients -> [at : Instances \cup {NoInstance}, unread : Nat,
                               told : BOOLEAN, wire : Nat, since : Int]]
    /\ page \in [Clients -> [change : 0..1, watched : 0..1, loads : 0..MaxLoads, read : Nat,
                             failed : Nat]]
    /\ stops \in 0..MaxStops /\ faults \in 0..MaxFaults

EventsInit ==
    /\ commits = [i \in Instances |-> 0]
    /\ last = [i \in Instances |-> 0]
    /\ life = [i \in Instances |-> "up"]
    /\ stream = [c \in Clients |-> Closed]
    /\ page = [c \in Clients |-> IdlePage]
    /\ stops = 0 /\ faults = 0

-----------------------------------------------------------------------------
(* The server. *)

\* A write of any part of the program.
Commit(i) ==
    /\ life[i] # "down" /\ Version < MaxCommits
    /\ commits' = [commits EXCEPT ![i] = @ + 1]
    /\ UNCHANGED <<last, life, stream, page, stops, faults>>

\* Mutant: the poller shares the writer's connection.
DataVersionShared(i) == Version - commits[i]

\* get_data_version on the poller's own connection, which never writes.
DataVersion(i) == Version

\* tx.send: one more message for every subscriber.
Announce(i) ==
    stream' = [c \in Clients |-> IF stream[c].at = i
                                 THEN [stream[c] EXCEPT !.unread = @ + 1] ELSE stream[c]]

\* One round of SseBroadcaster::start's loop.
Poll(i) ==
    /\ life[i] # "down" /\ DataVersion(i) # last[i]
    /\ last' = [last EXCEPT ![i] = DataVersion(i)]
    /\ Announce(i)
    /\ UNCHANGED <<commits, life, page, stops, faults>>

\* The version cannot be read: -1, which differs from any version.
PollFails(i) ==
    /\ life[i] # "down" /\ last[i] # -1
    /\ faults < MaxFaults /\ faults' = faults + 1
    /\ last' = [last EXCEPT ![i] = -1]
    /\ Announce(i)
    /\ UNCHANGED <<commits, life, page, stops>>

\* sse_response: both subscriptions are made before the first event.  A request
\* accepted before the listener stopped may get here after shutdown(): such a
\* stream is never told.
Connect(c, i) ==
    /\ ~Connected(c) /\ life[i] # "down" /\ ~Watching(c)
    /\ stream' = [stream EXCEPT ![c] = [Closed EXCEPT !.at = i, !.since = last[i],
                                                     !.told = life[i] # "stopping"]]
    /\ UNCHANGED <<commits, last, life, page, stops, faults>>

\* rx.recv: a message, or that some were missed, which is an event as well.
Deliver(c) ==
    /\ Connected(c) /\ stream[c].unread > 0
    /\ stream' = [stream EXCEPT ![c].wire = @ + 1,
                                ![c].unread = IF @ > Buffer THEN Buffer ELSE @ - 1]
    /\ UNCHANGED <<commits, last, life, page, stops, faults>>

\* SIGTERM: readiness fails, and for the grace period everything goes on.
Terminate(i) ==
    /\ life[i] = "up" /\ stops < MaxStops /\ stops' = stops + 1
    /\ life' = [life EXCEPT ![i] = "grace"]
    /\ UNCHANGED <<commits, last, stream, page, faults>>

\* broadcaster.shutdown(), and the listener accepts no more.
EndGrace(i) ==
    /\ life[i] = "grace"
    /\ life' = [life EXCEPT ![i] = "stopping"]
    /\ UNCHANGED <<commits, last, stream, page, stops, faults>>

\* Mutant: the signal is looked at only when there is an event.
EndStreamOnEvent(c) ==
    /\ Connected(c) /\ life[stream[c].at] = "stopping" /\ stream[c].told
    /\ stream[c].unread > 0
    /\ stream' = [stream EXCEPT ![c] = Closed]
    /\ UNCHANGED <<commits, last, life, page, stops, faults>>

\* The shutdown arm of a stream's select.
EndStream(c) ==
    /\ Connected(c) /\ life[stream[c].at] = "stopping" /\ stream[c].told
    /\ stream' = [stream EXCEPT ![c] = Closed]
    /\ UNCHANGED <<commits, last, life, page, stops, faults>>

\* axum's serve returns when no body is open.
Stopped(i) ==
    /\ life[i] = "stopping" /\ OpenAt(i) = {}
    /\ life' = [life EXCEPT ![i] = "down"]
    /\ last' = [last EXCEPT ![i] = 0]
    /\ UNCHANGED <<commits, stream, page, stops, faults>>

\* The drain bound expires: what is still open is cut off.
DrainExpires(i) ==
    /\ life[i] = "stopping" /\ OpenAt(i) # {}
    /\ life' = [life EXCEPT ![i] = "down"]
    /\ last' = [last EXCEPT ![i] = 0]
    /\ stream' = [c \in Clients |-> IF c \in OpenAt(i) THEN Closed ELSE stream[c]]
    /\ UNCHANGED <<commits, page, stops, faults>>

\* What a poller does before its loop.
FirstReading(i) == last' = [last EXCEPT ![i] = DataVersion(i)]

\* Started again.  main spawns the poller early in its start and serves at the end of it:
\* no stream is open at the first reading.
StartAgain(i) ==
    /\ life[i] = "down"
    /\ life' = [life EXCEPT ![i] = "up"]
    /\ FirstReading(i)
    /\ UNCHANGED <<commits, stream, page, stops, faults>>

\* Mutant: opening a reader writes to the file.
AnswerConfiguring(c, i) ==
    /\ life[i] # "down" /\ page[c].loads > 0 /\ ~Watching(c)
    /\ page' = [page EXCEPT ![c].loads = @ - 1, ![c].read = Version]
    /\ commits' = [commits EXCEPT ![i] = (@ + 1) % MaxCommits]
    /\ UNCHANGED <<last, life, stream, stops, faults>>

\* A read: pool.read on a fresh connection, which configure_sqlite leaves without a
\* write since the file has its tables.
Answer(c, i) ==
    /\ life[i] # "down" /\ page[c].loads > 0 /\ ~Watching(c)
    /\ page' = [page EXCEPT ![c].loads = @ - 1, ![c].read = Version]
    /\ UNCHANGED <<commits, last, life, stream, stops, faults>>

-----------------------------------------------------------------------------
(* The browser. *)

\* A read fails, or the process that was to answer it stops: an error is shown until
\* another read succeeds, and nothing is read again for it.  failed is how much of the
\* ledger the page missed when the read was the last one under way.
AnswerFails(c) ==
    /\ page[c].loads > 0 /\ ~Watching(c) /\ faults < MaxFaults /\ faults' = faults + 1
    /\ page' = [page EXCEPT ![c].loads = @ - 1,
                            ![c].failed = IF page[c].loads = 1 THEN Version ELSE @]
    /\ UNCHANGED <<commits, last, life, stream, stops>>

More(n) == Min({n + 1, MaxLoads})

\* handleFrame, refreshFromDataChange: dataChangeVersion, here its parity, is bumped
\* for the views that watch it.  A billing view's watcher reads and is done.
HandleFrame(c) ==
    /\ stream[c].wire > 0 /\ ~Watching(c)
    /\ stream' = [stream EXCEPT ![c].wire = @ - 1]
    /\ page' = [page EXCEPT ![c].loads = More(@),
                            ![c].change = IF c \in Usage THEN 1 - @ ELSE @]
    /\ UNCHANGED <<commits, last, life, stops, faults>>

\* The usage view's watcher runs refreshFromDataChange, which bumps the version
\* it watches.  Watchers run before the browser turns to anything else.
WatchJob(c) ==
    /\ Watching(c)
    /\ page' = [page EXCEPT ![c].watched = page[c].change, ![c].change = 1 - @,
                            ![c].loads = More(@)]
    /\ UNCHANGED <<commits, last, life, stream, stops, faults>>

\* The connection is lost, or the user turns updates off or leaves.
Disconnect(c) ==
    /\ Connected(c) /\ ~Watching(c) /\ faults < MaxFaults /\ faults' = faults + 1
    /\ stream' = [stream EXCEPT ![c] = Closed]
    /\ UNCHANGED <<commits, last, life, page, stops>>

-----------------------------------------------------------------------------
EventsNext ==
    \/ \E i \in Instances : \/ Commit(i) \/ Poll(i) \/ PollFails(i) \/ Terminate(i)
                            \/ EndGrace(i) \/ Stopped(i) \/ DrainExpires(i) \/ StartAgain(i)
    \/ \E c \in Clients : \/ Deliver(c) \/ EndStream(c) \/ HandleFrame(c)
                          \/ Disconnect(c) \/ AnswerFails(c)
    \/ \E c \in Clients, i \in Instances : Connect(c, i) \/ Answer(c, i)

EventsSpec == EventsInit /\ [][EventsNext]_eventVars

\* Pollers and streams are tasks of the runtime; the grace period ends; a browser
\* runs its jobs and its reads are answered by some process or fail.  Nothing makes a
\* browser connect, and the drain bound is not relied on.
Fairness ==
    /\ \A i \in Instances : /\ WF_eventVars(Poll(i)) /\ WF_eventVars(EndGrace(i))
                            /\ WF_eventVars(Stopped(i)) /\ WF_eventVars(StartAgain(i))
    /\ \A c \in Clients : /\ WF_eventVars(Deliver(c)) /\ WF_eventVars(EndStream(c))
                          /\ WF_eventVars(HandleFrame(c))
                          /\ WF_eventVars(AnswerFails(c) \/ \E i \in Instances : Answer(c, i))

EventsFairSpec == EventsSpec /\ Fairness

\* With usage views open, whose watchers run as well.
UsageNext == EventsNext \/ \E c \in Clients : WatchJob(c)
UsageSpec == /\ EventsInit /\ [][UsageNext]_eventVars
             /\ Fairness /\ \A c \in Clients : WF_eventVars(WatchJob(c))

-----------------------------------------------------------------------------
\* A commit by any process that the poller had not announced when a stream was
\* opened is followed by a read of that browser that sees it, as long as the
\* stream stays open: also when the subscriber lags, the version could not be read
\* for a while, or the commit falls between connecting and the next poll.  The one
\* way to miss it is that the last read made for it fails: fetchSummary and its like
\* show an error and try nothing again.
ChangeIsRead ==
    \A c \in Clients : \A v \in 1..MaxCommits :
        (Connected(c) /\ stream[c].since < v /\ v <= Version)
            ~> (page[c].read >= v \/ page[c].failed >= v \/ ~Connected(c))

\* Once nothing is written any more the dashboards fall silent: no event is on its
\* way and no read is made for one, so reading is never itself a change.
QuietWhenIdle ==
    <>[](\A c \in Clients : /\ stream[c].unread = 0 /\ stream[c].wire = 0
                            /\ page[c].loads = 0 /\ ~Watching(c))

\* An open dashboard does not keep a process alive: unless a stream came too late
\* to be told, a process that stops serving gets to its metering drain without the
\* bound (SseBroadcaster::shutdown).
StreamsLetGo ==
    \A i \in Instances :
        (life[i] = "stopping")
            ~> (life[i] = "down" \/ \E c \in OpenAt(i) : ~stream[c].told)

\* "On page one it makes one list query only": what a change event sets off in a
\* browser comes to an end.
RefreshEnds == \A c \in Clients : Watching(c) ~> ~Watching(c)
=============================================================================
