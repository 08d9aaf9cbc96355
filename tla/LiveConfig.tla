----------------------------- MODULE LiveConfig -----------------------------
(***************************************************************************)
(* The configuration file, the watcher that reloads it, and the requests   *)
(* that read the live snapshot at several moments of their lives.          *)
(*                                                                         *)
(* Abstractions: a file is one value per field, Bad where validate refuses *)
(* the value, or Unreadable as a whole; the hash of a configuration is the *)
(* configuration.  A request's gate, its ledger rows and its stream are    *)
(* Metering's; here it is what it reads of the configuration.              *)
(***************************************************************************)
EXTENDS Integers

CONSTANTS
    Files,       \* what an operator may save
    Unreadable,  \* a file that is missing or does not parse
    Bad,         \* a value validate refuses
    Sizes,       \* body sizes of requests
    Passwords,   \* tokens presented as a manager's
    MaxSaves,    \* bound: edits of the file
    MaxRequests  \* bound: requests

\* What the process reads from the snapshot, half of it, and what it keeps from its
\* start.  The fields of the billing block are kept too, and no line is written
\* about them.
Live == {"base_url", "api_key", "password"}
Partly == {"max_body_size"}
Captured == {"sse_poll_interval_ms"}
Unreported == {"billing"}
Reported == Live \cup Partly \cup Captured
Fields == Reported \cup Unreported

\* ConfigLoader::validate, of one field.
Valid(value) == value # Bad

\* ConfigLoader::from_file.
Loads(f) == f # Unreadable /\ \A x \in Fields : Valid(f[x])

ASSUME SavesAreFiles == \A f \in Files : f = Unreadable \/ DOMAIN f = Fields
ASSUME SizesAreNumbers ==
    /\ Sizes \subseteq Nat /\ MaxSaves \in Nat /\ MaxRequests \in Nat
    /\ \A f \in Files : f # Unreadable => f["max_body_size"] \in Nat \cup {Bad}

VARIABLES
    file,       \* as the operator last saved it
    saves,
    startup,    \* what the process was started with
    current,    \* the snapshot behind the lock that requests and watcher share
    lastHash,   \* of the watcher
    watcher,    \* "wait", "report", "swap" or "stopped"
    read,       \* the configuration the watcher is applying
    fresh,      \* the watcher has looked at the file since it was saved
    told,       \* per field, the last value the log named and what it said of it
    request     \* the request under way

configVars == <<file, saves, startup, current, lastHash, watcher, read, fresh, told, request>>

NoRequest == [pc |-> "idle", count |-> 0]

\* At its start the operator knows what the process was given.
StartTold(c) == [x \in Reported |-> [value |-> c[x], said |-> "started"]]

ConfigInit ==
    /\ file \in {f \in Files : Loads(f)}
    /\ startup = file /\ current = file /\ lastHash = file /\ read = file
    /\ watcher = "wait" /\ fresh = TRUE /\ saves = 0
    /\ told = StartTold(file)
    /\ request = NoRequest

ConfigTypeOK ==
    /\ file \in Files
    /\ {startup, current, lastHash, read} \subseteq {f \in Files : Loads(f)}
    /\ watcher \in {"wait", "report", "swap", "stopped"} /\ fresh \in BOOLEAN
    /\ \A x \in Reported : told[x].said \in {"started", "applied", "partly", "restart"}

-----------------------------------------------------------------------------
Save(f) ==
    /\ saves < MaxSaves /\ f # file
    /\ file' = f /\ saves' = saves + 1 /\ fresh' = FALSE
    /\ UNCHANGED <<startup, current, lastHash, watcher, read, told, request>>

\* A tick of the second or trigger_reload.  A file that does not load, and one
\* whose hash is the last one's, change nothing.
Look ==
    /\ watcher = "wait"
    /\ fresh' = TRUE
    /\ IF Loads(file) /\ file # lastHash
       THEN read' = file /\ watcher' = "report"
       ELSE UNCHANGED <<read, watcher>>
    /\ UNCHANGED <<file, saves, startup, current, lastHash, told, request>>

Class(x) == IF x \in Live THEN "applied" ELSE IF x \in Partly THEN "partly" ELSE "restart"

\* Mutant: the new configuration is compared with the one of the start.
ReportChangesSinceStart ==
    /\ watcher = "report" /\ watcher' = "swap"
    /\ told' = [x \in Reported |-> IF startup[x] # read[x]
                                   THEN [value |-> read[x], said |-> Class(x)] ELSE told[x]]
    /\ UNCHANGED <<file, saves, startup, current, lastHash, read, fresh, request>>

\* report_changes: the new configuration against the one in force, before the swap.
ReportChanges ==
    /\ watcher = "report" /\ watcher' = "swap"
    /\ told' = [x \in Reported |-> IF current[x] # read[x]
                                   THEN [value |-> read[x], said |-> Class(x)] ELSE told[x]]
    /\ UNCHANGED <<file, saves, startup, current, lastHash, read, fresh, request>>

SwapConfig ==
    /\ watcher = "swap" /\ watcher' = "wait"
    /\ current' = read /\ lastHash' = read
    /\ request' = IF request.pc = "idle" THEN request
                  ELSE [request EXCEPT !.inForce = @ \cup {read}]
    /\ UNCHANGED <<file, saves, startup, read, fresh, told>>

\* The process is stopped, and later started on the file as it is then.
Stop ==
    /\ watcher # "stopped" /\ watcher' = "stopped"
    /\ request' = [NoRequest EXCEPT !.count = request.count]
    /\ UNCHANGED <<file, saves, startup, current, lastHash, read, fresh, told>>

Start ==
    /\ watcher = "stopped" /\ Loads(file)
    /\ startup' = file /\ current' = file /\ lastHash' = file /\ read' = file
    /\ watcher' = "wait" /\ fresh' = TRUE
    /\ told' = StartTold(file)
    /\ UNCHANGED <<file, saves, request>>

-----------------------------------------------------------------------------
(* A request.  inForce is what it is judged by: the configurations in force     *)
(* since it arrived.                                                             *)

\* The layer built at the start refuses what is too large, before any credential is
\* looked at.  A token is a partner's key, which the configuration does not hold, or
\* is tried as a password.
RequestArrives(token, route, size) ==
    /\ request.pc = "idle" /\ watcher # "stopped"
    /\ request.count < MaxRequests
    /\ request' = [pc |-> IF size > startup["max_body_size"] THEN "413" ELSE "credential",
                   count |-> request.count + 1, token |-> token, route |-> route,
                   size |-> size, inForce |-> {current}, sent |-> <<>>]
    /\ UNCHANGED <<file, saves, startup, current, lastHash, watcher, read, fresh, told>>

At(pc) == request.pc = pc /\ UNCHANGED <<file, saves, startup, current, lastHash, watcher, read,
                                         fresh, told>>

\* find_manager.
IsManager(token) == token = current["password"]

\* ManagerOnly.
MayManage(token) == IsManager(token)

\* proxy_handler refuses a manager.
MayProxy(token) == ~IsManager(token)

Admitted(route, token) == IF route = "admin" THEN MayManage(token) ELSE MayProxy(token)

\* Authenticated, and what the route then asks.
Authenticate ==
    /\ At("credential")
    /\ request' = [request EXCEPT !.pc =
          IF request.token # "key" /\ ~IsManager(request.token) THEN "401"
          ELSE IF ~Admitted(request.route, request.token) THEN "403"
          ELSE IF request.route = "admin" THEN "served" ELSE "body"]

ReadBody ==
    /\ At("body")
    /\ request' = [request EXCEPT !.pc = IF request.size > current["max_body_size"]
                                         THEN "413" ELSE "accepted"]

\* Where ProxyClient::proxy sends a request, and with which key.
Upstream(c) == <<c["base_url"], c["api_key"]>>

\* Mutant: the client's own base URL, of the start, with the live credential.
ForwardToDefault ==
    /\ At("accepted")
    /\ request' = [request EXCEPT !.pc = "served",
                                  !.sent = <<startup["base_url"], current["api_key"]>>]

\* AppState::upstream after the durable accept, and ProxyClient::proxy with it.
Forward ==
    /\ At("accepted")
    /\ request' = [request EXCEPT !.pc = "served",
                                  !.sent = Upstream(current)]

Answered == {"served", "401", "403", "413"}

Leave ==
    /\ request.pc \in Answered
    /\ request' = [NoRequest EXCEPT !.count = request.count]
    /\ UNCHANGED <<file, saves, startup, current, lastHash, watcher, read, fresh, told>>

ConfigNext ==
    \/ \E f \in Files : Save(f)
    \/ Look \/ ReportChanges \/ SwapConfig \/ Stop \/ Start
    \/ \E token \in Passwords \cup {"key"}, route \in {"v1", "admin"}, size \in Sizes :
          RequestArrives(token, route, size)
    \/ Authenticate \/ ReadBody \/ Forward \/ Leave

ConfigSpec == ConfigInit /\ [][ConfigNext]_configVars

-----------------------------------------------------------------------------
\* A request that was forwarded went to the base URL, and with the key, of one
\* configuration that was in force while it ran, never a mixture of two, however the
\* reload fell between its reads; its body was within the limit of the start and
\* within a limit in force (AppState::upstream, max_body_size).
RequestInForce ==
    request.pc = "served" /\ request.sent # <<>> =>
        /\ \E c \in request.inForce : request.sent = Upstream(c)
        /\ request.size <= startup["max_body_size"]
        /\ \E c \in request.inForce : request.size <= c["max_body_size"]

\* Once the watcher has looked at a file that loads, the snapshot is that file, and
\* the last line of the log about each reported field names the file's value; where
\* the process goes on with another, the line says that it does (report_changes).
OperatorTold ==
    watcher = "wait" /\ fresh /\ Loads(file) =>
        /\ current = file
        /\ \A x \in Reported :
              /\ told[x].value = file[x]
              /\ x \in Live => told[x].said # "restart"
              /\ x \notin Live /\ file[x] # startup[x] => told[x].said \in {"partly", "restart"}
=============================================================================
