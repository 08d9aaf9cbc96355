------------------------------ MODULE MCParts ------------------------------
(***************************************************************************)
(* The parts of the system whose correctness is a matter of safety and of  *)
(* their own state alone, for TLC: the scan of a streamed response, the    *)
(* pricing of a day's rows, the walk through a list that changes, the      *)
(* reload of the configuration, the books the managers keep.  They share   *)
(* nothing; every behaviour is one of the five, the others at rest.        *)
(*                                                                         *)
(* Bodies are put together from lines, fragments of lines and terminators, *)
(* so that events of several lines, of every kind of ending and of sizes   *)
(* around the cap are met.                                                 *)
(***************************************************************************)
EXTENDS SseScan, Pricing, RequestList, LiveConfig, Accounts, TLC

CONSTANTS own, other, MaxPieces   \* bound: pieces of a body

VARIABLE part

Pieces == {<<"d", ":", "a">>, <<"d", ":", "b">>, <<"d", ":">>, <<"d">>, <<"lf">>, <<"cr">>}
Invalid == <<"x", "x">>

\* The two usages may be exchanged for each other, so a is the first of a body.
AFirst(body) == \A i \in DOMAIN body : body[i] = "b" => \E j \in 1..i : body[j] = "a"

\* Of a given number of pieces; a shorter body is one whose client left.
Bodies(pieces, n) == {body \in {FlattenSeq(ps) : ps \in [1..n -> pieces]} : AFirst(body)}

\* With bytes that are no text as well, a little shorter.
MCStreams == Bodies(Pieces, MaxPieces) \cup Bodies(Pieces \cup {Invalid}, MaxPieces - 1)

\* A key that names another consumer, and the manager over everything.
MCQueries ==
    {[range |-> "recent", cred |-> own, names |-> {other}, status |-> "all"],
     [range |-> <<0, MaxTime>>, cred |-> Manager, names |-> {}, status |-> "in_flight"]}

\* The configuration of the start, and edits of it: a new upstream, a new password
\* with a larger body, a captured field, all of them, and two that do not load.
FirstFile == [base_url |-> "u1", api_key |-> "k1", password |-> "p1", max_body_size |-> 1,
              sse_poll_interval_ms |-> 1, billing |-> 1]
Upstream2 == [FirstFile EXCEPT !.base_url = "u2", !.api_key = "k2"]
MCFiles ==
    {FirstFile, Upstream2, Unreadable,
     [FirstFile EXCEPT !.password = "p2", !.max_body_size = 2],
     [FirstFile EXCEPT !.sse_poll_interval_ms = 2],
     [Upstream2 EXCEPT !.password = "p2", !.max_body_size = 2, !.billing = 2],
     [Upstream2 EXCEPT !.api_key = Bad]}

\* Bound: a walk that has ended is looked at and not followed, since it shows no more.
WalkUnderWay == walk.pc \notin {"ended", "refused"}

Sym == Permutations(Callers)

NoScan == stream = <<>> /\ fed = 0 /\ rest = <<>> /\ scanner = Fresh /\ finished = FALSE
AsFirst == /\ file = FirstFile /\ startup = file /\ current = file /\ lastHash = file
           /\ read = file /\ watcher = "wait" /\ fresh = TRUE /\ saves = 0
           /\ told = StartTold(file) /\ request = NoRequest

Init == /\ part \in {"scan", "prices", "list", "config", "accounts"}
        /\ IF part = "scan" THEN ScanInit ELSE NoScan
        /\ IF part = "config" THEN ConfigInit ELSE AsFirst
        /\ PricingInit /\ AccountsInit
        /\ ListInit /\ (part # "list" => cursorKey = "theirs")

Next == /\ \/ part = "scan" /\ ScanNext /\ UNCHANGED <<rows, listVars, configVars, accountVars>>
           \/ part = "prices" /\ PricingNext
              /\ UNCHANGED <<scanVars, listVars, configVars, accountVars>>
           \/ part = "list" /\ ListNext /\ UNCHANGED <<scanVars, rows, configVars, accountVars>>
           \/ part = "config" /\ ConfigNext /\ UNCHANGED <<scanVars, rows, listVars, accountVars>>
           \/ part = "accounts" /\ AccountsNext
              /\ UNCHANGED <<scanVars, rows, listVars, configVars>>
        /\ UNCHANGED part

Spec == Init /\ [][Next]_<<scanVars, rows, listVars, configVars, accountVars, part>>
=============================================================================
