---------------------------- MODULE RequestList ----------------------------
(***************************************************************************)
(* The dashboard's queries, while the ledger they read is written to: a    *)
(* client walks the request list page by page, each page a transaction of  *)
(* its own, and asks for the totals of the same window.                    *)
(*                                                                         *)
(* Ids are given in commit order, created_at is stamped when a request is  *)
(* accepted, so the two orders may differ.  usage_hourly is kept as what   *)
(* Rollup shows a bucket to be, the finished rows counted in it, until     *)
(* retention deletes the bucket: whole, also the one of the hour in which  *)
(* the cutoff falls, of which younger rows stay.  A consumer and a status  *)
(* stand for all the filters of a query.                                   *)
(***************************************************************************)
EXTENDS Integers, Sequences, FiniteSets, FiniteSetsExt, SequencesExt

CONSTANTS
    ConsumerIds,
    Manager,     \* the manager's credential; a key's is its consumer
    Queries,     \* what clients ask for
    RangeLen,    \* length of a named range
    RetentionLen,\* retention_days
    HourUnits,   \* units of time in an hour
    Limit,       \* rows of a page
    MaxTime,     \* bound: the last instant
    MaxRecords,     \* bound: rows ever written
    NoRecord

ASSUME ListBounds == /\ {RangeLen, RetentionLen, HourUnits, Limit} \subseteq Nat \ {0}
                     /\ {MaxTime, MaxRecords} \subseteq Nat /\ Manager \notin ConsumerIds

\* range is "recent" or the bounds of a custom range; names is the consumers
\* parameter.
Query == [range : {"recent"} \cup (0..MaxTime) \X (0..MaxTime),
          cred : ConsumerIds \cup {Manager}, names : SUBSET ConsumerIds,
          status : {"all", "in_flight", "completed"}]
ASSUME QueriesAsked == Queries \subseteq Query

VARIABLES
    now,
    ledger,      \* usage_records, by id
    hourly,      \* usage_hourly, by the id of the row that was counted
    cursorKey,   \* of ledger_meta
    walk         \* the client

listVars == <<now, ledger, hourly, cursorKey, walk>>

Record == [at : 0..MaxTime, consumer : ConsumerIds, status : {"in_flight", "completed"}]
ASSUME NoRecordFresh == NoRecord \notin Record

NoWalk == [pc |-> "idle"]
Ids == {i \in DOMAIN ledger : ledger[i] # NoRecord}

ListTypeOK ==
    /\ now \in 0..MaxTime
    /\ ledger \in Seq(Record \cup {NoRecord}) /\ Len(ledger) <= MaxRecords
    /\ hourly \in Seq(Record \cup {NoRecord}) /\ Len(hourly) = Len(ledger)
    /\ cursorKey \in {"none", "ours", "theirs"}
    /\ walk.pc \in {"idle", "key", "store", "read", "totals", "ended", "refused"}

\* schema.sql seeds the key when the file is made; a file that lacks it gets it on the first
\* use.
ListInit == /\ now = 0 /\ ledger = <<>> /\ hourly = <<>>
            /\ cursorKey \in {"none", "theirs"} /\ walk = NoWalk

HourOf(t) == t \div HourUnits

-----------------------------------------------------------------------------
(* The ledger meanwhile. *)

Tick == now < MaxTime /\ now' = now + 1 /\ UNCHANGED <<ledger, hourly, cursorKey, walk>>

\* A row is committed now or, when its batch was slow, an instant later.
InsertRow(c, at) ==
    /\ Len(ledger) < MaxRecords /\ at \in 0..now
    /\ ledger' = Append(ledger, [at |-> at, consumer |-> c, status |-> "in_flight"])
    /\ hourly' = Append(hourly, NoRecord)
    /\ UNCHANGED <<now, cursorKey, walk>>

\* Counted in the bucket of its hour, a new one if that has been deleted.
Complete(i) ==
    /\ i \in Ids /\ ledger[i].status = "in_flight"
    /\ ledger' = [ledger EXCEPT ![i].status = "completed"]
    /\ hourly' = [hourly EXCEPT ![i] = ledger'[i]]
    /\ UNCHANGED <<now, cursorKey, walk>>

\* Retention; ids are not used again.
Prune(i) ==
    /\ i \in Ids /\ ledger[i].at < now - RetentionLen
    /\ ledger' = [ledger EXCEPT ![i] = NoRecord]
    /\ UNCHANGED <<now, hourly, cursorKey, walk>>

\* hour < cutoff compares the text of an hour with that of an instant: the hour the
\* cutoff is in is the less of the two.
PruneBucket(c, hour) ==
    LET bucket == {i \in DOMAIN hourly : /\ hourly[i] # NoRecord /\ hourly[i].consumer = c
                                        /\ HourOf(hourly[i].at) = hour}
    IN /\ hour <= HourOf(now - RetentionLen) /\ bucket # {}
       /\ hourly' = [i \in DOMAIN hourly |-> IF i \in bucket THEN NoRecord ELSE hourly[i]]
       /\ UNCHANGED <<now, ledger, cursorKey, walk>>

\* Another process signs its first cursor.
OthersKey ==
    /\ cursorKey = "none" /\ cursorKey' = "theirs"
    /\ UNCHANGED <<now, ledger, hourly, walk>>

-----------------------------------------------------------------------------
(* TimeWindow::resolve, resolve_scope and the filters. *)

WindowOf(q) == IF q.range = "recent" THEN <<now - RangeLen, now>> ELSE q.range

Refused(q) == \/ WindowOf(q)[1] >= WindowOf(q)[2]
              \/ WindowOf(q)[1] < now - RetentionLen

OpensAt(q) == WindowOf(q)[1]
ClosesAt(q) == Min({WindowOf(q)[2], now})

Scope(q) == IF q.cred # Manager THEN {q.cred}
            ELSE IF q.names = {} THEN ConsumerIds ELSE q.names

Matches(q, i) ==
    /\ ledger[i].consumer \in Scope(q)
    /\ OpensAt(q) <= ledger[i].at /\ ledger[i].at < ClosesAt(q)
    /\ q.status = "all" \/ ledger[i].status = q.status

\* Mutant: the cursor is the timestamp alone.
BeforeInstant(i, cursor) == ledger[i].at < cursor[1]

\* (created_at, id) < cursor.
Before(i, cursor) == \/ ledger[i].at < cursor[1]
                     \/ ledger[i].at = cursor[1] /\ i < cursor[2]

\* ORDER BY created_at DESC, id DESC.
Later(i, j) == ledger[i].at > ledger[j].at \/ (ledger[i].at = ledger[j].at /\ i > j)
Ordered(S) == CHOOSE f \in SetToSeqs(S) : \A i, j \in DOMAIN f : i < j => Later(f[i], f[j])

-----------------------------------------------------------------------------
(* get_requests. *)

Begin(q) ==
    /\ walk.pc = "idle"
    /\ walk' = [pc |-> "key", query |-> q, cursor |-> <<>>, signed |-> "none",
                key |-> "none", got |-> <<>>, due |-> {}, counted |-> 0, exact |-> 0]
    /\ UNCHANGED <<now, ledger, hourly, cursorKey>>

\* signing_key: cursor_key reads the key, and stores one when there is none.  A
\* window that cannot be served, and a cursor signed with another key, end with 400.
ReadKey ==
    /\ walk.pc = "key"
    /\ walk' = IF Refused(walk.query) THEN [walk EXCEPT !.pc = "refused"]
               ELSE IF cursorKey = "none" THEN [walk EXCEPT !.pc = "store"]
               ELSE IF walk.cursor # <<>> /\ walk.signed # cursorKey
               THEN [walk EXCEPT !.pc = "refused"]
               ELSE [walk EXCEPT !.pc = "read", !.key = cursorKey]
    /\ UNCHANGED <<now, ledger, hourly, cursorKey>>

\* INSERT OR IGNORE.
StoreKey ==
    /\ walk.pc = "store"
    /\ cursorKey' = IF cursorKey = "none" THEN "ours" ELSE cursorKey
    /\ walk' = [walk EXCEPT !.pc = "key"]
    /\ UNCHANGED <<now, ledger, hourly>>

\* One page; a row more than Limit says that there is a next one, whose cursor is
\* the last row shown.
ReadPage ==
    LET q    == walk.query
        all  == {i \in Ids : Matches(q, i)}
        left == {i \in all : walk.cursor = <<>> \/ Before(i, walk.cursor)}
        list == Ordered(left)
        rows == SubSeq(list, 1, Min({Limit, Len(list)}))
        more == Len(list) > Limit
        last == rows[Len(rows)]
    IN /\ walk.pc = "read"
       /\ walk' = [walk EXCEPT
             !.pc = IF more THEN "key" ELSE "totals",
             !.cursor = IF more THEN <<ledger[last].at, last>> ELSE @,
             !.signed = IF more THEN walk.key ELSE @,
             !.got = @ \o rows,
             !.due = IF walk.cursor = <<>> THEN all ELSE @]
       /\ UNCHANGED <<now, ledger, hourly, cursorKey>>

\* hour >= start_hour AND hour <= end_hour.
InHours(q, t) == HourOf(OpensAt(q)) <= HourOf(t) /\ HourOf(t) <= HourOf(ClosesAt(q))

\* get_models, whose list holds what these rows name: the scope's rows of usage_hourly,
\* in the hours of the window, whatever the query filters by.
RolledUp(q) == {i \in DOMAIN hourly : /\ hourly[i] # NoRecord
                                     /\ hourly[i].consumer \in Scope(q)
                                     /\ InHours(q, hourly[i].at)}

\* The finished rows of the window whose hour retention has not come to.
Settled(q) == {i \in Ids : /\ ledger[i].status # "in_flight" /\ ledger[i].consumer \in Scope(q)
                           /\ OpensAt(q) <= ledger[i].at /\ ledger[i].at < ClosesAt(q)
                           /\ HourOf(now - RetentionLen) < HourOf(ledger[i].at)}

\* get_summary and get_timeseries: whole hours of the rollup, here how many requests.
\* exact is how many there are to count.
ReadTotals ==
    LET q == walk.query
    IN /\ walk.pc = "totals"
       /\ walk' = IF Refused(q) THEN [walk EXCEPT !.pc = "refused"]
                  ELSE [walk EXCEPT !.pc = "ended", !.counted = Cardinality(RolledUp(q)),
                                    !.exact = Cardinality(Settled(q))]
       /\ UNCHANGED <<now, ledger, hourly, cursorKey>>

ListNext ==
    \/ Tick \/ OthersKey \/ ReadKey \/ StoreKey \/ ReadPage \/ ReadTotals
    \/ \E c \in ConsumerIds : \E at \in {now - 1, now} : InsertRow(c, at)
    \/ \E i \in Ids : Complete(i) \/ Prune(i)
    \/ \E c \in ConsumerIds, hour \in 0..HourOf(MaxTime) : PruneBucket(c, hour)
    \/ \E q \in Queries : Begin(q)

ListSpec == ListInit /\ [][ListNext]_listVars

-----------------------------------------------------------------------------
\* A walk shows no row twice and none outside the credential's scope; when it has
\* reached the last page it has shown every row that matched when it began and still
\* matches, however many rows share an instant, commit late, change their status or
\* are pruned meanwhile; it is refused only for its window, never for a cursor it was
\* given; and the totals read after it leave out no finished request of the window, the
\* hour that is still running included, except of the hour in which the window of
\* retention opens (get_requests, cursor_key, get_summary, run_retention).
WalkExact ==
    walk.pc # "idle" =>
        /\ IsInjective(walk.got)
        /\ walk.query.cred # Manager =>
              \A i \in Range(walk.got) :
                  ledger[i] # NoRecord => ledger[i].consumer = walk.query.cred
        /\ walk.pc = "totals" =>
              {i \in walk.due \cap Ids : Matches(walk.query, i)} \subseteq Range(walk.got)
        /\ walk.pc = "refused" => Refused(walk.query)
        /\ walk.pc = "ended" => walk.counted >= walk.exact
=============================================================================
