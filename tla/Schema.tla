------------------------------- MODULE Schema -------------------------------
(***************************************************************************)
(* Opening the database: init_schema, which LedgerPool::new calls,         *)
(* brings the file to the schema of this build.  No                        *)
(* transaction encloses the migration; each of its statements commits on   *)
(* its own, several processes of a rolling update may run it on one file,  *)
(* any of them may die between two statements, and one that has finished   *)
(* already serves, and issues keys, while another is still migrating.      *)
(*                                                                         *)
(* Abstractions: usage_records is the set of its later columns; an api key *)
(* is its consumer, whether it is active and whether its allow-list names  *)
(* a model; the batch of schema.sql is cut where it can fail, at the       *)
(* unique index.                                                           *)
(*                                                                         *)
(* cached_tokens, which the history of versions names as the step from 1   *)
(* to 2, is made with its table and by nothing else: init_schema has no    *)
(* ALTER for it.                                                           *)
(***************************************************************************)
EXTENDS Integers, Sequences, FiniteSets, FiniteSetsExt

CONSTANTS
    Processes,
    Consumers,
    LegacyIds,    \* ids of keys issued by the build of version 5
    MaxId,        \* bound: keys ever issued
    MaxCrashes,   \* bound: processes that die
    NoKey

ASSUME IdsAreNumbers == MaxId \in Nat /\ LegacyIds \subseteq 1..MaxId /\ MaxCrashes \in Nat

SchemaVersion == 6
Columns == <<"instance_id", "error_body", "input_price_snapshot",
             "cached_input_price_snapshot", "output_price_snapshot">>
AllColumns == {Columns[i] : i \in DOMAIN Columns}

Key == [consumer : Consumers, active : BOOLEAN, models : BOOLEAN]
ASSUME NoKeyFresh == NoKey \notin Key

VARIABLES
    stamp,      \* ledger_meta.schema_version, 0 when there is none
    columns,    \* later columns of usage_records; {} also when there is no table
    base,       \* usage_records exists
    hasCached,  \* and has cached_tokens
    madeBy,     \* the stamp of the file as it was found, for the properties
    keyTable,   \* api_keys: "none", "legacy" (with allowed_models), "v6"
    unique,     \* idx_api_keys_one_active_per_consumer exists
    billing,    \* partners and the other billing tables, and ledger_meta, exist
    keys,       \* rows of api_keys
    partners,   \* rows of partners
    proc,       \* how far the start of each process is
    crashes

file == <<stamp, columns, base, hasCached, madeBy, keyTable, unique, billing, keys, partners>>
vars == <<file, proc, crashes>>

Down == [pc |-> "down", found |-> 0, column |-> 1, listed |-> {}]

TypeOK ==
    /\ stamp \in 0..(SchemaVersion + 1)
    /\ columns \subseteq AllColumns
    /\ base \in BOOLEAN /\ hasCached \in BOOLEAN /\ unique \in BOOLEAN /\ billing \in BOOLEAN
    /\ keyTable \in {"none", "legacy", "v6"}
    /\ keys \in [1..MaxId -> Key \cup {NoKey}]
    /\ partners \subseteq Consumers
    /\ proc \in [Processes ->
          [pc : {"down", "collapse", "tables", "rest", "column", "alter", "list", "query",
                 "copy", "dropcheck", "rebuild", "finish", "up", "refused"},
           found : 0..SchemaVersion, column : 1..Len(Columns), listed : SUBSET Consumers]]
    /\ crashes \in 0..MaxCrashes

\* The columns the builds before this one had added, by their version.
ColumnsOf(v) == (IF v >= 3 THEN {"instance_id"} ELSE {})
                \cup (IF v >= 4 THEN {"error_body"} ELSE {})
                \cup (IF v >= 6 THEN AllColumns ELSE {})

Active(ks, c) == {k \in DOMAIN ks : ks[k] # NoKey /\ ks[k].consumer = c /\ ks[k].active}
Issued == {k \in 1..MaxId : keys[k] # NoKey}

\* A new file, one left by an earlier build, by this one or by a newer one.  The
\* build of version 5 let a consumer have two active keys.
Init ==
    /\ stamp \in 0..(SchemaVersion + 1) /\ madeBy = stamp
    /\ base = (stamp > 0) /\ hasCached = (stamp >= 2)
    /\ billing = (stamp >= 6) /\ unique = (stamp >= 6)
    /\ columns = ColumnsOf(stamp)
    /\ keyTable = IF stamp < 5 THEN "none" ELSE IF stamp = 5 THEN "legacy" ELSE "v6"
    /\ keys \in [1..MaxId -> Key \cup {NoKey}]
    /\ Issued = IF stamp = 5 THEN LegacyIds ELSE {}
    /\ partners = {}
    /\ proc = [p \in Processes |-> Down]
    /\ crashes = 0

-----------------------------------------------------------------------------
At(p, pc) == proc[p].pc = pc
Goto(p, pc) == proc' = [proc EXCEPT ![p].pc = pc]

\* A statement fails: the error ends the process, and it is started again.
Fail(p) == proc' = [proc EXCEPT ![p] = Down]

\* LedgerPool::new opens the file and init_schema reads the recorded version; a
\* newer build's file is refused.
Open(p) ==
    /\ At(p, "down")
    /\ proc' = [proc EXCEPT ![p] =
          IF stamp > SchemaVersion THEN [Down EXCEPT !.pc = "refused"]
          ELSE [Down EXCEPT !.pc = IF stamp < 6 THEN "collapse" ELSE "tables", !.found = stamp]]
    /\ UNCHANGED <<stamp, columns, base, hasCached, madeBy, keyTable, unique, billing, keys,
                   partners, crashes>>

\* Mutant: the oldest of a consumer's active keys is kept.
CollapseOldest(p) ==
    /\ At(p, "collapse") /\ Goto(p, "tables")
    /\ keys' = IF keyTable = "none" THEN keys
               ELSE [k \in 1..MaxId |->
                       IF keys[k] # NoKey /\ keys[k].active
                          /\ k # Min(Active(keys, keys[k].consumer))
                       THEN [keys[k] EXCEPT !.active = FALSE] ELSE keys[k]]
    /\ UNCHANGED <<stamp, columns, base, hasCached, madeBy, keyTable, unique, billing,
                   partners, crashes>>

\* collapse_duplicate_active_keys: all active keys but a consumer's newest one are
\* revoked.
Collapse(p) ==
    /\ At(p, "collapse") /\ Goto(p, "tables")
    /\ keys' = IF keyTable = "none" THEN keys
               ELSE [k \in 1..MaxId |->
                       IF keys[k] # NoKey /\ keys[k].active
                          /\ k # Max(Active(keys, keys[k].consumer))
                       THEN [keys[k] EXCEPT !.active = FALSE] ELSE keys[k]]
    /\ UNCHANGED <<stamp, columns, base, hasCached, madeBy, keyTable, unique, billing,
                   partners, crashes>>

\* schema.sql up to the unique index; every statement is IF NOT EXISTS.
CreateTables(p) ==
    /\ At(p, "tables") /\ Goto(p, "rest")
    /\ base' = TRUE
    /\ columns' = IF base THEN columns ELSE AllColumns
    /\ hasCached' = (base => hasCached)
    /\ keyTable' = IF keyTable = "none" THEN "v6" ELSE keyTable
    /\ UNCHANGED <<stamp, madeBy, unique, billing, keys, partners, crashes>>

\* The unique index, which two active keys of one consumer would stop, and the
\* tables after it.
CreateRest(p) ==
    /\ At(p, "rest") /\ Goto(p, "column")
    /\ \A c \in Consumers : Cardinality(Active(keys, c)) <= 1
    /\ unique' = TRUE /\ billing' = TRUE
    /\ UNCHANGED <<stamp, columns, base, hasCached, madeBy, keyTable, keys, partners, crashes>>

\* Which of the ALTERs are tried at all, by the version found.
Tried(column, found) == \/ column = "instance_id"
                        \/ column = "error_body" /\ found < 4
                        \/ column \notin {"instance_id", "error_body"} /\ found < 6

\* On to the next column, or to the allow-lists, or past them.
NextColumn(p) ==
    IF proc[p].column < Len(Columns)
    THEN proc' = [proc EXCEPT ![p].pc = "column", ![p].column = @ + 1]
    ELSE Goto(p, IF proc[p].found < 6 THEN "list" ELSE "finish")

\* Mutant: a column is added without looking for it.
CheckColumnBlind(p) ==
    /\ At(p, "column")
    /\ IF Tried(Columns[proc[p].column], proc[p].found) THEN Goto(p, "alter") ELSE NextColumn(p)
    /\ UNCHANGED <<file, crashes>>

\* column_exists.  The check that ends with MigrationIncomplete looks again right
\* after, and columns are never removed.
CheckColumn(p) ==
    LET column == Columns[proc[p].column]
    IN /\ At(p, "column")
       /\ IF Tried(column, proc[p].found) /\ column \notin columns
          THEN Goto(p, "alter") ELSE NextColumn(p)
       /\ UNCHANGED <<file, crashes>>

\* ALTER TABLE ADD COLUMN: "duplicate column name" when another process was
\* faster.
AddColumn(p) ==
    LET column == Columns[proc[p].column]
    IN /\ At(p, "alter")
       /\ IF column \in columns THEN Fail(p) ELSE NextColumn(p)
       /\ columns' = columns \cup {column}
       /\ UNCHANGED <<stamp, base, hasCached, madeBy, keyTable, unique, billing, keys,
                      partners, crashes>>

-----------------------------------------------------------------------------
(* migrate_model_allow_list and drop_legacy_allow_list_column. *)

\* Is there an allow-list column?
CheckAllowList(p) ==
    /\ At(p, "list")
    /\ Goto(p, IF keyTable = "legacy" THEN "query" ELSE "dropcheck")
    /\ UNCHANGED <<file, crashes>>

\* The consumers whose active keys name models, read outside the transaction.
ListModels(p) ==
    /\ At(p, "query")
    /\ IF keyTable = "legacy"
       THEN proc' = [proc EXCEPT ![p].pc = "copy",
                ![p].listed = {c \in Consumers : \E k \in Active(keys, c) : keys[k].models}]
       ELSE Fail(p)
    /\ UNCHANGED <<file, crashes>>

\* Mutant: only consumers with models to name get a partner record.
CopyPartnersListed(p) ==
    /\ At(p, "copy")
    /\ IF keyTable = "legacy"
       THEN /\ partners' = partners \cup proc[p].listed
            /\ keys' = [k \in 1..MaxId |-> IF keys[k] = NoKey THEN NoKey
                                           ELSE [keys[k] EXCEPT !.models = FALSE]]
            /\ Goto(p, "dropcheck")
       ELSE Fail(p) /\ UNCHANGED <<partners, keys>>
    /\ UNCHANGED <<stamp, columns, base, hasCached, madeBy, keyTable, unique, billing, crashes>>

\* One transaction: a partner record for every consumer with a key, and the
\* allow-lists emptied.
CopyPartners(p) ==
    /\ At(p, "copy")
    /\ IF keyTable = "legacy"
       THEN /\ partners' = partners \cup proc[p].listed \cup {keys[k].consumer : k \in Issued}
            /\ keys' = [k \in 1..MaxId |-> IF keys[k] = NoKey THEN NoKey
                                           ELSE [keys[k] EXCEPT !.models = FALSE]]
            /\ Goto(p, "dropcheck")
       ELSE Fail(p) /\ UNCHANGED <<partners, keys>>
    /\ UNCHANGED <<stamp, columns, base, hasCached, madeBy, keyTable, unique, billing, crashes>>

CheckDrop(p) ==
    /\ At(p, "dropcheck")
    /\ Goto(p, IF keyTable = "legacy" THEN "rebuild" ELSE "finish")
    /\ UNCHANGED <<file, crashes>>

\* One transaction copies the table without the column, and makes its indexes
\* again; a table rebuilt meanwhile is rebuilt once more.
Rebuild(p) ==
    /\ At(p, "rebuild") /\ Goto(p, "finish")
    /\ keyTable' = "v6" /\ unique' = TRUE
    /\ UNCHANGED <<stamp, columns, base, hasCached, madeBy, billing, keys, partners, crashes>>

\* The in-flight index, the check of the billing tables, write_schema_version.
Finish(p) ==
    /\ At(p, "finish") /\ Goto(p, "up")
    /\ billing
    /\ stamp' = SchemaVersion
    /\ UNCHANGED <<columns, base, hasCached, madeBy, keyTable, unique, billing, keys,
                   partners, crashes>>

Start(p) == \/ Open(p) \/ Collapse(p) \/ CreateTables(p) \/ CreateRest(p)
            \/ CheckColumn(p) \/ AddColumn(p) \/ CheckAllowList(p) \/ ListModels(p)
            \/ CopyPartners(p) \/ CheckDrop(p) \/ Rebuild(p) \/ Finish(p)

-----------------------------------------------------------------------------
\* A process that is up issues a key, and with it revokes the active one of the
\* consumer (ApiKeyStore::create, rotate).
Issue(p, c) ==
    LET next == 1 + Max(Issued \cup LegacyIds \cup {0})
    IN /\ At(p, "up") /\ next <= MaxId
       /\ keys' = [k \in 1..MaxId |->
                     IF k = next THEN [consumer |-> c, active |-> TRUE, models |-> FALSE]
                     ELSE IF k \in Active(keys, c) THEN [keys[k] EXCEPT !.active = FALSE]
                     ELSE keys[k]]
       /\ UNCHANGED <<stamp, columns, base, hasCached, madeBy, keyTable, unique, billing,
                      partners, proc,
                      crashes>>

\* The process dies, or a statement of it fails, a busy database included.
Crash(p) ==
    /\ proc[p].pc \notin {"down", "refused"} /\ crashes < MaxCrashes /\ crashes' = crashes + 1
    /\ proc' = [proc EXCEPT ![p] = Down]
    /\ UNCHANGED file

Next == \E p \in Processes : Start(p) \/ Crash(p) \/ \E c \in Consumers : Issue(p, c)

Spec == Init /\ [][Next]_vars

\* A process is started again when its start fails (restart: unless-stopped), and
\* its start runs on.
FairSpec == Spec /\ \A p \in Processes : WF_vars(Start(p))

-----------------------------------------------------------------------------
\* What version 6 adds to the file of an earlier one.
Complete ==
    /\ base /\ columns = AllColumns /\ billing /\ unique /\ keyTable = "v6"
    /\ \A k \in LegacyIds : keys[k] # NoKey => keys[k].consumer \in partners

\* The file says version 6, or a process serves on it, only when nothing of version
\* 6 is missing: also while another process is in the middle of the same
\* migration, after crashes between any two statements, and for consumers whose
\* keys named no model or were all revoked.  A file of version 1 is the exception: it
\* is stamped without cached_tokens (init_schema).
StampedIsComplete ==
    (stamp = SchemaVersion \/ \E p \in Processes : At(p, "up")) =>
        Complete /\ (madeBy # 1 => hasCached)

\* No step of a migration takes a consumer's newest active key away: it stays
\* active unless a newer one of the same consumer replaces it.
NewestKeyKept ==
    [][\A c \in Consumers : Active(keys, c) # {} =>
          \E k \in Active(keys', c) : k >= Max(Active(keys, c))]_vars

\* Processes that migrate one file at once, and make each other's statements fail,
\* all come up in the end; a file of a newer build is refused for good.
EveryProcessStarts ==
    \A p \in Processes : <>[](At(p, "up") \/ (At(p, "refused") /\ stamp > SchemaVersion))
=============================================================================
