---------------------------- MODULE BooksProofs ----------------------------
(***************************************************************************)
(* What is kept in the database file and what is made of it: the schema    *)
(* and its migrations, the partners' books, the price of a day, the change *)
(* events of the dashboard.  They share no variable; each has an invariant *)
(* of its own, for any number of processes, keys, crashes, managers,       *)
(* partners, days, usage rows, commits and browsers.                       *)
(***************************************************************************)
EXTENDS Schema, Accounts, Pricing, Dashboard, SetFacts

-----------------------------------------------------------------------------
(* Schema.  The file only ever gains what version 6 asks for; the invariant     *)
(* says, for every process, what the statements it has passed have left in the  *)
(* file, so that nothing is missing where it stamps the version.                *)

Covered == \A k \in LegacyIds : keys[k] # NoKey => keys[k].consumer \in partners

\* The statements from each point of init_schema on.
PastTables == {"rest", "column", "alter", "list", "query", "copy", "dropcheck", "rebuild",
               "finish", "up"}
PastRest == PastTables \ {"rest"}
PastColumns == PastRest \ {"column", "alter"}
PastCopy == {"dropcheck", "rebuild", "finish", "up"}
PastRebuild == {"finish", "up"}

\* What the statements a process has executed, or found executed, left behind.
Progress(q) ==
    /\ ColumnsOf(q.found) \subseteq columns
    /\ q.found = SchemaVersion => Complete
    /\ q.pc \in PastTables => base /\ keyTable # "none"
    /\ q.pc \in PastRest => unique /\ billing
    /\ q.pc \notin PastRest => q.column = 1
    /\ q.pc \in {"column", "alter"} => \A i \in 1..(q.column - 1) : Columns[i] \in columns
    /\ q.pc \in PastColumns => columns = AllColumns
    /\ q.pc \in PastCopy => Covered
    /\ q.pc \in PastRebuild => keyTable = "v6"

\* No two active keys of one consumer.
SingleKeys == \A c \in Consumers : \A j, k \in Active(keys, c) : j = k

\* A table that an earlier build did not leave without the column has it.
CachedHere == base /\ madeBy # 1 => hasCached

\* The unique index is never in the way of a key that is issued or revoked.
IndexHolds == unique => SingleKeys

SchemaInv ==
    /\ TypeOK
    /\ stamp = SchemaVersion => Complete
    /\ ColumnsOf(stamp) \subseteq columns
    /\ keyTable # "legacy" => Covered
    /\ \A p \in Processes : Progress(proc[p])
    /\ IndexHolds
    /\ CachedHere

-----------------------------------------------------------------------------
ProcType ==
    [pc : {"down", "collapse", "tables", "rest", "column", "alter", "list", "query",
           "copy", "dropcheck", "rebuild", "finish", "up", "refused"},
     found : 0..SchemaVersion, column : 1..Len(Columns), listed : SUBSET Consumers]

FileType ==
    /\ stamp \in 0..(SchemaVersion + 1)
    /\ columns \subseteq AllColumns
    /\ base \in BOOLEAN /\ hasCached \in BOOLEAN /\ unique \in BOOLEAN /\ billing \in BOOLEAN
    /\ keyTable \in {"none", "legacy", "v6"}
    /\ keys \in [1..MaxId -> Key \cup {NoKey}]
    /\ partners \subseteq Consumers

\* What no statement of any process takes back.
Grows ==
    /\ columns \subseteq columns'
    /\ base => base'
    /\ unique => unique'
    /\ billing => billing'
    /\ keyTable # "none" => keyTable' # "none"
    /\ keyTable = "v6" => keyTable' = "v6"
    /\ Covered => Covered'
    /\ CachedHere => CachedHere'

\* The five later columns are all of them.
LEMMA ColumnNames ==
    /\ Len(Columns) = 5 /\ DOMAIN Columns = 1..5
    /\ AllColumns = {Columns[1], Columns[2], Columns[3], Columns[4], Columns[5]}
    /\ Columns[1] = "instance_id" /\ Columns[2] = "error_body"
    /\ \A i \in 3..5 : Columns[i] \notin {"instance_id", "error_body"}
<1>1. Len(Columns) = 5 /\ DOMAIN Columns = 1..5
  BY DEF Columns
<1>2. AllColumns = {Columns[1], Columns[2], Columns[3], Columns[4], Columns[5]}
  <2>1. 1..5 = {1, 2, 3, 4, 5}
    OBVIOUS
  <2> QED
    BY <1>1, <2>1 DEF AllColumns
<1>3. \A i \in 3..5 : i = 3 \/ i = 4 \/ i = 5
  OBVIOUS
<1>4. Columns[1] = "instance_id" /\ Columns[2] = "error_body"
      /\ Columns[3] \notin {"instance_id", "error_body"}
      /\ Columns[4] \notin {"instance_id", "error_body"}
      /\ Columns[5] \notin {"instance_id", "error_body"}
  BY DEF Columns
<1> QED
  BY <1>1, <1>2, <1>3, <1>4

\* The type invariant by its parts.
LEMMA TypeParts ==
    TypeOK <=> FileType /\ proc \in [Processes -> ProcType] /\ crashes \in 0..MaxCrashes
BY DEF TypeOK, FileType, ProcType

\* The same for the state a step leads to.
LEMMA TypePartsNext ==
    (FileType' /\ proc' \in [Processes -> ProcType] /\ crashes' \in 0..MaxCrashes) => TypeOK'
BY DEF TypeOK, FileType, ProcType

\* What is complete stays so.
LEMMA CompleteStays ==
    ASSUME Grows, FileType', Complete PROVE Complete'
BY DEF Grows, FileType, Complete, Covered

\* A step of one process, given what it does to the file and where the process is
\* then.
LEMMA OneProcess ==
    ASSUME SchemaInv, NEW p \in Processes, NEW q \in ProcType,
           proc' = [proc EXCEPT ![p] = q], crashes' \in 0..MaxCrashes,
           Grows, FileType',
           stamp' = stamp \/ (stamp' = SchemaVersion /\ Complete'),
           ColumnsOf(stamp') \subseteq columns',
           keyTable' = keyTable \/ Covered', IndexHolds',
           Progress(q)'
    PROVE  SchemaInv'
<1>1. proc \in [Processes -> ProcType]
  BY TypeParts DEF SchemaInv
<1>2. proc' \in [Processes -> ProcType]
  BY <1>1
<1>3. TypeOK'
  BY <1>2, TypePartsNext
<1>4. Complete => Complete'
  BY CompleteStays
<1>5. \A r \in Processes : Progress(proc[r])'
  <2> SUFFICES ASSUME NEW r \in Processes PROVE Progress(proc[r])'
    OBVIOUS
  <2>1. CASE r = p
    <3>1. proc'[r] = q
      BY <1>1, <2>1
    <3> QED
      BY <3>1 DEF Progress
  <2>2. CASE r # p
    <3>1. proc'[r] = proc[r]
      BY <1>1, <2>2
    <3>2. Progress(proc[r])
      BY DEF SchemaInv
    <3> QED
      BY <1>4, <3>1, <3>2 DEF Progress, Grows, FileType
  <2> QED
    BY <2>1, <2>2
<1>6. keyTable' # "legacy" => Covered'
  BY DEF SchemaInv, Grows, FileType
<1>7. stamp' = SchemaVersion => Complete'
  BY <1>4 DEF SchemaInv
<1> QED
  BY <1>3, <1>5, <1>6, <1>7 DEF SchemaInv, Grows

\* A step of one process that leaves the file alone.
LEMMA OnlyMoves ==
    ASSUME SchemaInv, NEW p \in Processes, NEW q \in ProcType,
           proc' = [proc EXCEPT ![p] = q], crashes' \in 0..MaxCrashes,
           UNCHANGED file, Progress(q)
    PROVE  SchemaInv'
<1>1. UNCHANGED <<stamp, columns, base, hasCached, madeBy, keyTable, unique, billing, keys,
                  partners>>
  BY DEF file
<1>2. FileType
  BY TypeParts DEF SchemaInv
<1>3. FileType'
  BY <1>1, <1>2 DEF FileType
<1>4. Grows
  BY <1>1 DEF Grows, Covered, CachedHere
<1>5. IndexHolds'
  BY <1>1 DEF SchemaInv, IndexHolds, SingleKeys, Active
<1>6. Progress(q)'
  BY <1>1 DEF Progress, Complete, Covered, ColumnsOf
<1>7. ColumnsOf(stamp') \subseteq columns'
  BY <1>1 DEF SchemaInv, ColumnsOf
<1> QED
  BY <1>1, <1>3, <1>4, <1>5, <1>6, <1>7, OneProcess

\* What Goto leaves of the process.
LEMMA Moved ==
    ASSUME proc \in [Processes -> ProcType], NEW p \in Processes,
           NEW x \in {"down", "collapse", "tables", "rest", "column", "alter", "list", "query",
                      "copy", "dropcheck", "rebuild", "finish", "up", "refused"},
           Goto(p, x)
    PROVE  \E q \in ProcType : /\ proc' = [proc EXCEPT ![p] = q]
                               /\ q.pc = x /\ q.found = proc[p].found
                               /\ q.column = proc[p].column
<1> DEFINE q == [proc[p] EXCEPT !.pc = x]
<1>1. proc[p] \in ProcType
  OBVIOUS
<1>2. /\ q \in ProcType /\ q.pc = x /\ q.found = proc[p].found
      /\ q.column = proc[p].column
  BY <1>1 DEF ProcType
<1>3. proc' = [proc EXCEPT ![p] = q]
  BY DEF Goto
<1> QED
  BY <1>2, <1>3

\* Past a column that is there, the process has seen one column more, or all of them.
LEMMA ColumnPassed ==
    ASSUME SchemaInv, NEW p \in Processes, At(p, "column") \/ At(p, "alter"),
           NextColumn(p), Grows, FileType', Columns[proc[p].column] \in columns'
    PROVE  \E q \in ProcType : proc' = [proc EXCEPT ![p] = q] /\ Progress(q)'
<1>1. proc \in [Processes -> ProcType]
  BY TypeParts DEF SchemaInv
<1>2. /\ proc[p] \in ProcType /\ proc[p].column \in 1..5 /\ proc[p].found \in 0..6
      /\ proc[p].pc \in {"column", "alter"}
  BY <1>1, ColumnNames DEF ProcType, At, SchemaVersion
<1>3. Progress(proc[p])
  BY DEF SchemaInv
<1>4. /\ base /\ keyTable # "none" /\ unique /\ billing
      /\ \A i \in 1..(proc[p].column - 1) : Columns[i] \in columns
  BY <1>2, <1>3 DEF Progress, PastTables, PastRest
<1>5. \A i \in 1..proc[p].column : Columns[i] \in columns'
  BY <1>2, <1>4 DEF Grows, CachedHere
<1>6. /\ base' /\ keyTable' # "none" /\ unique' /\ billing' /\ columns' \subseteq AllColumns
      /\ keyTable' \in {"none", "legacy", "v6"}
  BY <1>4 DEF Grows, FileType
<1>7. ColumnsOf(proc[p].found) \subseteq columns'
  BY <1>3 DEF Progress, Grows
<1>8. proc[p].found = SchemaVersion => Complete'
  BY <1>3, CompleteStays DEF Progress
<1>9. CASE proc[p].column < Len(Columns)
  <2> DEFINE x == [pc |-> "column", found |-> proc[p].found, column |-> proc[p].column + 1,
                   listed |-> proc[p].listed]
  <2>1. proc[p].column + 1 \in 1..Len(Columns)
    BY <1>2, <1>9, ColumnNames
  <2>2. x \in ProcType
    BY <1>2, <2>1 DEF ProcType
  <2>3. proc' = [proc EXCEPT ![p] = x]
    BY <1>1, <1>2, <1>9 DEF NextColumn, ProcType
  <2>4. PICK q \in ProcType : q = x
    BY <2>2
  <2>5. Progress(q)'
    BY <1>2, <1>5, <1>6, <1>7, <1>8, <2>4
       DEF Progress, PastTables, PastRest, PastColumns, PastCopy, PastRebuild
  <2> QED
    BY <2>3, <2>4, <2>5
<1>10. CASE ~(proc[p].column < Len(Columns))
  <2>1. columns' = AllColumns
    BY <1>2, <1>5, <1>6, <1>10, ColumnNames
  <2> DEFINE x == IF proc[p].found < 6 THEN "list" ELSE "finish"
  <2>2. Goto(p, x)
    BY <1>10 DEF NextColumn
  <2>3. PICK q \in ProcType : /\ proc' = [proc EXCEPT ![p] = q]
                              /\ q.pc = x /\ q.found = proc[p].found
                              /\ q.column = proc[p].column
    BY <1>1, <2>2, Moved
  <2>4. proc[p].found < 6 \/ Complete'
    BY <1>2, <1>8 DEF SchemaVersion
  <2>5. Progress(q)'
    BY <1>6, <1>7, <1>8, <2>1, <2>3, <2>4
       DEF Progress, PastTables, PastRest, PastColumns, PastCopy, PastRebuild, Complete, Covered
  <2> QED
    BY <2>3, <2>5
<1> QED
  BY <1>9, <1>10

-----------------------------------------------------------------------------
KeysType == [1..MaxId -> Key \cup {NoKey}]

\* An edit that issues nothing, renames nobody and activates nothing.
LEMMA KeysEdited ==
    ASSUME keys \in KeysType, keys' \in KeysType, partners \subseteq partners',
           \A k \in 1..MaxId :
              /\ keys[k] = NoKey <=> keys'[k] = NoKey
              /\ keys[k] # NoKey => /\ keys'[k].consumer = keys[k].consumer
                                    /\ keys'[k].active => keys[k].active
    PROVE  /\ Covered => Covered'
           /\ SingleKeys => SingleKeys'
           /\ \A c : Active(keys', c) \subseteq Active(keys, c)
<1>1. DOMAIN keys = 1..MaxId /\ DOMAIN keys' = 1..MaxId
  BY DEF KeysType
<1>2. \A c : Active(keys', c) \subseteq Active(keys, c)
  BY <1>1 DEF Active
<1>3. SingleKeys => SingleKeys'
  BY <1>2 DEF SingleKeys
<1>4. Covered => Covered'
  BY IdsAreNumbers DEF Covered
<1> QED
  BY <1>2, <1>3, <1>4

\* The greatest active key of a consumer who has one.
LEMMA NewestActive ==
    ASSUME keys \in KeysType, NEW c, Active(keys, c) # {}
    PROVE  /\ Max(Active(keys, c)) \in Active(keys, c)
           /\ \A k \in Active(keys, c) : Max(Active(keys, c)) >= k
<1>1. Active(keys, c) \subseteq Int /\ \A k \in Active(keys, c) : k <= MaxId
  BY IdsAreNumbers DEF Active, KeysType
<1> QED
  BY <1>1, MaxOfBounded, IdsAreNumbers

\* The id of a new key is above those of all keys there are, legacy ones included.
LEMMA NewId ==
    ASSUME keys \in KeysType
    PROVE  /\ 1 + Max(Issued \cup LegacyIds \cup {0}) \in Nat \ {0}
           /\ \A k \in Issued \cup LegacyIds : k < 1 + Max(Issued \cup LegacyIds \cup {0})
<1> DEFINE S == Issued \cup LegacyIds \cup {0}
<1>1. MaxId \in Int /\ 0 \in S /\ \A k \in S : k \in Int /\ 0 <= k /\ k <= MaxId
  <2>1. MaxId \in Nat /\ \A k \in 1..MaxId : k \in Int /\ 0 <= k /\ k <= MaxId
    BY IdsAreNumbers
  <2>2. LegacyIds \subseteq 1..MaxId /\ Issued \subseteq 1..MaxId
    BY IdsAreNumbers DEF Issued
  <2>3. 0 \in S /\ \A k \in S : k \in Issued \/ k \in LegacyIds \/ k = 0
    BY DEF Issued
  <2> HIDE DEF S
  <2>4. ASSUME NEW k \in S PROVE k \in Int /\ 0 <= k /\ k <= MaxId
    <3>1. CASE k = 0
      BY <2>1, <3>1
    <3>2. CASE k \in 1..MaxId
      BY <2>1, <3>2
    <3> QED
      BY <2>2, <2>3, <3>1, <3>2
  <2> QED
    BY <2>1, <2>3, <2>4
<1> HIDE DEF S
<1>2. Max(S) \in S /\ \A k \in S : Max(S) >= k
  <2>1. S \subseteq Int /\ S # {} /\ \A k \in S : k <= MaxId
    BY <1>1
  <2> QED
    BY <1>1, <2>1, MaxOfBounded
<1>3. Max(S) \in Int /\ Max(S) >= 0
  BY <1>1, <1>2
<1> QED
  BY <1>1, <1>2, <1>3 DEF S

\* collapse_duplicate_active_keys leaves every key its consumer, and activates none.
LEMMA CollapsedKeys ==
    ASSUME keys \in KeysType,
           keys' = [k \in 1..MaxId |->
                       IF keys[k] # NoKey /\ keys[k].active
                          /\ k # Max(Active(keys, keys[k].consumer))
                       THEN [keys[k] EXCEPT !.active = FALSE] ELSE keys[k]]
    PROVE  /\ keys' \in KeysType
           /\ \A k \in 1..MaxId :
                 /\ keys[k] = NoKey <=> keys'[k] = NoKey
                 /\ keys[k] # NoKey => /\ keys'[k].consumer = keys[k].consumer
                                       /\ keys'[k].active => keys[k].active
                                       /\ k = Max(Active(keys, keys[k].consumer))
                                             => keys'[k] = keys[k]
<1>1. \A k \in 1..MaxId : keys[k] # NoKey => keys[k] \in Key
  BY DEF KeysType
<1>2. \A x \in Key : [x EXCEPT !.active = FALSE] \in Key
                     /\ [x EXCEPT !.active = FALSE].consumer = x.consumer
                     /\ [x EXCEPT !.active = FALSE].active = FALSE
  BY DEF Key
<1>3. \A k \in 1..MaxId :
         \/ keys'[k] = keys[k]
         \/ keys[k] \in Key /\ keys'[k] = [keys[k] EXCEPT !.active = FALSE]
            /\ k # Max(Active(keys, keys[k].consumer))
  <2> SUFFICES ASSUME NEW k \in 1..MaxId
               PROVE  \/ keys'[k] = keys[k]
                      \/ keys[k] \in Key /\ keys'[k] = [keys[k] EXCEPT !.active = FALSE]
                         /\ k # Max(Active(keys, keys[k].consumer))
    OBVIOUS
  <2> DEFINE m == Max(Active(keys, keys[k].consumer))
  <2>1. keys'[k] = IF keys[k] # NoKey /\ keys[k].active /\ k # m
                   THEN [keys[k] EXCEPT !.active = FALSE] ELSE keys[k]
    OBVIOUS
  <2> HIDE DEF m
  <2> QED
    BY <1>1, <2>1 DEF m
<1>4. \A k \in 1..MaxId : keys'[k] \in Key \cup {NoKey}
  BY <1>2, <1>3 DEF KeysType
<1>5. keys' \in KeysType
  BY <1>4 DEF KeysType
<1> QED
  BY <1>1, <1>2, <1>3, <1>5, NoKeyFresh

\* Emptying the allow-lists changes nothing else of a key.
LEMMA EmptiedKeys ==
    ASSUME keys \in KeysType,
           keys' = [k \in 1..MaxId |-> IF keys[k] = NoKey THEN NoKey
                                       ELSE [keys[k] EXCEPT !.models = FALSE]]
    PROVE  /\ keys' \in KeysType
           /\ \A k \in 1..MaxId :
                 /\ keys[k] = NoKey <=> keys'[k] = NoKey
                 /\ keys[k] # NoKey => /\ keys'[k].consumer = keys[k].consumer
                                       /\ keys'[k].active = keys[k].active
<1>1. \A k \in 1..MaxId : keys[k] # NoKey => keys[k] \in Key
  BY DEF KeysType
<1>2. \A x \in Key : [x EXCEPT !.models = FALSE] \in Key
                     /\ [x EXCEPT !.models = FALSE].consumer = x.consumer
                     /\ [x EXCEPT !.models = FALSE].active = x.active
  BY DEF Key
<1>3. \A k \in 1..MaxId : \/ keys[k] = NoKey /\ keys'[k] = NoKey
                          \/ keys[k] \in Key /\ keys'[k] = [keys[k] EXCEPT !.models = FALSE]
  BY <1>1
<1>4. \A k \in 1..MaxId : keys'[k] \in Key \cup {NoKey}
  BY <1>2, <1>3
<1>5. keys' \in KeysType
  BY <1>4 DEF KeysType
<1> QED
  BY <1>1, <1>2, <1>3, <1>5, NoKeyFresh

-----------------------------------------------------------------------------
(* One lemma per statement, or per group of statements. *)

LEMMA InitHolds == Init => SchemaInv
<1> SUFFICES ASSUME Init PROVE SchemaInv
  OBVIOUS
<1>1. FileType
  <2>1. ColumnsOf(stamp) \subseteq AllColumns
    BY ColumnNames DEF ColumnsOf
  <2> QED
    BY <2>1 DEF Init, FileType, SchemaVersion
<1>2. Down \in ProcType
  BY ColumnNames DEF Down, ProcType, SchemaVersion
<1>3. TypeOK
  BY <1>1, <1>2, TypeParts, IdsAreNumbers DEF Init
<1>4. stamp # 5 => \A k \in 1..MaxId : keys[k] = NoKey
  BY DEF Init, Issued
<1>5. stamp # 5 => Covered /\ SingleKeys
  <2>1. stamp # 5 => Covered
    BY <1>4, IdsAreNumbers DEF Covered
  <2>2. DOMAIN keys = 1..MaxId
    BY DEF Init
  <2> QED
    BY <1>4, <2>1, <2>2 DEF SingleKeys, Active
<1>6. keyTable # "legacy" => Covered
  BY <1>5 DEF Init
<1>7. stamp = SchemaVersion => Complete
  <2> SUFFICES ASSUME stamp = 6 PROVE Complete
    BY DEF SchemaVersion
  <2>1. stamp > 0 /\ stamp >= 6 /\ ~(stamp < 5) /\ stamp # 5
    OBVIOUS
  <2>2. base /\ billing /\ unique
    BY <2>1, Zenon DEF Init
  <2>3. keyTable = "v6" /\ columns = AllColumns
    BY ColumnNames DEF Init, ColumnsOf
  <2> QED
    BY <1>5, <2>1, <2>2, <2>3 DEF Complete, Covered
<1>8. IndexHolds
  <2>1. stamp >= 6 => stamp # 5
    BY DEF Init
  <2>2. unique => stamp >= 6
    BY Zenon DEF Init
  <2> QED
    BY <1>5, <2>1, <2>2 DEF IndexHolds
<1>9. \A p \in Processes : Progress(proc[p])
  BY DEF Init, Down, Progress, ColumnsOf, SchemaVersion, PastTables, PastRest, PastColumns,
         PastCopy, PastRebuild
<1>10. CachedHere
  <2>1. stamp \in 0..7 /\ madeBy = stamp /\ base = (stamp > 0) /\ hasCached = (stamp >= 2)
    BY DEF Init, SchemaVersion
  <2>2. stamp > 0 /\ stamp # 1 => stamp >= 2
    BY <2>1
  <2> QED
    BY <2>1, <2>2, Zenon DEF CachedHere
<1> QED
  BY <1>3, <1>6, <1>7, <1>8, <1>9, <1>10 DEF Init, SchemaInv

\* A process that is down knows nothing of the file.
LEMMA DownKnowsNothing == Down \in ProcType /\ Progress(Down)
<1>1. Down \in ProcType
  BY ColumnNames DEF Down, ProcType, SchemaVersion
<1> QED
  BY <1>1 DEF Down, Progress, ColumnsOf, SchemaVersion, PastTables, PastRest, PastColumns,
              PastCopy, PastRebuild

LEMMA FailKeeps ==
    ASSUME SchemaInv, NEW p \in Processes, Fail(p), UNCHANGED <<file, crashes>>
    PROVE  SchemaInv'
<1>1. crashes' \in 0..MaxCrashes
  BY TypeParts DEF SchemaInv
<1>2. UNCHANGED file /\ proc' = [proc EXCEPT ![p] = Down]
  BY DEF Fail
<1> QED
  BY <1>1, <1>2, DownKnowsNothing, OnlyMoves

LEMMA CrashKeeps ==
    ASSUME SchemaInv, NEW p \in Processes, Crash(p) PROVE SchemaInv'
<1>1. crashes \in 0..MaxCrashes /\ crashes < MaxCrashes /\ crashes' = crashes + 1
  BY TypeParts DEF SchemaInv, Crash
<1>2. crashes' \in 0..MaxCrashes
  BY <1>1, IdsAreNumbers
<1>3. UNCHANGED file /\ proc' = [proc EXCEPT ![p] = Down]
  BY DEF Crash
<1> QED
  BY <1>2, <1>3, DownKnowsNothing, OnlyMoves

LEMMA OpenKeeps ==
    ASSUME SchemaInv, NEW p \in Processes, Open(p) PROVE SchemaInv'
<1> DEFINE q == IF stamp > SchemaVersion THEN [Down EXCEPT !.pc = "refused"]
                ELSE [Down EXCEPT !.pc = IF stamp < 6 THEN "collapse" ELSE "tables",
                                  !.found = stamp]
<1>1. /\ crashes' \in 0..MaxCrashes /\ UNCHANGED file /\ stamp \in 0..7
      /\ proc' = [proc EXCEPT ![p] = q]
  <2>1. FileType /\ crashes \in 0..MaxCrashes
    BY TypeParts DEF SchemaInv
  <2>2. stamp \in 0..7
    BY <2>1 DEF FileType, SchemaVersion
  <2>3. UNCHANGED file /\ crashes' = crashes
    BY DEF Open, file
  <2>4. proc' = [proc EXCEPT ![p] = q]
    BY DEF Open
  <2> QED
    BY <2>1, <2>2, <2>3, <2>4
<1>2. q \in ProcType
  <2>1. [Down EXCEPT !.pc = "refused"] \in ProcType
    BY DownKnowsNothing DEF ProcType
  <2>2. ASSUME NEW x \in {"collapse", "tables"}, stamp \in 0..SchemaVersion
        PROVE  [Down EXCEPT !.pc = x, !.found = stamp] \in ProcType
    BY <2>2, DownKnowsNothing DEF ProcType
  <2>3. stamp > SchemaVersion \/ stamp \in 0..SchemaVersion
    BY <1>1 DEF SchemaVersion
  <2> QED
    BY <2>1, <2>2, <2>3 DEF SchemaVersion
<1>3. /\ q.column = 1
      /\ \/ q.pc = "refused" /\ q.found = 0
         \/ q.pc \in {"collapse", "tables"} /\ q.found = stamp
  BY <1>1 DEF Down
<1> HIDE DEF q
<1>4. Progress(q)
  BY <1>3 DEF SchemaInv, Progress, ColumnsOf, SchemaVersion, PastTables, PastRest, PastColumns,
              PastCopy, PastRebuild
<1> QED
  BY <1>1, <1>2, <1>4, OnlyMoves

\* What is known of a process that does not fail, and of the file it finds.
LEMMA SchemaFacts ==
    ASSUME SchemaInv, NEW p \in Processes
    PROVE  /\ FileType /\ proc \in [Processes -> ProcType] /\ crashes \in 0..MaxCrashes
           /\ Progress(proc[p]) /\ keys \in KeysType
BY TypeParts DEF SchemaInv, FileType, KeysType

\* A process that goes on, and leaves the file alone, knows no less.
LEMMA GotoKeeps ==
    ASSUME SchemaInv, NEW p \in Processes, UNCHANGED <<file, crashes>>,
           NEW x \in {"alter", "query", "dropcheck", "rebuild", "finish"}, Goto(p, x),
           \/ x = "alter" /\ At(p, "column")
           \/ x = "query" /\ At(p, "list")
           \/ x = "dropcheck" /\ At(p, "list") /\ Covered
           \/ x = "rebuild" /\ At(p, "dropcheck")
           \/ x = "finish" /\ At(p, "dropcheck") /\ keyTable = "v6"
    PROVE  SchemaInv'
<1>1. PICK q \in ProcType : /\ proc' = [proc EXCEPT ![p] = q] /\ q.pc = x
                            /\ q.found = proc[p].found /\ q.column = proc[p].column
  BY SchemaFacts, Moved
<1>2. Progress(q)
  BY <1>1, SchemaFacts DEF Progress, PastTables, PastRest, PastColumns, PastCopy, PastRebuild, At
<1>3. crashes' \in 0..MaxCrashes /\ UNCHANGED file
  BY SchemaFacts
<1> QED
  BY <1>1, <1>2, <1>3, OnlyMoves

LEMMA CheckColumnKeeps ==
    ASSUME SchemaInv, NEW p \in Processes, CheckColumn(p) PROVE SchemaInv'
<1> DEFINE column == Columns[proc[p].column]
<1>1. At(p, "column") /\ UNCHANGED <<file, crashes>>
  BY DEF CheckColumn
<1>2. CASE Tried(column, proc[p].found) /\ column \notin columns
  <2>1. Goto(p, "alter")
    BY <1>2 DEF CheckColumn
  <2> QED
    BY <1>1, <2>1, GotoKeeps
<1>3. CASE ~(Tried(column, proc[p].found) /\ column \notin columns)
  <2>1. NextColumn(p)
    BY <1>3 DEF CheckColumn
  <2>2. UNCHANGED <<stamp, columns, base, hasCached, madeBy, keyTable, unique, billing, keys,
                    partners>>
    BY <1>1 DEF file
  <2>3. Grows /\ FileType'
    BY <2>2, SchemaFacts DEF Grows, Covered, CachedHere, FileType
  <2>4. column \in columns
    <3>1. proc[p].column \in 1..5 /\ proc[p].found \in 0..6
      BY SchemaFacts, ColumnNames DEF ProcType, SchemaVersion
    <3>2. CASE column \notin columns
      <4>1. ~Tried(column, proc[p].found)
        BY <1>3, <3>2
      <4>2. ColumnsOf(proc[p].found) \subseteq columns
        BY SchemaFacts DEF Progress
      <4>3. proc[p].column = 1 \/ proc[p].column = 2 \/ proc[p].column \in 3..5
        BY <3>1
      <4>4. proc[p].column # 1
        BY <4>1, ColumnNames DEF Tried
      <4>5. proc[p].column # 2
        <5> SUFFICES ASSUME proc[p].column = 2 PROVE FALSE
          OBVIOUS
        <5>1. proc[p].found >= 4
          BY <3>1, <4>1, ColumnNames DEF Tried
        <5> QED
          BY <3>2, <4>2, <5>1, ColumnNames DEF ColumnsOf
      <4>6. proc[p].column \notin 3..5
        <5> SUFFICES ASSUME proc[p].column \in 3..5 PROVE FALSE
          OBVIOUS
        <5>1. proc[p].found >= 6
          BY <3>1, <4>1, ColumnNames DEF Tried
        <5>2. column \in AllColumns
          BY <3>1, ColumnNames
        <5> QED
          BY <3>2, <4>2, <5>1, <5>2 DEF ColumnsOf
      <4> QED
        BY <4>3, <4>4, <4>5, <4>6
    <3> QED
      BY <3>2
  <2>5. column \in columns'
    BY <2>2, <2>4
  <2>6. PICK q \in ProcType : proc' = [proc EXCEPT ![p] = q] /\ Progress(q)'
    BY <1>1, <2>1, <2>3, <2>5, ColumnPassed
  <2>7. Progress(q)
    BY <2>2, <2>6 DEF Progress, Complete, Covered, ColumnsOf
  <2>8. crashes' \in 0..MaxCrashes /\ UNCHANGED file
    BY <1>1, SchemaFacts
  <2> QED
    BY <2>6, <2>7, <2>8, OnlyMoves
<1> QED
  BY <1>2, <1>3

LEMMA AddColumnKeeps ==
    ASSUME SchemaInv, NEW p \in Processes, AddColumn(p) PROVE SchemaInv'
<1> DEFINE column == Columns[proc[p].column]
<1>1. /\ At(p, "alter") /\ columns' = columns \cup {column}
      /\ UNCHANGED <<stamp, base, hasCached, madeBy, keyTable, unique, billing, keys,
                     partners, crashes>>
  BY DEF AddColumn
<1>2. column \in AllColumns
  BY SchemaFacts, ColumnNames DEF ProcType
<1>3. CASE column \in columns
  <2>1. Fail(p)
    BY <1>3 DEF AddColumn
  <2>2. UNCHANGED <<file, crashes>>
    BY <1>1, <1>3 DEF file
  <2> QED
    BY <2>1, <2>2, FailKeeps
<1>4. CASE column \notin columns
  <2>1. NextColumn(p)
    BY <1>4 DEF AddColumn
  <2>2. Grows
    BY <1>1 DEF Grows, Covered, CachedHere
  <2>3. FileType'
    BY <1>1, <1>2, SchemaFacts DEF FileType
  <2>4. PICK q \in ProcType : proc' = [proc EXCEPT ![p] = q] /\ Progress(q)'
    BY <1>1, <2>1, <2>2, <2>3, ColumnPassed
  <2>5. IndexHolds'
    BY <1>1 DEF SchemaInv, IndexHolds, SingleKeys, Active
  <2>6. ColumnsOf(stamp') \subseteq columns'
    BY <1>1 DEF SchemaInv, ColumnsOf
  <2>7. crashes' \in 0..MaxCrashes /\ stamp' = stamp /\ keyTable' = keyTable
    BY <1>1, SchemaFacts
  <2> QED
    BY <2>2, <2>3, <2>4, <2>5, <2>6, <2>7, OneProcess
<1> QED
  BY <1>3, <1>4

LEMMA CollapseKeeps ==
    ASSUME SchemaInv, NEW p \in Processes, Collapse(p) PROVE SchemaInv'
<1>1. /\ At(p, "collapse") /\ Goto(p, "tables")
      /\ UNCHANGED <<stamp, columns, base, hasCached, madeBy, keyTable, unique, billing,
                     partners, crashes>>
  BY DEF Collapse
<1>2. PICK q \in ProcType : /\ proc' = [proc EXCEPT ![p] = q] /\ q.pc = "tables"
                            /\ q.found = proc[p].found /\ q.column = proc[p].column
  BY <1>1, SchemaFacts, Moved
<1>3. /\ keys' \in KeysType
      /\ \A k \in 1..MaxId :
            /\ keys[k] = NoKey <=> keys'[k] = NoKey
            /\ keys[k] # NoKey => /\ keys'[k].consumer = keys[k].consumer
                                  /\ keys'[k].active => keys[k].active
  <2>1. CASE keyTable = "none"
    <3>1. keys' = keys
      BY <2>1 DEF Collapse
    <3> QED
      BY <3>1, SchemaFacts
  <2>2. CASE keyTable # "none"
    <3>1. keys' = [k \in 1..MaxId |->
                     IF keys[k] # NoKey /\ keys[k].active
                        /\ k # Max(Active(keys, keys[k].consumer))
                     THEN [keys[k] EXCEPT !.active = FALSE] ELSE keys[k]]
      BY <2>2 DEF Collapse
    <3> QED
      BY <3>1, SchemaFacts, CollapsedKeys
  <2> QED
    BY <2>1, <2>2
<1>4. (Covered => Covered') /\ (SingleKeys => SingleKeys')
  BY <1>1, <1>3, SchemaFacts, KeysEdited
<1>5. Grows
  BY <1>1, <1>4 DEF Grows, CachedHere
<1>6. FileType'
  BY <1>1, <1>3, SchemaFacts DEF FileType, KeysType
<1>7. IndexHolds'
  BY <1>1, <1>4 DEF SchemaInv, IndexHolds
<1>8. Complete => Complete'
  BY <1>5, <1>6, CompleteStays
<1>9. Progress(q)'
  BY <1>1, <1>2, <1>8, SchemaFacts
     DEF Progress, ColumnsOf, At, PastTables, PastRest, PastColumns, PastCopy, PastRebuild
<1>10. /\ ColumnsOf(stamp') \subseteq columns' /\ stamp' = stamp /\ keyTable' = keyTable
       /\ crashes' \in 0..MaxCrashes
  BY <1>1, SchemaFacts DEF SchemaInv, ColumnsOf
<1> QED
  BY <1>2, <1>5, <1>6, <1>7, <1>9, <1>10, OneProcess

LEMMA CreateTablesKeeps ==
    ASSUME SchemaInv, NEW p \in Processes, CreateTables(p) PROVE SchemaInv'
<1>1. /\ At(p, "tables") /\ Goto(p, "rest") /\ base'
      /\ columns' = IF base THEN columns ELSE AllColumns
      /\ keyTable' = IF keyTable = "none" THEN "v6" ELSE keyTable
      /\ hasCached' = (base => hasCached)
      /\ UNCHANGED <<stamp, madeBy, unique, billing, keys, partners, crashes>>
  BY DEF CreateTables
<1>2. PICK q \in ProcType : /\ proc' = [proc EXCEPT ![p] = q] /\ q.pc = "rest"
                            /\ q.found = proc[p].found /\ q.column = proc[p].column
  BY <1>1, SchemaFacts, Moved
<1>3. FileType'
  BY <1>1, SchemaFacts DEF FileType, CreateTables
<1>4. columns \subseteq columns'
  BY <1>1, SchemaFacts DEF FileType
<1>5. Covered => Covered'
  BY <1>1 DEF Covered
<1>6. keyTable' = keyTable \/ Covered'
  BY <1>1, <1>5 DEF SchemaInv
<1>7. Grows
  BY <1>1, <1>4, <1>5 DEF Grows, CachedHere
<1>8. IndexHolds'
  BY <1>1 DEF SchemaInv, IndexHolds, SingleKeys, Active
<1>9. Complete => Complete'
  BY <1>3, <1>7, CompleteStays
<1>10. keyTable' # "none"
  BY <1>1
<1>11. Progress(q)'
  BY <1>1, <1>2, <1>4, <1>9, <1>10, SchemaFacts
     DEF Progress, At, PastTables, PastRest, PastColumns, PastCopy, PastRebuild
<1>12. /\ ColumnsOf(stamp') \subseteq columns' /\ stamp' = stamp
       /\ crashes' \in 0..MaxCrashes
  BY <1>1, <1>4, SchemaFacts DEF SchemaInv
<1> QED
  BY <1>2, <1>3, <1>6, <1>7, <1>8, <1>11, <1>12, OneProcess

\* The guard of the unique index, in terms of keys.
LEMMA IndexGuard ==
    ASSUME keys \in KeysType, \A c \in Consumers : Cardinality(Active(keys, c)) <= 1
    PROVE  SingleKeys
<1> SUFFICES ASSUME NEW c \in Consumers, NEW j \in Active(keys, c), NEW k \in Active(keys, c),
                    j # k
             PROVE  FALSE
  BY DEF SingleKeys
<1>1. IsFiniteSet(1..MaxId) /\ Active(keys, c) \subseteq 1..MaxId
  BY FS_Interval, IdsAreNumbers DEF Active, KeysType
<1>2. IsFiniteSet(Active(keys, c))
  BY <1>1, FS_Subset
<1>3. Cardinality({j, k}) <= Cardinality(Active(keys, c))
  <2>1. {j, k} \subseteq Active(keys, c)
    OBVIOUS
  <2> QED
    BY <1>2, <2>1, FS_Subset
<1>4. Cardinality({j}) = 1 /\ IsFiniteSet({j})
  BY FS_Singleton
<1>5. Cardinality({j} \cup {k}) = 2
  BY <1>4, FS_AddElement
<1>6. {j} \cup {k} = {j, k}
  OBVIOUS
<1>7. Cardinality({j, k}) = 2
  BY <1>5, <1>6
<1>8. Cardinality(Active(keys, c)) \in Nat /\ Cardinality(Active(keys, c)) <= 1
  BY <1>2, FS_CardinalityType
<1> QED
  BY <1>3, <1>7, <1>8

LEMMA CreateRestKeeps ==
    ASSUME SchemaInv, NEW p \in Processes, CreateRest(p) PROVE SchemaInv'
<1>1. /\ At(p, "rest") /\ Goto(p, "column") /\ unique' /\ billing'
      /\ \A c \in Consumers : Cardinality(Active(keys, c)) <= 1
      /\ UNCHANGED <<stamp, columns, base, hasCached, madeBy, keyTable, keys, partners,
                     crashes>>
  BY DEF CreateRest
<1>2. PICK q \in ProcType : /\ proc' = [proc EXCEPT ![p] = q] /\ q.pc = "column"
                            /\ q.found = proc[p].found /\ q.column = proc[p].column
  BY <1>1, SchemaFacts, Moved
<1>3. FileType'
  BY <1>1, SchemaFacts DEF FileType, CreateRest
<1>4. SingleKeys
  BY <1>1, SchemaFacts, IndexGuard
<1>5. IndexHolds'
  BY <1>1, <1>4 DEF IndexHolds, SingleKeys, Active
<1>6. Grows
  BY <1>1 DEF Grows, Covered, CachedHere
<1>7. Complete => Complete'
  BY <1>3, <1>6, CompleteStays
<1>8. Progress(q)'
  BY <1>1, <1>2, <1>7, SchemaFacts DEF Progress, At, ColumnsOf, PastTables, PastRest, PastColumns,
                                 PastCopy, PastRebuild
<1>9. /\ ColumnsOf(stamp') \subseteq columns' /\ stamp' = stamp /\ keyTable' = keyTable
      /\ crashes' \in 0..MaxCrashes
  BY <1>1, SchemaFacts DEF SchemaInv, ColumnsOf
<1> QED
  BY <1>2, <1>3, <1>5, <1>6, <1>8, <1>9, OneProcess

\* What a process is after it has listed the models.
LEMMA CopyRecord ==
    ASSUME NEW r \in ProcType, NEW l \in SUBSET Consumers
    PROVE  LET x == [r EXCEPT !.pc = "copy", !.listed = l]
           IN x \in ProcType /\ x.pc = "copy" /\ x.found = r.found /\ x.column = r.column
BY DEF ProcType

\* The steps of the allow-list migration that only read.
LEMMA ReadKeeps ==
    ASSUME SchemaInv, NEW p \in Processes, CheckAllowList(p) \/ ListModels(p) \/ CheckDrop(p)
    PROVE  SchemaInv'
<1>1. UNCHANGED <<file, crashes>>
  BY DEF CheckAllowList, ListModels, CheckDrop
<1>2. CASE CheckAllowList(p)
  <2>1. CASE keyTable = "legacy"
    <3>1. At(p, "list") /\ Goto(p, "query")
      BY <1>2, <2>1 DEF CheckAllowList
    <3> QED
      BY <1>1, <3>1, GotoKeeps
  <2>2. CASE keyTable # "legacy"
    <3>1. At(p, "list") /\ Goto(p, "dropcheck")
      BY <1>2, <2>2 DEF CheckAllowList
    <3>2. Covered
      BY <2>2 DEF SchemaInv
    <3> QED
      BY <1>1, <3>1, <3>2, GotoKeeps
  <2> QED
    BY <2>1, <2>2
<1>3. CASE CheckDrop(p)
  <2>1. CASE keyTable = "legacy"
    <3>1. At(p, "dropcheck") /\ Goto(p, "rebuild")
      BY <1>3, <2>1 DEF CheckDrop
    <3> QED
      BY <1>1, <3>1, GotoKeeps
  <2>2. CASE keyTable # "legacy"
    <3>1. At(p, "dropcheck") /\ Goto(p, "finish")
      BY <1>3, <2>2 DEF CheckDrop
    <3>2. keyTable = "v6"
      BY <2>2, <3>1, SchemaFacts DEF FileType, Progress, At, PastTables
    <3> QED
      BY <1>1, <3>1, <3>2, GotoKeeps
  <2> QED
    BY <2>1, <2>2
<1>4. CASE ListModels(p)
  <2>1. CASE keyTable # "legacy"
    BY <1>1, <1>4, <2>1, FailKeeps DEF ListModels
  <2>2. CASE keyTable = "legacy"
    <3> DEFINE l == {c \in Consumers : \E k \in Active(keys, c) : keys[k].models}
               x == [proc[p] EXCEPT !.pc = "copy", !.listed = l]
    <3>1. proc[p] \in ProcType /\ proc \in [Processes -> ProcType] /\ At(p, "query")
      BY <1>4, SchemaFacts DEF ListModels
    <3>2. proc' = [proc EXCEPT ![p].pc = "copy", ![p].listed = l]
      BY <1>4, <2>2 DEF ListModels
    <3>3. l \in SUBSET Consumers
      OBVIOUS
    <3> HIDE DEF l
    <3>4. proc' = [proc EXCEPT ![p] = x]
      BY <3>2
    <3>5. /\ x \in ProcType
          /\ x.pc = "copy" /\ x.found = proc[p].found /\ x.column = proc[p].column
      BY <3>1, <3>3, CopyRecord
    <3> HIDE DEF x
    <3>7. Progress(x)
      BY <3>1, <3>5, SchemaFacts DEF Progress, At, PastTables, PastRest, PastColumns, PastCopy,
                               PastRebuild
    <3>8. crashes' \in 0..MaxCrashes /\ UNCHANGED file
      BY <1>1, SchemaFacts
    <3> QED
      BY <3>4, <3>5, <3>7, <3>8, OnlyMoves
  <2> QED
    BY <2>1, <2>2
<1> QED
  BY <1>2, <1>3, <1>4

LEMMA CopyKeeps ==
    ASSUME SchemaInv, NEW p \in Processes, CopyPartners(p) PROVE SchemaInv'
<1>1. /\ At(p, "copy")
      /\ UNCHANGED <<stamp, columns, base, hasCached, madeBy, keyTable, unique, billing,
                     crashes>>
  BY DEF CopyPartners
<1>2. CASE keyTable # "legacy"
  <2>1. Fail(p) /\ UNCHANGED <<file, crashes>>
    BY <1>1, <1>2 DEF CopyPartners, file
  <2> QED
    BY <2>1, FailKeeps
<1>3. CASE keyTable = "legacy"
  <2>1. /\ partners' = partners \cup proc[p].listed \cup {keys[k].consumer : k \in Issued}
        /\ keys' = [k \in 1..MaxId |-> IF keys[k] = NoKey THEN NoKey
                                       ELSE [keys[k] EXCEPT !.models = FALSE]]
        /\ Goto(p, "dropcheck")
    BY <1>3 DEF CopyPartners
  <2>2. PICK q \in ProcType : /\ proc' = [proc EXCEPT ![p] = q] /\ q.pc = "dropcheck"
                              /\ q.found = proc[p].found /\ q.column = proc[p].column
    BY <2>1, SchemaFacts, Moved
  <2>3. /\ keys' \in KeysType
        /\ \A k \in 1..MaxId :
              /\ keys[k] = NoKey <=> keys'[k] = NoKey
              /\ keys[k] # NoKey => /\ keys'[k].consumer = keys[k].consumer
                                    /\ keys'[k].active = keys[k].active
    BY <2>1, SchemaFacts, EmptiedKeys
  <2>4. (Covered => Covered') /\ (SingleKeys => SingleKeys')
    BY <2>1, <2>3, SchemaFacts, KeysEdited
  <2>5. Covered'
    <3> SUFFICES ASSUME NEW k \in LegacyIds, keys'[k] # NoKey
                 PROVE  keys'[k].consumer \in partners'
      BY DEF Covered
    <3>1. k \in 1..MaxId
      BY IdsAreNumbers
    <3>2. keys[k] # NoKey /\ keys'[k].consumer = keys[k].consumer
      BY <2>3, <3>1
    <3>3. k \in Issued
      BY <3>1, <3>2 DEF Issued
    <3>4. keys[k].consumer \in {keys[j].consumer : j \in Issued}
      BY <3>3
    <3>5. partners' = partners \cup proc[p].listed \cup {keys[j].consumer : j \in Issued}
      BY <2>1
    <3> QED
      BY <3>2, <3>4, <3>5
  <2>6. partners' \subseteq Consumers
    <3>1. \A k \in Issued : keys[k] \in Key
      BY SchemaFacts DEF KeysType, Issued
    <3>2. \A k \in Issued : keys[k].consumer \in Consumers
      BY <3>1 DEF Key
    <3>3. proc[p].listed \subseteq Consumers /\ partners \subseteq Consumers
      BY SchemaFacts DEF ProcType, FileType
    <3>4. {keys[k].consumer : k \in Issued} \subseteq Consumers
      BY <3>2
    <3>5. partners' = partners \cup proc[p].listed \cup {keys[k].consumer : k \in Issued}
      BY <2>1
    <3> QED
      BY <3>3, <3>4, <3>5
  <2>7. FileType'
    BY <1>1, <2>3, <2>6, SchemaFacts DEF FileType, KeysType
  <2>8. Grows
    BY <1>1, <2>4 DEF Grows, CachedHere
  <2>9. IndexHolds'
    BY <1>1, <2>4 DEF SchemaInv, IndexHolds
  <2>10. Complete => Complete'
    BY <2>7, <2>8, CompleteStays
  <2>11. Progress(q)'
    BY <1>1, <2>2, <2>5, <2>10, SchemaFacts DEF Progress, At, ColumnsOf, PastTables, PastRest,
                                          PastColumns, PastCopy, PastRebuild
  <2>12. /\ ColumnsOf(stamp') \subseteq columns' /\ stamp' = stamp /\ keyTable' = keyTable
         /\ crashes' \in 0..MaxCrashes
    BY <1>1, SchemaFacts DEF SchemaInv, ColumnsOf
  <2> QED
    BY <2>2, <2>7, <2>8, <2>9, <2>11, <2>12, OneProcess
<1> QED
  BY <1>2, <1>3

\* The last statements: the rebuild of the key table and the stamp.
LEMMA EndKeeps ==
    ASSUME SchemaInv, NEW p \in Processes, Rebuild(p) \/ Finish(p) PROVE SchemaInv'
<1>1. UNCHANGED <<columns, base, hasCached, madeBy, billing, keys, partners, crashes>>
  BY DEF Rebuild, Finish
<1>2. (Covered => Covered') /\ (SingleKeys => SingleKeys')
  BY <1>1 DEF Covered, SingleKeys, Active
<1>3. CASE Rebuild(p)
  <2>1. At(p, "rebuild") /\ Goto(p, "finish") /\ keyTable' = "v6" /\ unique' /\ stamp' = stamp
    BY <1>3 DEF Rebuild
  <2>2. PICK q \in ProcType : /\ proc' = [proc EXCEPT ![p] = q] /\ q.pc = "finish"
                              /\ q.found = proc[p].found /\ q.column = proc[p].column
    BY <2>1, SchemaFacts, Moved
  <2>3. Covered /\ unique
    BY <2>1, SchemaFacts DEF Progress, At, PastCopy, PastTables, PastRest
  <2>4. FileType'
    BY <1>1, <1>3, <2>1, SchemaFacts DEF FileType, Rebuild
  <2>5. Grows
    BY <1>1, <1>2, <2>1 DEF Grows, CachedHere
  <2>6. IndexHolds'
    BY <1>2, <2>3 DEF SchemaInv, IndexHolds
  <2>7. Complete => Complete'
    BY <2>4, <2>5, CompleteStays
  <2>8. Progress(q)'
    BY <1>1, <1>2, <2>1, <2>2, <2>3, <2>7, SchemaFacts
       DEF Progress, At, ColumnsOf, PastTables, PastRest, PastColumns, PastCopy, PastRebuild
  <2>9. ColumnsOf(stamp') \subseteq columns' /\ crashes' \in 0..MaxCrashes
    BY <1>1, <2>1, SchemaFacts DEF SchemaInv, ColumnsOf
  <2> QED
    BY <1>2, <2>1, <2>2, <2>3, <2>4, <2>5, <2>6, <2>8, <2>9, OneProcess
<1>4. CASE Finish(p)
  <2>1. /\ At(p, "finish") /\ Goto(p, "up") /\ stamp' = SchemaVersion
        /\ UNCHANGED <<keyTable, unique>>
    BY <1>4 DEF Finish
  <2>2. PICK q \in ProcType : /\ proc' = [proc EXCEPT ![p] = q] /\ q.pc = "up"
                              /\ q.found = proc[p].found /\ q.column = proc[p].column
    BY <2>1, SchemaFacts, Moved
  <2>3. Complete
    BY <2>1, SchemaFacts DEF Progress, At, PastCopy, PastTables, PastRest, PastColumns, PastRebuild,
                       Complete, Covered
  <2>4. FileType'
    BY <1>1, <2>1, SchemaFacts DEF FileType, SchemaVersion
  <2>5. Grows
    BY <1>1, <1>2, <2>1 DEF Grows, CachedHere
  <2>6. IndexHolds'
    BY <1>2, <2>1 DEF SchemaInv, IndexHolds
  <2>7. Complete'
    BY <2>3, <2>4, <2>5, CompleteStays
  <2>8. Progress(q)'
    BY <1>1, <2>2, <2>7, SchemaFacts
       DEF Progress, ColumnsOf, PastTables, PastRest, PastColumns, PastCopy, PastRebuild,
           Complete, Covered
  <2>9. ColumnsOf(stamp') \subseteq columns'
    BY <2>7, ColumnNames DEF ColumnsOf, Complete
  <2>10. crashes' \in 0..MaxCrashes
    BY <1>1, SchemaFacts
  <2> QED
    BY <2>1, <2>2, <2>4, <2>5, <2>6, <2>7, <2>8, <2>9, <2>10, OneProcess
<1> QED
  BY <1>3, <1>4

\* What issuing a key does to the keys there are.
LEMMA IssuedKeys ==
    ASSUME SchemaInv, NEW p \in Processes, NEW c \in Consumers, Issue(p, c)
    PROVE  \E next \in 1..MaxId :
              /\ next \notin LegacyIds /\ keys[next] = NoKey
              /\ keys' \in KeysType
              /\ keys'[next] = [consumer |-> c, active |-> TRUE, models |-> FALSE]
              /\ \A k \in 1..MaxId : keys[k] # NoKey => k < next
              /\ \A k \in 1..MaxId \ {next} :
                    /\ keys[k] = NoKey <=> keys'[k] = NoKey
                    /\ keys[k] # NoKey => /\ keys'[k].consumer = keys[k].consumer
                                          /\ keys'[k].active => keys[k].active
                                          /\ keys[k].consumer = c => ~keys'[k].active
                                          /\ keys[k].consumer # c => keys'[k] = keys[k]
<1> DEFINE next == 1 + Max(Issued \cup LegacyIds \cup {0})
<1>1. /\ next <= MaxId
      /\ keys' = [k \in 1..MaxId |->
                    IF k = next THEN [consumer |-> c, active |-> TRUE, models |-> FALSE]
                    ELSE IF k \in Active(keys, c) THEN [keys[k] EXCEPT !.active = FALSE]
                    ELSE keys[k]]
  BY DEF Issue
<1>2. next \in Nat \ {0} /\ \A k \in Issued \cup LegacyIds : k < next
  BY SchemaFacts, NewId
<1> HIDE DEF next
<1>3. next \in 1..MaxId
  BY <1>1, <1>2, IdsAreNumbers
<1>4. next \notin LegacyIds /\ next \notin Issued
  BY <1>2
<1>5. keys[next] = NoKey
  BY <1>3, <1>4 DEF Issued
<1>6. \A k \in 1..MaxId : keys[k] # NoKey => k < next
  BY <1>2 DEF Issued
<1>7. \A k \in 1..MaxId : keys[k] # NoKey => keys[k] \in Key
  BY SchemaFacts DEF KeysType
<1>8. \A x \in Key : [x EXCEPT !.active = FALSE] \in Key
                     /\ [x EXCEPT !.active = FALSE].consumer = x.consumer
                     /\ [x EXCEPT !.active = FALSE].active = FALSE
                     /\ x.active \in BOOLEAN
  BY DEF Key
<1>9. [consumer |-> c, active |-> TRUE, models |-> FALSE] \in Key
  BY DEF Key
<1>10. keys'[next] = [consumer |-> c, active |-> TRUE, models |-> FALSE]
  BY <1>1, <1>3
<1>11. DOMAIN keys = 1..MaxId
  BY SchemaFacts DEF KeysType
<1>12. ASSUME NEW k \in 1..MaxId, k # next
       PROVE  \/ /\ k \in Active(keys, c) /\ keys[k] # NoKey /\ keys[k].consumer = c
                 /\ keys'[k] = [keys[k] EXCEPT !.active = FALSE]
              \/ /\ k \notin Active(keys, c) /\ keys'[k] = keys[k]
                 /\ keys[k] # NoKey /\ keys[k].consumer = c => ~keys[k].active
  <2>1. keys'[k] = IF k \in Active(keys, c) THEN [keys[k] EXCEPT !.active = FALSE] ELSE keys[k]
    BY <1>1, <1>12
  <2>2. k \in Active(keys, c) <=> keys[k] # NoKey /\ keys[k].consumer = c /\ keys[k].active
    BY <1>11 DEF Active
  <2> QED
    BY <2>1, <2>2
<1>13. ASSUME NEW k \in 1..MaxId, k # next
       PROVE  /\ keys'[k] \in Key \cup {NoKey}
              /\ keys[k] = NoKey <=> keys'[k] = NoKey
              /\ keys[k] # NoKey => /\ keys'[k].consumer = keys[k].consumer
                                    /\ keys'[k].active => keys[k].active
                                    /\ keys[k].consumer = c => ~keys'[k].active
                                    /\ keys[k].consumer # c => keys'[k] = keys[k]
  <2>1. CASE k \in Active(keys, c)
    <3>1. keys[k].active /\ keys[k] # NoKey /\ keys[k].consumer = c
      BY <2>1 DEF Active
    <3>2. keys'[k] = [keys[k] EXCEPT !.active = FALSE]
      BY <1>12, <1>13, <2>1
    <3>3. keys'[k] \in Key /\ keys'[k].consumer = keys[k].consumer /\ keys'[k].active = FALSE
      BY <1>7, <1>8, <3>1, <3>2
    <3> QED
      BY <3>1, <3>3, NoKeyFresh
  <2>2. CASE k \notin Active(keys, c)
    BY <1>7, <1>12, <1>13, <2>2
  <2> QED
    BY <2>1, <2>2
<1>14. \A k \in 1..MaxId : keys'[k] \in Key \cup {NoKey}
  BY <1>9, <1>10, <1>13
<1>15. keys' \in KeysType
  BY <1>1, <1>14 DEF KeysType
<1>16. \A k \in 1..MaxId \ {next} :
          /\ keys[k] = NoKey <=> keys'[k] = NoKey
          /\ keys[k] # NoKey => /\ keys'[k].consumer = keys[k].consumer
                                /\ keys'[k].active => keys[k].active
                                /\ keys[k].consumer = c => ~keys'[k].active
                                /\ keys[k].consumer # c => keys'[k] = keys[k]
  BY <1>13
<1> QED
  BY <1>3, <1>4, <1>5, <1>6, <1>10, <1>15, <1>16

LEMMA IssueKeeps ==
    ASSUME SchemaInv, NEW p \in Processes, NEW c \in Consumers, Issue(p, c) PROVE SchemaInv'
<1>1. UNCHANGED <<stamp, columns, base, hasCached, madeBy, keyTable, unique, billing,
                  partners, proc, crashes>>
  BY DEF Issue
<1>2. PICK next \in 1..MaxId :
              /\ next \notin LegacyIds /\ keys[next] = NoKey
              /\ keys' \in KeysType
              /\ keys'[next] = [consumer |-> c, active |-> TRUE, models |-> FALSE]
              /\ \A k \in 1..MaxId : keys[k] # NoKey => k < next
              /\ \A k \in 1..MaxId \ {next} :
                    /\ keys[k] = NoKey <=> keys'[k] = NoKey
                    /\ keys[k] # NoKey => /\ keys'[k].consumer = keys[k].consumer
                                          /\ keys'[k].active => keys[k].active
                                          /\ keys[k].consumer = c => ~keys'[k].active
                                          /\ keys[k].consumer # c => keys'[k] = keys[k]
  BY IssuedKeys
<1>3. Covered => Covered'
  BY <1>1, <1>2, IdsAreNumbers DEF Covered
<1>4. SingleKeys => SingleKeys'
  <2> SUFFICES ASSUME SingleKeys, NEW d \in Consumers,
                      NEW j \in Active(keys', d), NEW k \in Active(keys', d)
               PROVE  j = k
    BY DEF SingleKeys
  <2>1. DOMAIN keys = 1..MaxId /\ DOMAIN keys' = 1..MaxId
    BY <1>2, SchemaFacts DEF KeysType
  <2>2. \A i \in Active(keys', d) : /\ i \in 1..MaxId /\ keys'[i] # NoKey
                                    /\ keys'[i].consumer = d /\ keys'[i].active
    BY <2>1 DEF Active
  <2>3. keys'[next].consumer = c
    BY <1>2
  <2>4. \A i \in Active(keys', d) : i # next => i \in Active(keys, d) /\ d # c
    BY <1>2, <2>1, <2>2 DEF Active
  <2>5. CASE d = c
    BY <2>4, <2>5
  <2>6. CASE d # c
    BY <2>2, <2>3, <2>4, <2>6 DEF SingleKeys
  <2> QED
    BY <2>5, <2>6
<1>5. FileType'
  BY <1>1, <1>2, SchemaFacts DEF FileType, KeysType
<1>6. Grows
  BY <1>1, <1>3 DEF Grows, CachedHere
<1>7. IndexHolds'
  BY <1>1, <1>4 DEF SchemaInv, IndexHolds
<1>8. Complete => Complete'
  BY <1>5, <1>6, CompleteStays
<1>9. PICK q \in ProcType : q = proc[p]
  BY SchemaFacts
<1>10. proc' = [proc EXCEPT ![p] = q]
  BY <1>1, <1>9, SchemaFacts
<1>11. Progress(q)'
  BY <1>1, <1>3, <1>8, <1>9, SchemaFacts DEF Progress, ColumnsOf
<1>12. /\ ColumnsOf(stamp') \subseteq columns' /\ stamp' = stamp /\ keyTable' = keyTable
       /\ crashes' \in 0..MaxCrashes
  BY <1>1, SchemaFacts DEF SchemaInv, ColumnsOf
<1> QED
  BY <1>5, <1>6, <1>7, <1>10, <1>11, <1>12, OneProcess

-----------------------------------------------------------------------------
LEMMA SchemaStep == SchemaInv /\ [Next]_vars => SchemaInv'
<1>1. ASSUME SchemaInv, UNCHANGED vars PROVE SchemaInv'
  BY <1>1 DEF SchemaInv, vars, file, TypeOK, Complete, Covered, Progress, ColumnsOf, IndexHolds,
              SingleKeys, Active, CachedHere
<1>2. ASSUME SchemaInv, NEW p \in Processes, Start(p) PROVE SchemaInv'
  BY <1>2, OpenKeeps, CollapseKeeps, CreateTablesKeeps, CreateRestKeeps, CheckColumnKeeps,
     AddColumnKeeps, ReadKeeps, CopyKeeps, EndKeeps DEF Start
<1>3. ASSUME SchemaInv, NEW p \in Processes, Crash(p) PROVE SchemaInv'
  BY <1>3, CrashKeeps
<1>4. ASSUME SchemaInv, NEW p \in Processes, NEW c \in Consumers, Issue(p, c) PROVE SchemaInv'
  BY <1>4, IssueKeeps
<1> QED
  BY <1>1, <1>2, <1>3, <1>4 DEF Next

\* Init and every statement of every process keep the invariant.
LEMMA SchemaInvariant == Spec => []SchemaInv
  BY InitHolds, SchemaStep, PTL DEF Spec

\* The type invariant of the file and of the processes that open it.
THEOREM SchemaTyped == Spec => []TypeOK
<1>1. SchemaInv => TypeOK
  BY DEF SchemaInv
<1> QED
  BY <1>1, SchemaInvariant, PTL

\* A file that says version 6, and one that a process serves on, has every table,
\* column and index that version 6 adds and a partner record for every consumer of a
\* legacy key, and unless it was a file of version 1 cached_tokens as well, whoever else
\* is in the middle of init_schema and whoever died in it.
THEOREM StampMeansComplete == Spec => []StampedIsComplete
<1>1. SchemaInv => StampedIsComplete
  <2> SUFFICES ASSUME SchemaInv PROVE StampedIsComplete
    OBVIOUS
  <2>1. ASSUME NEW p \in Processes, At(p, "up") PROVE Complete
    BY <2>1, SchemaFacts DEF Progress, At, PastTables, PastRest, PastColumns, PastCopy, PastRebuild,
                       Complete, Covered
  <2>2. Complete => base
    BY DEF Complete
  <2> QED
    BY <2>1, <2>2 DEF SchemaInv, StampedIsComplete, CachedHere
<1> QED
  BY <1>1, SchemaInvariant, PTL

\* From the moment the unique index exists, no consumer has two active keys: neither
\* a migration under way nor a process that already serves is ever refused by it
\* (idx_api_keys_one_active_per_consumer, ApiKeyStore::create).
THEOREM IndexNeverViolated == Spec => []IndexHolds
<1>1. SchemaInv => IndexHolds
  BY DEF SchemaInv
<1> QED
  BY <1>1, SchemaInvariant, PTL

\* What one step does to a consumer's newest active key.
LEMMA NewestStays ==
    ASSUME SchemaInv, Next, NEW c \in Consumers, Active(keys, c) # {}
    PROVE  \E k \in Active(keys', c) : k >= Max(Active(keys, c))
<1> DEFINE m == Max(Active(keys, c))
<1>0. PICK p \in Processes : Start(p) \/ Crash(p) \/ \E d \in Consumers : Issue(p, d)
  BY DEF Next
<1>1. keys \in KeysType
  BY <1>0, SchemaFacts
<1>2. m \in Active(keys, c) /\ m \in 1..MaxId
  <2>1. Active(keys, c) \subseteq 1..MaxId
    BY <1>1 DEF Active, KeysType
  <2>2. m \in Active(keys, c)
    BY <1>1, NewestActive
  <2> QED
    BY <2>1, <2>2
<1>3. keys[m] # NoKey /\ keys[m].consumer = c /\ keys[m].active
  BY <1>2 DEF Active
<1>4. m \in Int /\ m >= m
  BY <1>2, IdsAreNumbers
<1> HIDE DEF m
<1>5. ASSUME keys' \in KeysType, keys'[m] # NoKey, keys'[m].consumer = c, keys'[m].active
      PROVE  \E k \in Active(keys', c) : k >= m
  BY <1>2, <1>4, <1>5 DEF Active, KeysType
<1>6. CASE keys' = keys
  BY <1>2, <1>4, <1>6 DEF m
<1>7. CASE Collapse(p) /\ keyTable # "none"
  <2>1. keys' = [k \in 1..MaxId |->
                     IF keys[k] # NoKey /\ keys[k].active
                        /\ k # Max(Active(keys, keys[k].consumer))
                     THEN [keys[k] EXCEPT !.active = FALSE] ELSE keys[k]]
    BY <1>7 DEF Collapse
  <2>2. /\ keys' \in KeysType
        /\ m = Max(Active(keys, keys[m].consumer)) => keys'[m] = keys[m]
    BY <1>1, <1>2, <1>3, <2>1, CollapsedKeys
  <2>3. m = Max(Active(keys, keys[m].consumer))
    BY <1>3 DEF m
  <2> QED
    BY <1>3, <1>5, <2>2, <2>3 DEF m
<1>8. CASE CopyPartners(p) /\ keyTable = "legacy"
  <2>1. keys' = [k \in 1..MaxId |-> IF keys[k] = NoKey THEN NoKey
                                    ELSE [keys[k] EXCEPT !.models = FALSE]]
    BY <1>8 DEF CopyPartners
  <2>2. /\ keys' \in KeysType /\ keys'[m] # NoKey
        /\ keys'[m].consumer = keys[m].consumer /\ keys'[m].active = keys[m].active
    BY <1>1, <1>2, <1>3, <2>1, EmptiedKeys
  <2> QED
    BY <1>3, <1>5, <2>2 DEF m
<1>9. ASSUME NEW d \in Consumers, Issue(p, d) PROVE \E k \in Active(keys', c) : k >= m
  <2>1. PICK next \in 1..MaxId :
              /\ keys' \in KeysType
              /\ keys'[next] = [consumer |-> d, active |-> TRUE, models |-> FALSE]
              /\ \A k \in 1..MaxId : keys[k] # NoKey => k < next
              /\ \A k \in 1..MaxId \ {next} :
                    keys[k] # NoKey => (keys[k].consumer # d => keys'[k] = keys[k])
    BY <1>0, <1>9, IssuedKeys
  <2>2. m < next
    BY <1>2, <1>3, <2>1
  <2>3. CASE d = c
    <3>1. keys'[next] \in Key /\ keys'[next].consumer = c /\ keys'[next].active
      BY <2>1, <2>3 DEF Key
    <3>2. next \in Active(keys', c)
      BY <2>1, <3>1, NoKeyFresh DEF Active, KeysType
    <3> QED
      BY <1>2, <2>2, <3>2, IdsAreNumbers
  <2>4. CASE d # c
    <3>1. m \in 1..MaxId \ {next}
      BY <1>2, <2>2
    <3>2. keys'[m] = keys[m]
      BY <1>3, <2>1, <2>4, <3>1
    <3> QED
      BY <1>3, <1>5, <2>1, <3>2
  <2> QED
    BY <2>3, <2>4
<1>10. CASE Start(p) \/ Crash(p)
  <2>1. CASE Crash(p) \/ Open(p) \/ CheckColumn(p) \/ CheckAllowList(p) \/ ListModels(p)
             \/ CheckDrop(p)
    BY <1>6, <2>1 DEF Crash, Open, CheckColumn, CheckAllowList, ListModels, CheckDrop, file
  <2>2. CASE CreateTables(p) \/ CreateRest(p) \/ AddColumn(p) \/ Rebuild(p) \/ Finish(p)
    BY <1>6, <2>2 DEF CreateTables, CreateRest, AddColumn, Rebuild, Finish
  <2>3. CASE Collapse(p)
    BY <1>6, <1>7, <2>3 DEF Collapse
  <2>4. CASE CopyPartners(p)
    BY <1>6, <1>8, <2>4 DEF CopyPartners
  <2> QED
    BY <1>10, <2>1, <2>2, <2>3, <2>4 DEF Start
<1> QED
  BY <1>0, <1>9, <1>10 DEF m

\* No statement of a migration, and no process that serves beside it, takes a
\* consumer's newest active key away without a newer one in its place
\* (collapse_duplicate_active_keys, migrate_model_allow_list).
THEOREM NewestKeySurvives == Spec => NewestKeyKept
<1>1. SchemaInv /\ [Next]_vars =>
         [\A c \in Consumers : Active(keys, c) # {} =>
             \E k \in Active(keys', c) : k >= Max(Active(keys, c))]_vars
  BY NewestStays
<1> QED
  BY <1>1, SchemaInvariant, PTL DEF Spec, NewestKeyKept

-----------------------------------------------------------------------------
(* Accounts. *)

DraftType == [day : Days, partner : Partners, mode : Modes, firm : BOOLEAN, due : 0..MaxNow]

\* What each step of a call carries on to the next.
CallGood(q) ==
    /\ q.op \in {"none", "models", "key", "delete", "pay", "show", "paid"}
    /\ q.op \in {"models", "key", "delete"} => q.partner \in Partners
    /\ q.op = "models" => q.list \in Lists
    /\ q.op \in {"pay", "show", "paid"} =>
          /\ q.bill \in Partners \X Days
          /\ bill[q.bill[1]][q.bill[2]] # NoBill
          /\ bill[q.bill[1]][q.bill[2]].mode = "invoice"
    /\ q.op = "show" => bill[q.bill[1]][q.bill[2]].paid # Nobody
    /\ q.op = "paid" => q.payer # Nobody /\ bill[q.bill[1]][q.bill[2]].paid = q.payer

\* A statement has an account, and one that nobody owes is not paid.
BillsGood ==
    \A c \in Partners, d \in Days : bill[c][d] # NoBill =>
        /\ account[c] # NoAccount
        /\ bill[c][d].mode = "reconciliation" => bill[c][d].paid = Nobody

AccountsInv ==
    /\ AccountsTypeOK
    /\ draft = NoDraftYet \/ draft \in DraftType
    /\ DOMAIN call = Callers /\ \A m \in Callers : CallGood(call[m])
    /\ BillsGood

BooksType ==
    /\ account \in [Partners -> Modes \cup {NoAccount}]
    /\ models \in [Partners -> Lists \cup {Empty}]
    /\ issued \subseteq Partners
    /\ bill \in [Partners -> [Days -> Bill \cup {NoBill}]]

\* What no step does to a statement: take it away, change its mode, or change who paid.
BillsKept ==
    \A c \in Partners, d \in Days : bill[c][d] # NoBill =>
        /\ bill'[c][d] # NoBill /\ bill'[c][d].mode = bill[c][d].mode
        /\ bill[c][d].paid # Nobody => bill'[c][d].paid = bill[c][d].paid

LEMMA AccountsTypes ==
    ASSUME AccountsInv
    PROVE  /\ BooksType /\ clock \in 1..MaxNow /\ calls \in 0..MaxCalls
           /\ DOMAIN call = Callers /\ BillsGood
           /\ \A m \in Callers : CallGood(call[m])
BY DEF AccountsInv, AccountsTypeOK, BooksType

\* What a call knew of a statement is still so.
LEMMA CallStays ==
    ASSUME BillsKept, NEW q, CallGood(q) PROVE CallGood(q)'
<1>1. CASE q.op \in {"pay", "show", "paid"}
  <2>1. PICK c \in Partners, d \in Days : q.bill[1] = c /\ q.bill[2] = d
    BY <1>1 DEF CallGood
  <2>2. /\ bill'[c][d] # NoBill /\ bill'[c][d].mode = bill[c][d].mode
        /\ bill[c][d].paid # Nobody => bill'[c][d].paid = bill[c][d].paid
    BY <1>1, <2>1 DEF BillsKept, CallGood
  <2> QED
    BY <1>1, <2>1, <2>2 DEF CallGood
<1>2. CASE q.op \notin {"pay", "show", "paid"}
  BY <1>2 DEF CallGood
<1> QED
  BY <1>1, <1>2

\* A step of one call.
LEMMA CallStep ==
    ASSUME AccountsInv, NEW m \in Callers, NEW q, call' = [call EXCEPT ![m] = q],
           CallGood(q)', BillsKept, BooksType', BillsGood', draft' = draft, clock' = clock,
           calls' \in 0..MaxCalls
    PROVE  AccountsInv'
<1>1. DOMAIN call' = Callers
  BY AccountsTypes
<1>2. ASSUME NEW k \in Callers PROVE CallGood(call[k])'
  <2>1. CASE k = m
    <3>1. call'[k] = q
      BY <2>1, AccountsTypes
    <3> QED
      BY <3>1 DEF CallGood
  <2>2. CASE k # m
    <3>1. call'[k] = call[k]
      BY <2>2, AccountsTypes
    <3>2. PICK r : r = call[k]
      OBVIOUS
    <3>3. CallGood(r)
      BY <3>2, AccountsTypes
    <3>4. CallGood(r)'
      BY <3>3, CallStays
    <3> QED
      BY <3>1, <3>2, <3>4 DEF CallGood
  <2> QED
    BY <2>1, <2>2
<1>3. \A k \in Callers : CallGood(call[k])'
  BY <1>2
<1>4. AccountsTypeOK'
  BY <1>3, AccountsTypes DEF AccountsTypeOK, BooksType, CallGood
<1>5. draft' = NoDraftYet \/ draft' \in DraftType
  BY DEF AccountsInv
<1> QED
  BY <1>1, <1>3, <1>4, <1>5 DEF AccountsInv

\* Books as they were keep every statement, and what is known of them.
LEMMA SameBills ==
    ASSUME bill' = bill PROVE BillsKept
BY DEF BillsKept

LEMMA SameBooks ==
    ASSUME AccountsInv, UNCHANGED books PROVE BillsKept /\ BooksType' /\ BillsGood'
<1>1. UNCHANGED <<account, models, issued, bill>>
  BY DEF books
<1> QED
  BY <1>1, AccountsTypes, SameBills DEF BooksType, BillsGood

\* The statements stay, and no account that has one goes.
LEMMA SafeEdit ==
    ASSUME AccountsInv, bill' = bill,
           account' \in [Partners -> Modes \cup {NoAccount}],
           models' \in [Partners -> Lists \cup {Empty}], issued' \subseteq Partners,
           \A c \in Partners : account[c] # NoAccount =>
               account'[c] # NoAccount \/ \A d \in Days : bill[c][d] = NoBill
    PROVE  BillsKept /\ BooksType' /\ BillsGood'
<1>1. BooksType'
  BY AccountsTypes DEF BooksType
<1>2. BillsGood'
  BY AccountsTypes DEF BillsGood
<1> QED
  BY <1>1, <1>2, SameBills

LEMMA IdleGood ==
    CallGood(Idle) /\ CallGood(Idle)'
BY DEF CallGood, Idle

LEMMA OpensFacts ==
    ASSUME AccountsInv, NEW m \in Callers, NEW next, Opens(m, next)
    PROVE  /\ call' = [call EXCEPT ![m] = next] /\ calls' \in 0..MaxCalls
           /\ draft' = draft /\ clock' = clock
<1>1. calls \in 0..MaxCalls /\ MaxCalls \in Nat /\ calls < MaxCalls /\ calls' = calls + 1
  BY AccountsTypes, AccountsFresh DEF Opens
<1>2. calls' \in 0..MaxCalls
  BY <1>1
<1> QED
  BY <1>2 DEF Opens

LEMMA ResumesFacts ==
    ASSUME AccountsInv, NEW m \in Callers, NEW op, NEW next, Resumes(m, op, next)
    PROVE  /\ call' = [call EXCEPT ![m] = next] /\ calls' \in 0..MaxCalls
           /\ draft' = draft /\ clock' = clock /\ call[m].op = op
BY AccountsTypes DEF Resumes

LEMMA CreatePartnerKeeps ==
    ASSUME AccountsInv, NEW m \in Callers, NEW c \in Partners, NEW mode \in Modes,
           NEW list \in Lists \cup {Empty}, NEW keygen \in BOOLEAN,
           CreatePartner(m, c, mode, list, keygen)
    PROVE  AccountsInv'
<1>1. PICK q : q = IF account[c] # NoAccount \/ list = Empty THEN Idle
                   ELSE [op |-> "models", partner |-> c, list |-> list, keygen |-> keygen]
  OBVIOUS
<1>2. CallGood(q)'
  <2>1. CASE q = Idle
    BY <2>1, IdleGood
  <2>2. CASE q # Idle
    BY <1>1, <2>2 DEF CallGood
  <2> QED
    BY <2>1, <2>2
<1>3. Opens(m, q)
  BY <1>1 DEF CreatePartner
<1>4. BillsKept /\ BooksType' /\ BillsGood'
  <2>1. /\ account' = IF account[c] = NoAccount THEN [account EXCEPT ![c] = mode] ELSE account
        /\ models' = models /\ issued' = issued /\ bill' = bill
    BY DEF CreatePartner, Created
  <2>2. account' \in [Partners -> Modes \cup {NoAccount}]
    BY <2>1, AccountsTypes DEF BooksType
  <2>3. \A k \in Partners : account[k] # NoAccount => account'[k] # NoAccount
    BY <2>1, AccountsTypes, AccountsFresh DEF BooksType
  <2> QED
    BY <2>1, <2>2, <2>3, AccountsTypes, SafeEdit DEF BooksType
<1> QED
  BY <1>2, <1>3, <1>4, OpensFacts, CallStep

LEMMA ListedFacts ==
    ASSUME BooksType, NEW c \in Partners, NEW list \in Lists \cup {Empty}
    PROVE  Listed(c, list) \in [Partners -> Lists \cup {Empty}]
BY DEF Listed, BooksType

LEMMA CreateModelsKeeps ==
    ASSUME AccountsInv, NEW m \in Callers, CreateModels(m) PROVE AccountsInv'
<1>1. PICK q : q = IF call[m].keygen /\ account[call[m].partner] # NoAccount
                   THEN [op |-> "key", partner |-> call[m].partner] ELSE Idle
  OBVIOUS
<1>2. Resumes(m, "models", q)
  BY <1>1 DEF CreateModels
<1>3. call[m].partner \in Partners /\ call[m].list \in Lists
  BY <1>2, ResumesFacts, AccountsTypes DEF CallGood
<1>4. CallGood(q)'
  <2>1. CASE q = Idle
    BY <2>1, IdleGood
  <2>2. CASE q # Idle
    BY <1>1, <1>3, <2>2 DEF CallGood
  <2> QED
    BY <2>1, <2>2
<1>5. BillsKept /\ BooksType' /\ BillsGood'
  <2>1. /\ models' = Listed(call[m].partner, call[m].list)
        /\ account' = account /\ issued' = issued /\ bill' = bill
    BY DEF CreateModels
  <2>2. models' \in [Partners -> Lists \cup {Empty}]
    BY <1>3, <2>1, ListedFacts, AccountsTypes
  <2> QED
    BY <2>1, <2>2, AccountsTypes, SafeEdit DEF BooksType
<1> QED
  BY <1>2, <1>4, <1>5, ResumesFacts, CallStep

LEMMA IssueKeyKeeps ==
    ASSUME AccountsInv, NEW m \in Callers, IssueKey(m) PROVE AccountsInv'
<1>1. Resumes(m, "key", Idle)
  BY DEF IssueKey
<1>2. call[m].partner \in Partners
  BY <1>1, ResumesFacts, AccountsTypes DEF CallGood
<1>3. BillsKept /\ BooksType' /\ BillsGood'
  <2>1. /\ issued' \subseteq issued \cup {call[m].partner}
        /\ account' = account /\ models' = models /\ bill' = bill
    BY DEF IssueKey
  <2> QED
    BY <1>2, <2>1, AccountsTypes, SafeEdit DEF BooksType
<1> QED
  BY <1>1, <1>3, ResumesFacts, CallStep, IdleGood

LEMMA PutModelsKeeps ==
    ASSUME AccountsInv, NEW m \in Callers, NEW c \in Partners,
           NEW list \in Lists \cup {Empty}, PutModels(m, c, list)
    PROVE  AccountsInv'
<1>1. Opens(m, Idle)
  BY DEF PutModels
<1>2. BillsKept /\ BooksType' /\ BillsGood'
  <2>1. /\ models' = Listed(c, list) /\ account' = account /\ issued' = issued /\ bill' = bill
    BY DEF PutModels
  <2>2. models' \in [Partners -> Lists \cup {Empty}]
    BY <2>1, ListedFacts, AccountsTypes
  <2> QED
    BY <2>1, <2>2, AccountsTypes, SafeEdit DEF BooksType
<1> QED
  BY <1>1, <1>2, OpensFacts, CallStep, IdleGood

LEMMA UpdatePartnerKeeps ==
    ASSUME AccountsInv, NEW m \in Callers, NEW c \in Partners, NEW mode \in Modes,
           UpdatePartner(m, c, mode)
    PROVE  AccountsInv'
<1>1. Opens(m, Idle)
  BY DEF UpdatePartner
<1>2. BillsKept /\ BooksType' /\ BillsGood'
  <2>1. /\ account' = IF account[c] = NoAccount THEN account ELSE [account EXCEPT ![c] = mode]
        /\ models' = models /\ issued' = issued /\ bill' = bill
    BY DEF UpdatePartner, Patched
  <2>2. account' \in [Partners -> Modes \cup {NoAccount}]
    BY <2>1, AccountsTypes DEF BooksType
  <2>3. \A k \in Partners : account[k] # NoAccount => account'[k] # NoAccount
    BY <2>1, AccountsTypes, AccountsFresh DEF BooksType
  <2> QED
    BY <2>1, <2>2, <2>3, AccountsTypes, SafeEdit DEF BooksType
<1> QED
  BY <1>1, <1>2, OpensFacts, CallStep, IdleGood

LEMMA CountStatementsKeeps ==
    ASSUME AccountsInv, NEW m \in Callers, NEW c \in Partners, CountStatements(m, c)
    PROVE  AccountsInv'
<1>1. PICK q : q = IF \E d \in Days : bill[c][d] # NoBill THEN Idle
                   ELSE [op |-> "delete", partner |-> c]
  OBVIOUS
<1>2. Opens(m, q) /\ UNCHANGED books
  BY <1>1 DEF CountStatements
<1>3. CallGood(q)'
  <2>1. CASE q = Idle
    BY <2>1, IdleGood
  <2>2. CASE q # Idle
    BY <1>1, <2>2 DEF CallGood
  <2> QED
    BY <2>1, <2>2
<1> QED
  BY <1>2, <1>3, OpensFacts, SameBooks, CallStep

LEMMA DeletePartnerKeeps ==
    ASSUME AccountsInv, NEW m \in Callers, DeletePartner(m) PROVE AccountsInv'
<1>1. Resumes(m, "delete", Idle)
  BY DEF DeletePartner
<1>2. PICK c : c = call[m].partner
  OBVIOUS
<1>3. c \in Partners
  BY <1>1, <1>2, ResumesFacts, AccountsTypes DEF CallGood
<1>4. BillsKept /\ BooksType' /\ BillsGood'
  <2>1. issued' = issued /\ bill' = bill
    BY DEF DeletePartner
  <2>2. \/ account' = account /\ models' = models
        \/ /\ \A d \in Days : bill[c][d] = NoBill
           /\ account' = [account EXCEPT ![c] = NoAccount]
           /\ models' = [models EXCEPT ![c] = Empty]
    BY <1>2 DEF DeletePartner
  <2>3. /\ account' \in [Partners -> Modes \cup {NoAccount}]
        /\ models' \in [Partners -> Lists \cup {Empty}]
    BY <1>3, <2>2, AccountsTypes DEF BooksType
  <2>4. \A k \in Partners : account[k] # NoAccount =>
            account'[k] # NoAccount \/ \A d \in Days : bill[k][d] = NoBill
    BY <1>3, <2>2, AccountsTypes DEF BooksType
  <2> QED
    BY <2>1, <2>3, <2>4, AccountsTypes, SafeEdit DEF BooksType
<1> QED
  BY <1>1, <1>4, ResumesFacts, CallStep, IdleGood

LEMMA LookUpKeeps ==
    ASSUME AccountsInv, NEW m \in Callers, NEW b \in Partners \X Days, LookUp(m, b)
    PROVE  AccountsInv'
<1>1. PICK c \in Partners, d \in Days : b[1] = c /\ b[2] = d
  OBVIOUS
<1>2. PICK q : q = IF bill[c][d] = NoBill \/ bill[c][d].mode # "invoice" THEN Idle
                   ELSE IF bill[c][d].paid # Nobody THEN Shown(b)
                   ELSE [op |-> "pay", bill |-> b]
  OBVIOUS
<1>3. Opens(m, q) /\ UNCHANGED books
  BY <1>1, <1>2 DEF LookUp
<1>4. bill' = bill
  BY <1>3 DEF books
<1>5. CallGood(q)'
  <2>1. CASE q = Idle
    BY <2>1, IdleGood
  <2>2. CASE q # Idle /\ bill[c][d].paid # Nobody
    <3>1. /\ q = [op |-> "paid", bill |-> b, payer |-> bill[c][d].paid]
          /\ bill[c][d] # NoBill /\ bill[c][d].mode = "invoice"
      BY <1>1, <1>2, <2>2 DEF Shown
    <3> QED
      BY <1>1, <1>4, <2>2, <3>1 DEF CallGood
  <2>3. CASE q # Idle /\ bill[c][d].paid = Nobody
    BY <1>1, <1>2, <1>4, <2>3 DEF CallGood
  <2> QED
    BY <2>1, <2>2, <2>3
<1> QED
  BY <1>3, <1>5, OpensFacts, SameBooks, CallStep

\* A statement with another payer is that statement still.
LEMMA PayerRecord ==
    ASSUME NEW s \in Bill, NEW p \in Callers \cup {Nobody}, NEW t, t = [s EXCEPT !.paid = p]
    PROVE  t \in Bill /\ t.paid = p /\ t.mode = s.mode
BY DEF Bill

LEMMA RecordPaymentKeeps ==
    ASSUME AccountsInv, NEW m \in Callers, RecordPayment(m) PROVE AccountsInv'
<1>1. PICK b : b = call[m].bill
  OBVIOUS
<1>2. PICK q : q = [op |-> "show", bill |-> b]
  OBVIOUS
<1>3. Resumes(m, "pay", q)
  BY <1>1, <1>2 DEF RecordPayment
<1>4. /\ b \in Partners \X Days /\ bill[b[1]][b[2]] # NoBill
      /\ bill[b[1]][b[2]].mode = "invoice"
  BY <1>1, <1>3, ResumesFacts, AccountsTypes DEF CallGood
<1>5. PICK c \in Partners, d \in Days : b[1] = c /\ b[2] = d
  BY <1>4
<1>6. PICK s \in Bill : s = bill[c][d]
  BY <1>4, <1>5, AccountsTypes DEF BooksType
<1>7. PICK p \in Callers \cup {Nobody} : p = IF s.paid = Nobody THEN m ELSE s.paid
  BY DEF Bill
<1>8. PICK t : t = [s EXCEPT !.paid = p]
  OBVIOUS
<1>9. t \in Bill /\ t.paid = p /\ t.mode = s.mode
  BY <1>8, PayerRecord
<1>10. bill' = [bill EXCEPT ![c] = [bill[c] EXCEPT ![d] = t]]
  <2>1. bill' = [bill EXCEPT ![b[1]][b[2]].paid = IF @ = Nobody THEN m ELSE @]
    BY <1>1 DEF RecordPayment
  <2> QED
    BY <1>5, <1>6, <1>7, <1>8, <2>1
<1>11. /\ bill' \in [Partners -> [Days -> Bill \cup {NoBill}]] /\ bill'[c][d] = t
       /\ \A k \in Partners, e \in Days : k # c \/ e # d => bill'[k][e] = bill[k][e]
  BY <1>9, <1>10, AccountsTypes DEF BooksType
<1>12. t # NoBill /\ p # Nobody
  BY <1>7, <1>9, AccountsFresh
<1>13. account' = account /\ models' = models /\ issued' = issued
  BY DEF RecordPayment
<1>14. BooksType'
  BY <1>11, <1>13, AccountsTypes DEF BooksType
<1>15. BillsKept
  BY <1>6, <1>7, <1>9, <1>11, <1>12 DEF BillsKept
<1>16. BillsGood'
  <2>1. SUFFICES ASSUME NEW k \in Partners, NEW e \in Days, bill'[k][e] # NoBill
                 PROVE  /\ account'[k] # NoAccount
                        /\ bill'[k][e].mode = "reconciliation" => bill'[k][e].paid = Nobody
    BY DEF BillsGood
  <2>2. CASE k = c /\ e = d
    BY <1>4, <1>5, <1>6, <1>9, <1>11, <1>13, <2>2, AccountsTypes DEF BillsGood
  <2>3. CASE k # c \/ e # d
    BY <1>11, <1>13, <2>1, <2>3, AccountsTypes DEF BillsGood
  <2> QED
    BY <2>2, <2>3
<1>17. CallGood(q)'
  BY <1>2, <1>4, <1>5, <1>6, <1>9, <1>11, <1>12 DEF CallGood
<1> QED
  BY <1>3, <1>14, <1>15, <1>16, <1>17, ResumesFacts, CallStep

LEMMA ShowPaymentKeeps ==
    ASSUME AccountsInv, NEW m \in Callers, ShowPayment(m) PROVE AccountsInv'
<1>1. PICK b : b = call[m].bill
  OBVIOUS
<1>2. PICK q : q = Shown(b)
  OBVIOUS
<1>3. Resumes(m, "show", q) /\ UNCHANGED books
  BY <1>1, <1>2 DEF ShowPayment
<1>4. /\ b \in Partners \X Days /\ bill[b[1]][b[2]] # NoBill
      /\ bill[b[1]][b[2]].mode = "invoice" /\ bill[b[1]][b[2]].paid # Nobody
  BY <1>1, <1>3, ResumesFacts, AccountsTypes DEF CallGood
<1>5. bill' = bill
  BY <1>3 DEF books
<1>6. CallGood(q)'
  BY <1>2, <1>4, <1>5 DEF CallGood, Shown
<1> QED
  BY <1>3, <1>6, ResumesFacts, SameBooks, CallStep

LEMMA CallEndsKeeps ==
    ASSUME AccountsInv, NEW m \in Callers, CallEnds(m) PROVE AccountsInv'
<1>1. /\ call' = [call EXCEPT ![m] = Idle] /\ UNCHANGED books
      /\ clock' = clock /\ draft' = draft /\ calls' = calls
  BY DEF CallEnds
<1> QED
  BY <1>1, AccountsTypes, SameBooks, CallStep, IdleGood

\* A step that is no call's.
LEMMA OtherStep ==
    ASSUME AccountsInv, call' = call, calls' = calls, BillsKept, BooksType', BillsGood',
           clock' \in 1..MaxNow, draft' = NoDraftYet \/ draft' \in DraftType
    PROVE  AccountsInv'
<1>1. ASSUME NEW k \in Callers PROVE CallGood(call[k])'
  <2>1. PICK r : r = call[k]
    OBVIOUS
  <2>2. CallGood(r)
    BY <2>1, AccountsTypes
  <2>3. CallGood(r)'
    BY <2>2, CallStays
  <2> QED
    BY <2>1, <2>3 DEF CallGood
<1>2. AccountsTypeOK'
  BY <1>1, AccountsTypes DEF AccountsTypeOK, BooksType, CallGood
<1>3. DOMAIN call' = Callers
  BY AccountsTypes
<1> QED
  BY <1>1, <1>2, <1>3 DEF AccountsInv

LEMMA ClockTicksKeeps ==
    ASSUME AccountsInv, ClockTicks PROVE AccountsInv'
<1>1. /\ clock < MaxNow /\ clock' = clock + 1 /\ UNCHANGED books
      /\ draft' = draft /\ call' = call /\ calls' = calls
  BY DEF ClockTicks
<1>2. clock' \in 1..MaxNow
  BY <1>1, AccountsTypes, AccountsFresh
<1>3. draft' = NoDraftYet \/ draft' \in DraftType
  BY <1>1 DEF AccountsInv
<1> QED
  BY <1>1, <1>2, <1>3, AccountsTypes, SameBooks, OtherStep

LEMMA DraftKeeps ==
    ASSUME AccountsInv, NEW c \in Partners, NEW d \in Days, NEW firm \in BOOLEAN,
           NEW due \in 1..MaxNow, Draft(c, d, firm, due)
    PROVE  AccountsInv'
<1>1. /\ account[c] # NoAccount /\ UNCHANGED books
      /\ draft' = [day |-> d, partner |-> c, mode |-> account[c], firm |-> firm,
                   due |-> IF account[c] = "invoice" THEN due ELSE 0]
      /\ clock' = clock /\ call' = call /\ calls' = calls
  BY DEF Draft
<1>2. account[c] \in Modes
  BY <1>1, AccountsTypes DEF BooksType
<1>3. (IF account[c] = "invoice" THEN due ELSE 0) \in 0..MaxNow
  BY AccountsFresh
<1>4. draft' \in DraftType
  BY <1>1, <1>2, <1>3 DEF DraftType
<1> QED
  BY <1>1, <1>4, AccountsTypes, SameBooks, OtherStep

\* There is always an id left for a statement that is not yet written.
LEMMA NextId ==
    ASSUME NEW c \in Partners, NEW d \in Days, bill[c][d] = NoBill
    PROVE  Cardinality(Bills) + 1 \in 1..(Cardinality(Partners) * Cardinality(Days))
<1> DEFINE All == Partners \X Days
<1>1. /\ IsFiniteSet(All) /\ Cardinality(All) = Cardinality(Partners) * Cardinality(Days)
  BY AccountsFresh, FS_Product
<1>2. <<c, d>> \in All /\ <<c, d>> \notin Bills /\ Bills \subseteq All
  BY DEF Bills
<1> HIDE DEF All
<1>3. /\ IsFiniteSet(Bills) /\ Cardinality(Bills) <= Cardinality(All)
      /\ (Cardinality(Bills) = Cardinality(All) => Bills = All)
  BY <1>1, <1>2, FS_Subset
<1>4. Cardinality(Bills) \in Nat /\ Cardinality(All) \in Nat
  BY <1>1, <1>3, FS_CardinalityType
<1> QED
  BY <1>1, <1>2, <1>3, <1>4

LEMMA WriteStatementKeeps ==
    ASSUME AccountsInv, WriteStatement PROVE AccountsInv'
<1>1. /\ draft \in DraftType /\ draft' = NoDraftYet /\ account' = account /\ models' = models
      /\ issued' = issued /\ clock' = clock /\ call' = call /\ calls' = calls
  BY DEF WriteStatement, AccountsInv
<1>2. PICK c \in Partners, d \in Days : draft.partner = c /\ draft.day = d
  BY <1>1 DEF DraftType
<1>3. CASE bill' = bill
  BY <1>1, <1>3, AccountsTypes, SameBooks, OtherStep DEF books
<1>4. CASE bill' # bill
  <2>1. PICK s : s = [id |-> Cardinality(Bills) + 1, mode |-> draft.mode,
                      firm |-> draft.firm, due |-> draft.due, paid |-> Nobody]
    OBVIOUS
  <2>2. /\ account[c] # NoAccount /\ bill[c][d] = NoBill
        /\ bill' = [bill EXCEPT ![c] = [bill[c] EXCEPT ![d] = s]]
    BY <1>2, <1>4, <2>1 DEF WriteStatement
  <2>3. s \in Bill /\ s.paid = Nobody
    <3>1. Cardinality(Bills) + 1 \in 1..(Cardinality(Partners) * Cardinality(Days))
      BY <2>2, NextId
    <3>2. draft.mode \in Modes /\ draft.firm \in BOOLEAN /\ draft.due \in 0..MaxNow
      BY <1>1 DEF DraftType
    <3> QED
      BY <2>1, <3>1, <3>2 DEF Bill
  <2>4. /\ bill' \in [Partners -> [Days -> Bill \cup {NoBill}]] /\ bill'[c][d] = s
        /\ \A k \in Partners, e \in Days : k # c \/ e # d => bill'[k][e] = bill[k][e]
    BY <2>2, <2>3, AccountsTypes DEF BooksType
  <2>5. BooksType'
    BY <1>1, <2>4, AccountsTypes DEF BooksType
  <2>6. BillsKept
    BY <2>2, <2>4 DEF BillsKept
  <2>7. BillsGood'
    BY <1>1, <2>2, <2>3, <2>4, AccountsTypes DEF BillsGood
  <2> QED
    BY <1>1, <2>5, <2>6, <2>7, AccountsTypes, OtherStep
<1> QED
  BY <1>3, <1>4

LEMMA AccountsInitHolds ==
    ASSUME AccountsInit PROVE AccountsInv
<1>1. AccountsTypeOK
  BY AccountsFresh DEF AccountsInit, AccountsTypeOK, Idle
<1>2. DOMAIN call = Callers /\ \A m \in Callers : CallGood(call[m])
  BY IdleGood DEF AccountsInit
<1>3. BillsGood
  BY DEF AccountsInit, BillsGood
<1> QED
  BY <1>1, <1>2, <1>3 DEF AccountsInit, AccountsInv

LEMMA AccountsInvariant == AccountsSpec => []AccountsInv
<1>1. AccountsInv /\ [AccountsNext]_accountVars => AccountsInv'
  <2> SUFFICES ASSUME AccountsInv, [AccountsNext]_accountVars PROVE AccountsInv'
    OBVIOUS
  <2>1. CASE UNCHANGED accountVars
    <3>1. /\ UNCHANGED books /\ clock' = clock /\ draft' = draft
          /\ call' = call /\ calls' = calls
      BY <2>1 DEF accountVars
    <3>2. draft' = NoDraftYet \/ draft' \in DraftType
      BY <3>1 DEF AccountsInv
    <3> QED
      BY <3>1, <3>2, AccountsTypes, SameBooks, OtherStep
  <2>2. ASSUME NEW m \in Callers, NEW c \in Partners, NEW list \in Lists \cup {Empty},
               \/ \E mode \in Modes, keygen \in BOOLEAN :
                     CreatePartner(m, c, mode, list, keygen)
               \/ PutModels(m, c, list)
        PROVE  AccountsInv'
    BY <2>2, CreatePartnerKeeps, PutModelsKeeps
  <2>3. ASSUME NEW m \in Callers, NEW c \in Partners,
               CountStatements(m, c) \/ \E mode \in Modes : UpdatePartner(m, c, mode)
        PROVE  AccountsInv'
    BY <2>3, CountStatementsKeeps, UpdatePartnerKeeps
  <2>4. ASSUME NEW m \in Callers,
               \/ \E b \in Partners \X Days : LookUp(m, b)
               \/ CreateModels(m) \/ IssueKey(m) \/ DeletePartner(m)
               \/ RecordPayment(m) \/ ShowPayment(m) \/ CallEnds(m)
        PROVE  AccountsInv'
    BY <2>4, LookUpKeeps, CreateModelsKeeps, IssueKeyKeeps, DeletePartnerKeeps,
       RecordPaymentKeeps, ShowPaymentKeeps, CallEndsKeeps
  <2> QED
    BY <2>1, <2>2, <2>3, <2>4, DraftKeeps, WriteStatementKeeps, ClockTicksKeeps
       DEF AccountsNext
<1> QED
  BY <1>1, AccountsInitHolds, PTL DEF AccountsSpec

\* ORDER BY due_at, id has a first row, whichever rows there are.
LEMMA OldestIsOne ==
    ASSUME NEW c \in Partners, NEW ds \in SUBSET Days, ds # {},
           \A d \in ds : bill[c][d] \in Bill
    PROVE  Oldest(c, ds) \in ds
<1>1. \A d \in ds : bill[c][d].due \in Nat /\ bill[c][d].id \in Nat
  <2> SUFFICES ASSUME NEW d \in ds PROVE bill[c][d].due \in Nat /\ bill[c][d].id \in Nat
    OBVIOUS
  <2>1. bill[c][d].due \in 0..MaxNow
    BY DEF Bill
  <2>2. bill[c][d].id \in 1..(Cardinality(Partners) * Cardinality(Days))
    BY DEF Bill
  <2> QED
    BY <2>1, <2>2
<1> DEFINE Dues == {bill[c][d].due : d \in ds}
<1>2. PICK m \in Dues : \A y \in Dues : m <= y
  <2>1. Dues \subseteq Nat /\ Dues # {}
    BY <1>1
  <2> QED
    BY <2>1, LeastNatural
<1>3. \A d \in ds : m <= bill[c][d].due
  BY <1>2
<1> DEFINE first == {d \in ds : bill[c][d].due = m}
           Ids == {bill[c][d].id : d \in first}
<1>4. PICK n \in Ids : \A y \in Ids : n <= y
  <2>1. Ids \subseteq Nat /\ Ids # {}
    BY <1>1, <1>2
  <2> QED
    BY <2>1, LeastNatural
<1>5. PICK x \in ds : bill[c][x].due = m /\ bill[c][x].id = n
  BY <1>4
<1>6. \A e \in ds : \/ bill[c][x].due < bill[c][e].due
                    \/ /\ bill[c][x].due = bill[c][e].due
                       /\ bill[c][x].id <= bill[c][e].id
  <2> SUFFICES ASSUME NEW e \in ds, ~(bill[c][x].due < bill[c][e].due)
               PROVE  /\ bill[c][x].due = bill[c][e].due
                      /\ bill[c][x].id <= bill[c][e].id
    OBVIOUS
  <2>1. bill[c][e].due = m
    BY <1>1, <1>3, <1>5
  <2>2. bill[c][e].id \in Ids
    BY <2>1
  <2> QED
    BY <1>4, <1>5, <2>1, <2>2
<1> QED
  BY <1>6 DEF Oldest

\* Of one row it is that row.
LEMMA OldestOfOne ==
    ASSUME NEW c \in Partners, NEW x \in Days, bill[c][x] \in Bill
    PROVE  Oldest(c, {x}) = x
  BY OldestIsOne

\* Every answer to mark-paid shows the payment that stands, no reconciliation statement
\* is paid, and a statement's account is never gone, for any number of partners, days,
\* managers and calls (mark_paid, delete_partner, write_statement).
THEOREM PaymentsAlwaysStand == AccountsSpec => []PaymentsStand
<1>1. AccountsInv => PaymentsStand
  <2> SUFFICES ASSUME AccountsInv PROVE PaymentsStand
    OBVIOUS
  <2>1. \A m \in Callers : call[m].op = "paid" =>
          /\ call[m].payer # Nobody
          /\ bill[call[m].bill[1]][call[m].bill[2]].paid = call[m].payer
    BY AccountsTypes DEF CallGood
  <2>2. ASSUME NEW b \in Bills
        PROVE  /\ account[b[1]] # NoAccount
               /\ bill[b[1]][b[2]].mode = "reconciliation" => bill[b[1]][b[2]].paid = Nobody
    <3>1. PICK c \in Partners, d \in Days : b[1] = c /\ b[2] = d /\ bill[c][d] # NoBill
      BY DEF Bills
    <3> QED
      BY <3>1, AccountsTypes DEF BillsGood
  <2> QED
    BY <2>1, <2>2 DEF PaymentsStand
<1> QED
  BY <1>1, AccountsInvariant, PTL

\* The request path's subquery, which joins one row, and the reports, which read all of
\* them, agree on whether a partner is suspended and for which statement, and that
\* statement is owed, for any statements there can be (load_active, statuses_in_scope,
\* observe_status, status_for).
THEOREM SuspensionAlwaysAgrees == AccountsSpec => []SuspensionAgrees
<1>1. AccountsInv => SuspensionAgrees
  <2> SUFFICES ASSUME AccountsInv, NEW c \in Partners
               PROVE  /\ RequestStatus(c) = ApiStatus(c)
                      /\ RequestStatus(c) = ObservedStatus(c)
                      /\ RequestStatus(c) # 0 => RequestStatus(c) \in Owed(c)
    BY DEF SuspensionAgrees
  <2>1. ObservedStatus(c) = ApiStatus(c)
    BY DEF ObservedStatus, ApiStatus
  <2>2. CASE account[c] # "invoice"
    BY <2>1, <2>2 DEF RequestStatus, ApiStatus, StatusFor
  <2>3. CASE account[c] = "invoice"
    <3>1. PICK S : S = {e \in Overdue(c) : CanSuspend(c, e)}
      OBVIOUS
    <3>2. ApiStatus(c) = Oldest(c, S)
      BY <2>3, <3>1 DEF ApiStatus, StatusFor
    <3>3. RequestStatus(c) = Oldest(c, {d \in LoadedRow(c) : CanSuspend(c, d)})
      BY <2>3 DEF RequestStatus, StatusFor
    <3>4. LoadedRow(c) = {d \in {Oldest(c, S)} : d # 0}
      BY <3>1 DEF LoadedRow
    <3>5. CASE S = {}
      <4>1. Oldest(c, S) = 0
        BY <3>5 DEF Oldest
      <4>2. {d \in LoadedRow(c) : CanSuspend(c, d)} = {}
        BY <3>4, <4>1
      <4>3. RequestStatus(c) = 0
        BY <3>3, <4>2 DEF Oldest
      <4> QED
        BY <2>1, <3>2, <4>1, <4>3
    <3>6. CASE S # {}
      <4>1. S \in SUBSET Days /\ S \subseteq Owed(c) /\ \A d \in S : bill[c][d] # NoBill
        BY <3>1 DEF Overdue, Owed
      <4>2. \A d \in S : bill[c][d] \in Bill
        BY <4>1, AccountsTypes DEF BooksType
      <4>3. PICK x \in S : x = Oldest(c, S)
        BY <3>6, <4>1, <4>2, OldestIsOne
      <4>4. x # 0 /\ CanSuspend(c, x) /\ x \in Days
        BY <3>1, <4>1, <4>3, AccountsFresh
      <4>5. {d \in LoadedRow(c) : CanSuspend(c, d)} = {x}
        BY <3>4, <4>3, <4>4
      <4>6. RequestStatus(c) = x
        BY <3>3, <4>2, <4>4, <4>5, OldestOfOne
      <4> QED
        BY <2>1, <3>2, <4>1, <4>3, <4>6
    <3> QED
      BY <3>5, <3>6
  <2> QED
    BY <2>2, <2>3
<1> QED
  BY <1>1, AccountsInvariant, PTL

-----------------------------------------------------------------------------
(* Pricing.  The invariant is the type of the rows alone; the argument is that  *)
(* a statement, whatever the rows, accounts for each and charges their cost.    *)
(* The query's sums become sums over the set of rows (ColumnSummed), the rows   *)
(* of a group have one price snapshot so that pricing the sums is summing the   *)
(* prices (GroupSums), and each line is rounded three times (PriceLineFair).    *)

RowsTyped == rows \in Seq(Row)

\* The rows of a group that it charges for, and a column with 0 for no value.
Priced(g) == {i \in Members(g) : Billable(rows[i])}
Column(col) == [i \in DOMAIN rows |-> Known(rows[i][col])]
TokenColumns == {"input", "cached", "output"}

LEMMA RowsIndexed ==
    ASSUME RowsTyped
    PROVE  /\ DOMAIN rows = 1..Len(rows) /\ Len(rows) \in Nat
           /\ IsFiniteSet(DOMAIN rows) /\ Cardinality(DOMAIN rows) = Len(rows)
           /\ \A i \in DOMAIN rows : rows[i] \in Row
<1>1. /\ DOMAIN rows = 1..Len(rows) /\ Len(rows) \in Nat
      /\ \A i \in DOMAIN rows : rows[i] \in Row
  BY DEF RowsTyped
<1>2. IsFiniteSet(1..Len(rows)) /\ Cardinality(1..Len(rows)) = Len(rows)
  BY <1>1, FS_Interval
<1> QED
  BY <1>1, <1>2, Zenon

LEMMA GroupsFinite ==
    ASSUME RowsTyped
    PROVE  /\ IsFiniteSet(Groups)
           /\ \A g : /\ Members(g) \subseteq DOMAIN rows /\ IsFiniteSet(Members(g))
                     /\ Priced(g) \subseteq Members(g) /\ IsFiniteSet(Priced(g))
<1>1. IsFiniteSet(DOMAIN rows)
  BY RowsIndexed
<1>2. IsFiniteSet(Groups)
  <2> DEFINE f == [i \in DOMAIN rows |-> <<rows[i].model, rows[i].prices>>]
  <2>1. f \in Surjection(DOMAIN rows, Groups)
    BY DEF Surjection, Groups
  <2> HIDE DEF f
  <2> QED
    BY <1>1, <2>1, FS_Surjection
<1>3. ASSUME NEW g
      PROVE  /\ Members(g) \subseteq DOMAIN rows /\ IsFiniteSet(Members(g))
             /\ Priced(g) \subseteq Members(g) /\ IsFiniteSet(Priced(g))
  <2>1. Members(g) \subseteq DOMAIN rows /\ Priced(g) \subseteq Members(g)
    BY DEF Members, Priced
  <2>2. IsFiniteSet(Members(g))
    BY <1>1, <2>1, FS_Subset
  <2> QED
    BY <2>1, <2>2, FS_Subset
<1> QED
  BY <1>2, <1>3

LEMMA CountsTyped ==
    ASSUME RowsTyped, NEW i \in DOMAIN rows, NEW col \in TokenColumns
    PROVE  /\ rows[i][col] = Null \/ rows[i][col] \in Nat
           /\ Column(col)[i] \in Nat
           /\ rows[i][col] # Null => Column(col)[i] = rows[i][col]
           /\ rows[i][col] = Null => Column(col)[i] = 0
<1>1. rows[i] \in Row
  BY RowsIndexed
<1>2. rows[i].input \in Counts \cup {Null} /\ rows[i].cached \in Counts \cup {Null}
      /\ rows[i].output \in Counts \cup {Null}
  BY <1>1 DEF Row
<1>3. rows[i][col] \in Counts \cup {Null}
  BY <1>2 DEF TokenColumns
<1>4. Column(col)[i] = Known(rows[i][col])
  BY DEF Column
<1>5. PICK v : v = rows[i][col]
  OBVIOUS
<1>6. Column(col)[i] = IF v = Null THEN 0 ELSE v
  BY <1>4, <1>5, Zenon DEF Known
<1>7. v = Null \/ v \in Nat
  BY <1>3, <1>5, PricingNat
<1> QED
  BY <1>5, <1>6, <1>7

\* What the query sums, as a sum of the column: SUM skips the rows without a value.
LEMMA ColumnSummed ==
    ASSUME RowsTyped, NEW S, S \subseteq DOMAIN rows, NEW col \in TokenColumns
    PROVE  /\ Known(SumOf(S, col)) = Sum(Column(col), S)
           /\ Sum(Column(col), S) \in Nat
           /\ SumOf(S, col) = Null <=> \A i \in S : rows[i][col] = Null
<1> DEFINE F == Column(col)
           valued == {i \in S : rows[i][col] # Null}
           missing == {i \in S : rows[i][col] = Null}
           Takes(g) ==
               g = [s \in SUBSET valued |-> IF s = {} THEN 0
                                            ELSE rows[Picked(s)][col] + g[s \ {Picked(s)}]]
           iter == CHOOSE iter : Takes(iter)
<1>1. /\ IsFiniteSet(S) /\ IsFiniteSet(valued) /\ IsFiniteSet(missing)
      /\ valued \cup missing = S /\ valued \cap missing = {}
  <2>1. IsFiniteSet(S)
    BY RowsIndexed, FS_Subset
  <2>2. valued \subseteq S /\ missing \subseteq S
    OBVIOUS
  <2> QED
    BY <2>1, <2>2, FS_Subset
<1>2. \A i \in S : F[i] \in Nat
  BY CountsTyped
<1>3. \A i \in S : F[i] \in Int /\ 0 <= F[i]
  BY <1>2
<1>4. Sum(F, S) \in Nat
  <2> DEFINE Z == [i \in S |-> 0]
  <2>1. \A i \in S : Z[i] = 0 /\ Z[i] \in Int /\ F[i] \in Int /\ Z[i] <= F[i]
    BY <1>3
  <2> HIDE DEF F, Z, valued, missing
  <2>2. Sum(Z, S) <= Sum(F, S)
    BY <1>1, <2>1, SumOrdered
  <2>3. Sum(Z, S) = 0
    BY <1>1, <2>1, SumZero
  <2>4. Sum(F, S) \in Int
    BY <1>1, <1>3, SumInt
  <2> QED
    BY <2>2, <2>3, <2>4
<1>5. Sum(F, S) = Sum(F, valued) + Sum(F, missing)
  <2> HIDE DEF F, valued, missing
  <2> QED
    BY <1>1, <1>3, SumUnion
<1>6. Sum(F, missing) = 0
  <2>1. \A i \in missing : F[i] = 0
    BY CountsTyped
  <2> HIDE DEF F, valued, missing
  <2> QED
    BY <1>1, <2>1, SumZero
<1>7. Sum(F, valued) = Sum(F, S)
  <2> HIDE DEF F, valued, missing
  <2>1. \A i \in valued : F[i] \in Int
    BY <1>1, <1>3
  <2>2. Sum(F, valued) \in Int
    BY <1>1, <2>1, SumInt
  <2> QED
    BY <1>5, <1>6, <2>2
<1>8. ASSUME valued # {} PROVE SumOf(S, col) = Sum(F, valued)
  <2>1. SumOf(S, col) = iter[valued]
    BY <1>8 DEF SumOf, MapThenSumSet, MapThenFoldSet, Picked
  <2>2. \A i \in valued : F[i] = rows[i][col] /\ F[i] \in Int
    BY <1>3, CountsTyped
  <2> HIDE DEF F
  <2>3. PICK g : Adds(g, F, valued) /\ Sum(F, valued) = g[valued]
    BY <1>1, <2>2, SumAdds
  <2>4. \A h : Takes(h) <=> Adds(h, F, valued)
    <3> SUFFICES ASSUME NEW h PROVE Takes(h) <=> Adds(h, F, valued)
      OBVIOUS
    <3>1. \A s \in SUBSET valued : s # {} => F[Picked(s)] = rows[Picked(s)][col]
      BY <2>2, PickedIn
    <3>2. \A s \in SUBSET valued :
            (IF s = {} THEN 0 ELSE rows[Picked(s)][col] + h[s \ {Picked(s)}])
              = (IF s = {} THEN 0 ELSE F[Picked(s)] + h[s \ {Picked(s)}])
      BY <3>1
    <3> HIDE DEF valued
    <3>3. [s \in SUBSET valued |-> IF s = {} THEN 0
                                   ELSE rows[Picked(s)][col] + h[s \ {Picked(s)}]]
            = [s \in SUBSET valued |-> IF s = {} THEN 0
                                       ELSE F[Picked(s)] + h[s \ {Picked(s)}]]
      BY <3>2, Zenon
    <3> QED
      BY <3>3, Zenon DEF Adds
  <2>5. Takes(iter)
    BY <2>3, <2>4
  <2> HIDE DEF iter, Takes, valued
  <2>6. Adds(iter, F, valued)
    BY <2>4, <2>5
  <2>7. iter[valued] = g[valued]
    BY <1>1, <2>3, <2>6, AddsAgree
  <2> QED
    BY <2>1, <2>3, <2>7
<1>9. valued = {} => SumOf(S, col) = Null
  BY DEF SumOf
<1>10. Sum(F, {}) = 0
  BY SumEmpty
<1>11. valued = {} <=> \A i \in S : rows[i][col] = Null
  OBVIOUS
<1> HIDE DEF F, valued, missing
<1>12. CASE valued = {}
  BY <1>4, <1>7, <1>9, <1>10, <1>11, <1>12 DEF Known, F
<1>13. CASE valued # {}
  <2>1. SumOf(S, col) = Sum(F, S) /\ Sum(F, S) # Null
    BY <1>4, <1>7, <1>8, <1>13, PricingNat
  <2> QED
    BY <1>4, <1>11, <1>13, <2>1 DEF Known, F
<1> QED
  BY <1>12, <1>13

-----------------------------------------------------------------------------
\* Rounding is off by half a micro-dollar at most.
LEMMA RoundedFair ==
    ASSUME NEW p \in Nat
    PROVE  /\ Rounded(p) \in Nat
           /\ 2 * (Unit * Rounded(p)) <= 2 * p + Unit
           /\ 2 * p <= 2 * (Unit * Rounded(p)) + Unit
<1> DEFINE a == 2 * p + Unit
           n == 2 * Unit
           q == a \div n
<1>1. a \in Nat /\ n \in Nat \ {0} /\ Unit \in Nat
  BY PricingNat
<1>2. \A x \in Nat, y \in Nat \ {0} :
        x \div y \in Nat /\ (x \div y) * y <= x /\ x < (x \div y) * y + y
  OBVIOUS
<1>3. q \in Nat /\ q * n <= a /\ a < q * n + n
  <2> HIDE DEF a, n
  <2> QED
    BY <1>1, <1>2
<1>4. Rounded(p) = q
  BY DEF Rounded
<1> HIDE DEF q
<1>5. q * n = 2 * (Unit * q)
  BY <1>1, <1>3
<1>6. PICK m : m = Unit * q
  OBVIOUS
<1>7. m \in Nat
  BY <1>1, <1>3, <1>6
<1>8. 2 * m <= 2 * p + Unit /\ 2 * p + Unit < 2 * m + 2 * Unit
  BY <1>3, <1>5, <1>6
<1> QED
  BY <1>1, <1>3, <1>4, <1>6, <1>7, <1>8

\* What price_line charges for counts and prices it accepts: a refusal is a cost that is
\* out of range, and otherwise each of the three components is rounded once.
LEMMA PriceLineFair ==
    ASSUME NEW input \in Nat, NEW cached \in Nat, NEW output \in Nat, cached <= input,
           NEW prices, prices.input \in Nat, prices.cached \in Nat, prices.output \in Nat
    PROVE  LET line == PriceLine(input, cached, output, prices)
               cost == (input - cached) * prices.input + cached * prices.cached
                           + output * prices.output
           IN  /\ cost \in Nat
               /\ line = Null => 2 * (Unit * MaxMicros) + 2 * Unit <= 2 * cost + 3 * Unit
               /\ line # Null => /\ line \in Nat
                                 /\ 2 * (Unit * line) <= 2 * cost + 3 * Unit
                                 /\ 2 * cost <= 2 * (Unit * line) + 3 * Unit
<1> DEFINE p1 == (input - cached) * prices.input
           p2 == cached * prices.cached
           p3 == output * prices.output
           line == PriceLine(input, cached, output, prices)
           c1 == ComponentCost(input - cached, prices.input)
           c2 == ComponentCost(cached, prices.cached)
           c3 == ComponentCost(output, prices.output)
<1>1. input - cached \in Nat
  OBVIOUS
<1>2. \A x, y \in Nat : x * y \in Nat
  OBVIOUS
<1>3. p1 \in Nat /\ p2 \in Nat /\ p3 \in Nat
  BY <1>1, <1>2
<1>4. Unit \in Nat /\ Unit > 0 /\ MaxMicros \in Nat /\ Null \notin Int
  BY PricingNat
<1>5. line = CheckedAdd(CheckedAdd(c1, c2), c3)
  <2>1. Components(input, cached, output, prices) = <<c1, c2, c3>>
    BY DEF Components
  <2> HIDE DEF c1, c2, c3
  <2> QED
    BY <2>1 DEF PriceLine
<1>6. /\ c1 = IF Rounded(p1) > MaxMicros THEN Null ELSE Rounded(p1)
      /\ c2 = IF Rounded(p2) > MaxMicros THEN Null ELSE Rounded(p2)
      /\ c3 = IF Rounded(p3) > MaxMicros THEN Null ELSE Rounded(p3)
  BY Zenon DEF ComponentCost
<1> HIDE DEF p1, p2, p3, c1, c2, c3, line
<1>7. PICK q1, q2, q3 : q1 = Rounded(p1) /\ q2 = Rounded(p2) /\ q3 = Rounded(p3)
  OBVIOUS
<1>8. /\ q1 \in Nat /\ 2 * (Unit * q1) <= 2 * p1 + Unit /\ 2 * p1 <= 2 * (Unit * q1) + Unit
      /\ q2 \in Nat /\ 2 * (Unit * q2) <= 2 * p2 + Unit /\ 2 * p2 <= 2 * (Unit * q2) + Unit
      /\ q3 \in Nat /\ 2 * (Unit * q3) <= 2 * p3 + Unit /\ 2 * p3 <= 2 * (Unit * q3) + Unit
  BY <1>3, <1>7, RoundedFair
<1>9. PICK s : s = q1 + q2 + q3
  OBVIOUS
<1>10. s \in Nat /\ Unit * s = Unit * q1 + Unit * q2 + Unit * q3
  BY <1>4, <1>8, <1>9
<1>11. /\ 2 * (Unit * s) <= 2 * (p1 + p2 + p3) + 3 * Unit
       /\ 2 * (p1 + p2 + p3) <= 2 * (Unit * s) + 3 * Unit
  <2>1. PICK u1, u2, u3 : u1 = Unit * q1 /\ u2 = Unit * q2 /\ u3 = Unit * q3
    OBVIOUS
  <2>2. u1 \in Nat /\ u2 \in Nat /\ u3 \in Nat
    BY <1>2, <1>4, <1>8, <2>1
  <2> QED
    BY <1>3, <1>4, <1>8, <1>10, <2>1, <2>2
<1>12. line = IF s > MaxMicros THEN Null ELSE s
  BY <1>4, <1>5, <1>6, <1>7, <1>8, <1>9 DEF CheckedAdd
<1>13. s > MaxMicros => 2 * (Unit * MaxMicros) + 2 * Unit <= 2 * (Unit * s)
  <2>1. \A k \in Nat : k > MaxMicros => Unit * (MaxMicros + 1) <= Unit * k
    BY <1>4
  <2>2. Unit * (MaxMicros + 1) = Unit * MaxMicros + Unit
    BY <1>4
  <2>3. Unit * MaxMicros \in Nat /\ Unit * s \in Nat
    BY <1>2, <1>4, <1>10
  <2> QED
    BY <1>4, <1>10, <2>1, <2>2, <2>3
<1>14. Unit * MaxMicros \in Nat /\ Unit * s \in Nat
  BY <1>2, <1>4, <1>10
<1>15. /\ p1 + p2 + p3 \in Nat
       /\ line = Null => 2 * (Unit * MaxMicros) + 2 * Unit <= 2 * (p1 + p2 + p3) + 3 * Unit
       /\ line # Null => /\ line \in Nat
                         /\ 2 * (Unit * line) <= 2 * (p1 + p2 + p3) + 3 * Unit
                         /\ 2 * (p1 + p2 + p3) <= 2 * (Unit * line) + 3 * Unit
  BY <1>3, <1>4, <1>10, <1>11, <1>12, <1>13, <1>14
<1> QED
  BY <1>15, Zenon DEF line, p1, p2, p3

-----------------------------------------------------------------------------
\* The columns of a row that is charged for: each count it needs is there, and the
\* prices are those of its group.
LEMMA PricedRow ==
    ASSUME RowsTyped, NEW g \in Groups, NEW i \in Priced(g)
    PROVE  /\ i \in DOMAIN rows /\ rows[i].prices = g[2]
           /\ g[2].input \in Nat /\ g[2].cached \in Nat /\ g[2].output \in Nat /\ g[2] # Null
           /\ rows[i].input # Null /\ rows[i].output # Null
           /\ NeedsCachedCount(g[2]) => rows[i].cached # Null
           /\ Column("input")[i] \in Nat /\ Column("cached")[i] \in Nat
           /\ Column("output")[i] \in Nat
           /\ Column("cached")[i] <= Column("input")[i]
           /\ Exact(i) = (Column("input")[i] - Column("cached")[i]) * g[2].input
                             + Column("cached")[i] * g[2].cached
                             + Column("output")[i] * g[2].output
<1>1. /\ i \in DOMAIN rows /\ Billable(rows[i])
      /\ <<rows[i].model, rows[i].prices>> = g
  BY DEF Priced, Members
<1>2. rows[i].prices = g[2]
  BY <1>1
<1>3. /\ rows[i].input # Null /\ rows[i].output # Null /\ rows[i].prices # Null
      /\ rows[i].prices.cached = rows[i].prices.input \/ rows[i].cached # Null
      /\ Known(rows[i].cached) <= rows[i].input
  BY <1>1, Zenon DEF Billable
<1>4. rows[i] \in Row
  BY <1>1, RowsIndexed
<1>5. g[2] \in [input : Prices, cached : Prices, output : Prices]
  BY <1>2, <1>3, <1>4 DEF Row, Snapshot
<1>6. g[2].input \in Nat /\ g[2].cached \in Nat /\ g[2].output \in Nat /\ g[2] # Null
  BY <1>2, <1>3, <1>5, PricingNat
<1>7. NeedsCachedCount(g[2]) => rows[i].cached # Null
  BY <1>2, <1>3, Zenon DEF NeedsCachedCount
<1>8. /\ Column("input")[i] \in Nat /\ Column("cached")[i] \in Nat
      /\ Column("output")[i] \in Nat
      /\ Column("input")[i] = rows[i].input /\ Column("output")[i] = rows[i].output
  BY <1>1, <1>3, CountsTyped DEF TokenColumns
<1>9. Column("cached")[i] = Known(rows[i].cached)
  BY <1>1 DEF Column
<1>10. Exact(i) = (Column("input")[i] - Column("cached")[i]) * g[2].input
                      + Column("cached")[i] * g[2].cached
                      + Column("output")[i] * g[2].output
  BY <1>2, <1>8, <1>9, Zenon DEF Exact
<1> QED
  BY <1>1, <1>2, <1>3, <1>6, <1>7, <1>8, <1>9, <1>10, Zenon

\* The exact cost of a group, as a sum of the rows' costs.
Costs == [i \in DOMAIN rows |-> Exact(i)]

LEMMA CostsSummed ==
    ASSUME RowsTyped, NEW S, S \subseteq DOMAIN rows, \A i \in S : Costs[i] \in Int
    PROVE  MapThenSumSet(Exact, S) = Sum(Costs, S)
<1> DEFINE Takes(h) ==
        h = [s \in SUBSET S |-> IF s = {} THEN 0 ELSE Exact(Picked(s)) + h[s \ {Picked(s)}]]
           iter == CHOOSE iter : Takes(iter)
<1>1. MapThenSumSet(Exact, S) = iter[S]
  BY DEF MapThenSumSet, MapThenFoldSet, Picked
<1>2. IsFiniteSet(S)
  BY RowsIndexed, FS_Subset
<1>3. PICK h : Adds(h, Costs, S) /\ Sum(Costs, S) = h[S]
  BY <1>2, SumAdds
<1>4. \A k : Takes(k) <=> Adds(k, Costs, S)
  <2> SUFFICES ASSUME NEW k PROVE Takes(k) <=> Adds(k, Costs, S)
    OBVIOUS
  <2>1. \A s \in SUBSET S : s # {} => Costs[Picked(s)] = Exact(Picked(s))
    BY PickedIn DEF Costs
  <2>2. \A s \in SUBSET S :
          (IF s = {} THEN 0 ELSE Exact(Picked(s)) + k[s \ {Picked(s)}])
            = (IF s = {} THEN 0 ELSE Costs[Picked(s)] + k[s \ {Picked(s)}])
    BY <2>1
  <2>3. [s \in SUBSET S |-> IF s = {} THEN 0 ELSE Exact(Picked(s)) + k[s \ {Picked(s)}]]
          = [s \in SUBSET S |-> IF s = {} THEN 0 ELSE Costs[Picked(s)] + k[s \ {Picked(s)}]]
    BY <2>2, Zenon
  <2> QED
    BY <2>3, Zenon DEF Adds
<1>5. Takes(iter)
  BY <1>3, <1>4
<1> HIDE DEF iter, Takes
<1>6. Adds(iter, Costs, S)
  BY <1>4, <1>5
<1>7. iter[S] = h[S]
  BY <1>2, <1>3, <1>6, AddsAgree
<1> QED
  BY <1>1, <1>3, <1>7

\* The query adds up columns first and the line prices the sums: since the rows of a
\* group have one price snapshot that is their cost, and the sums are priced as the rows
\* would be.
LEMMA GroupSums ==
    ASSUME RowsTyped, NEW g \in Groups, Priced(g) # {}
    PROVE  LET input  == Sum(Column("input"), Priced(g))
               cached == Sum(Column("cached"), Priced(g))
               output == Sum(Column("output"), Priced(g))
           IN  /\ input \in Nat /\ cached \in Nat /\ output \in Nat /\ cached <= input
               /\ g[2].input \in Nat /\ g[2].cached \in Nat /\ g[2].output \in Nat
               /\ LineFor(UsageGroup(g)) = PriceLine(input, cached, output, g[2])
               /\ MapThenSumSet(Exact, Priced(g))
                    = (input - cached) * g[2].input + cached * g[2].cached
                          + output * g[2].output
<1> DEFINE S == Priced(g)
           I == Column("input")
           K == Column("cached")
           O == Column("output")
           input  == Sum(I, S)
           cached == Sum(K, S)
           output == Sum(O, S)
           pi == g[2].input
           pk == g[2].cached
           po == g[2].output
<1>1. S \subseteq DOMAIN rows /\ IsFiniteSet(S)
  BY GroupsFinite
<1>2. /\ input \in Nat /\ cached \in Nat /\ output \in Nat
      /\ Known(SumOf(S, "input")) = input /\ Known(SumOf(S, "cached")) = cached
      /\ Known(SumOf(S, "output")) = output
  BY <1>1, ColumnSummed DEF TokenColumns
<1>3. PICK i \in S : TRUE
  OBVIOUS
<1>4. pi \in Nat /\ pk \in Nat /\ po \in Nat /\ g[2] # Null
  BY <1>3, PricedRow
<1>5. /\ SumOf(S, "input") # Null /\ SumOf(S, "output") # Null
      /\ NeedsCachedCount(g[2]) => SumOf(S, "cached") # Null
  <2>1. /\ rows[i].input # Null /\ rows[i].output # Null
        /\ NeedsCachedCount(g[2]) => rows[i].cached # Null
    BY <1>3, PricedRow
  <2> HIDE DEF S
  <2>2. rows[i]["input"] # Null /\ rows[i]["output"] # Null
        /\ (NeedsCachedCount(g[2]) => rows[i]["cached"] # Null)
    BY <2>1
  <2> QED
    BY <1>1, <1>3, <2>2, ColumnSummed DEF TokenColumns
<1>6. SumOf(S, "input") = input /\ SumOf(S, "output") = output
  BY <1>2, <1>5, Zenon DEF Known
<1>7. UsageGroup(g) =
        [prices |-> g[2], count |-> Cardinality(S), input |-> SumOf(S, "input"),
         cached |-> SumOf(S, "cached"), output |-> SumOf(S, "output"),
         incomplete |-> Cardinality(Members(g) \ S)]
  BY Zenon DEF UsageGroup, Priced
<1>8. LineFor(UsageGroup(g)) = PriceLine(input, cached, output, g[2])
  <2> HIDE DEF S, input, cached, output
  <2>1. PICK u : u = UsageGroup(g)
    OBVIOUS
  <2>2. /\ u.prices = g[2] /\ u.input = input /\ u.output = output
        /\ u.cached = SumOf(S, "cached")
    BY <1>6, <1>7, <2>1
  <2>3. /\ u.prices # Null /\ u.input # Null /\ u.output # Null
        /\ ~(NeedsCachedCount(u.prices) /\ u.cached = Null)
    BY <1>4, <1>5, <1>6, <2>2, Zenon
  <2>4. LineFor(u) = PriceLine(u.input, Known(u.cached), u.output, u.prices)
    BY <2>3, Zenon DEF LineFor
  <2> QED
    BY <1>2, <2>1, <2>2, <2>4, Zenon
<1>9. \A j \in S : /\ I[j] \in Nat /\ K[j] \in Nat /\ O[j] \in Nat /\ K[j] <= I[j]
                   /\ Costs[j] = (I[j] - K[j]) * pi + K[j] * pk + O[j] * po
  BY <1>1, PricedRow, Zenon DEF Costs
<1> HIDE DEF I, K, O, pi, pk, po
<1>10. \A j \in S : I[j] \in Int /\ K[j] \in Int /\ O[j] \in Int
  BY <1>9
<1>11. cached <= input
  <2> HIDE DEF S
  <2> QED
    BY <1>1, <1>9, <1>10, SumOrdered
<1>12. Sum(Costs, S) = (input - cached) * pi + cached * pk + output * po
  <2>0. PICK one, neg \in Int : one = 1 /\ neg = -1
    OBVIOUS
  <2> DEFINE D == [j \in S |-> one * I[j] + neg * K[j]]
             X == [j \in S |-> pi * D[j] + pk * K[j]]
  <2> HIDE DEF S
  <2>1. \A j \in S : D[j] \in Int /\ D[j] = one * I[j] + neg * K[j] /\ D[j] = I[j] - K[j]
    BY <1>10, <2>0
  <2>2. Sum(D, S) = one * Sum(I, S) + neg * Sum(K, S)
    <3> HIDE DEF D
    <3> QED
      BY <1>1, <1>10, <2>1, SumCombine
  <2> HIDE DEF D
  <2>3. pi \in Int /\ pk \in Int /\ po \in Int
    BY <1>4
  <2>4. \A j \in S : X[j] \in Int /\ X[j] = pi * D[j] + pk * K[j]
    BY <1>10, <2>1, <2>3
  <2>5. Sum(X, S) = pi * Sum(D, S) + pk * Sum(K, S)
    <3> HIDE DEF X
    <3> QED
      BY <1>1, <1>10, <2>1, <2>3, <2>4, SumCombine
  <2> HIDE DEF X
  <2>6. \A j \in S : Costs[j] = one * X[j] + po * O[j]
    <3>1. \A d, k, o \in Int : d * pi + k * pk + o * po = one * (pi * d + pk * k) + po * o
      BY <2>0, <2>3
    <3> SUFFICES ASSUME NEW j \in S PROVE Costs[j] = one * X[j] + po * O[j]
      OBVIOUS
    <3>2. Costs[j] = D[j] * pi + K[j] * pk + O[j] * po
      BY <1>9, <2>1, Zenon
    <3>3. D[j] \in Int /\ K[j] \in Int /\ O[j] \in Int /\ X[j] = pi * D[j] + pk * K[j]
      BY <1>10, <2>1, <2>4
    <3> QED
      BY <3>1, <3>2, <3>3
  <2>7. Sum(Costs, S) = one * Sum(X, S) + po * Sum(O, S)
    BY <1>1, <1>10, <2>3, <2>4, <2>6, SumCombine
  <2>8. \A a, b, c \in Int : one * (pi * (one * a + neg * b) + pk * b) + po * c
                               = (a - b) * pi + b * pk + c * po
    BY <2>0, <2>3
  <2>9. input \in Int /\ cached \in Int /\ output \in Int
    BY <1>2
  <2>10. Sum(Costs, S) = one * (pi * (one * input + neg * cached) + pk * cached) + po * output
    BY <2>2, <2>5, <2>7, Zenon
  <2> QED
    BY <2>8, <2>9, <2>10
<1>13. MapThenSumSet(Exact, S) = Sum(Costs, S)
  <2>1. \A j \in S : Costs[j] \in Int
    <3>1. \A a, b, c \in Int : (a - b) * pi + b * pk + c * po \in Int
      BY <1>4
    <3> SUFFICES ASSUME NEW j \in S PROVE Costs[j] \in Int
      OBVIOUS
    <3>2. I[j] \in Int /\ K[j] \in Int /\ O[j] \in Int
      BY <1>10
    <3>3. Costs[j] = (I[j] - K[j]) * pi + K[j] * pk + O[j] * po
      BY <1>9
    <3> QED
      BY <3>1, <3>2, <3>3
  <2> HIDE DEF S
  <2> QED
    BY <1>1, <2>1, CostsSummed
<1> QED
  BY <1>2, <1>4, <1>8, <1>11, <1>12, <1>13, Zenon DEF I, K, O, pi, pk, po

-----------------------------------------------------------------------------
\* Of every group: its number of requests that are charged for and of those that are
\* not, its line, and what its requests cost exactly.
Numbers == [g \in Groups |-> UsageGroup(g).count]
Lacking == [g \in Groups |-> UsageGroup(g).incomplete
                                 + IF g \in Charged THEN 0 ELSE UsageGroup(g).count]
Lines == [g \in Groups |-> LineFor(UsageGroup(g))]
Worth == [g \in Groups |-> MapThenSumSet(Exact, {i \in Members(g) : Billable(rows[i])})]

\* The statement's sums over the groups, as sums of these.
LEMMA NumbersSummed ==
    ASSUME RowsTyped, NEW S, S \subseteq Groups, \A g \in S : Numbers[g] \in Int
    PROVE  MapThenSumSet(LAMBDA g : UsageGroup(g).count, S) = Sum(Numbers, S)
<1> DEFINE Value(g) == UsageGroup(g).count
           Takes(h) ==
        h = [s \in SUBSET S |-> IF s = {} THEN 0 ELSE Value(Picked(s)) + h[s \ {Picked(s)}]]
           iter == CHOOSE iter : Takes(iter)
<1>1. MapThenSumSet(LAMBDA g : UsageGroup(g).count, S) = iter[S]
  BY DEF MapThenSumSet, MapThenFoldSet, Picked
<1>2. \A g \in S : Numbers[g] = Value(g)
  BY DEF Numbers
<1> HIDE DEF Value
<1>3. IsFiniteSet(S)
  BY GroupsFinite, FS_Subset
<1>4. PICK h : Adds(h, Numbers, S) /\ Sum(Numbers, S) = h[S]
  BY <1>3, SumAdds
<1>5. \A k : Takes(k) <=> Adds(k, Numbers, S)
  <2> SUFFICES ASSUME NEW k PROVE Takes(k) <=> Adds(k, Numbers, S)
    OBVIOUS
  <2>1. \A s \in SUBSET S : s # {} => Numbers[Picked(s)] = Value(Picked(s))
    BY <1>2, PickedIn
  <2>2. \A s \in SUBSET S :
          (IF s = {} THEN 0 ELSE Value(Picked(s)) + k[s \ {Picked(s)}])
            = (IF s = {} THEN 0 ELSE Numbers[Picked(s)] + k[s \ {Picked(s)}])
    BY <2>1
  <2>3. [s \in SUBSET S |-> IF s = {} THEN 0 ELSE Value(Picked(s)) + k[s \ {Picked(s)}]]
          = [s \in SUBSET S |-> IF s = {} THEN 0 ELSE Numbers[Picked(s)] + k[s \ {Picked(s)}]]
    BY <2>2, Zenon
  <2> QED
    BY <2>3, Zenon DEF Adds
<1>6. Takes(iter)
  BY <1>4, <1>5
<1> HIDE DEF iter, Takes
<1>7. iter[S] = h[S]
  BY <1>3, <1>4, <1>5, <1>6, AddsAgree
<1> QED
  BY <1>1, <1>4, <1>7

LEMMA LackingSummed ==
    ASSUME RowsTyped, NEW S, S \subseteq Groups, \A g \in S : Lacking[g] \in Int
    PROVE  MapThenSumSet(LAMBDA g : LET group == UsageGroup(g)
                         IN group.incomplete + IF g \in Charged THEN 0 ELSE group.count,
                 S) = Sum(Lacking, S)
<1> DEFINE Value(g) == LET group == UsageGroup(g)
                         IN group.incomplete + IF g \in Charged THEN 0 ELSE group.count
           Takes(h) ==
        h = [s \in SUBSET S |-> IF s = {} THEN 0 ELSE Value(Picked(s)) + h[s \ {Picked(s)}]]
           iter == CHOOSE iter : Takes(iter)
<1>1. MapThenSumSet(LAMBDA g : LET group == UsageGroup(g)
                         IN group.incomplete + IF g \in Charged THEN 0 ELSE group.count,
                 S) = iter[S]
  BY DEF MapThenSumSet, MapThenFoldSet, Picked
<1>2. \A g \in S : Lacking[g] = Value(g)
  BY DEF Lacking
<1> HIDE DEF Value
<1>3. IsFiniteSet(S)
  BY GroupsFinite, FS_Subset
<1>4. PICK h : Adds(h, Lacking, S) /\ Sum(Lacking, S) = h[S]
  BY <1>3, SumAdds
<1>5. \A k : Takes(k) <=> Adds(k, Lacking, S)
  <2> SUFFICES ASSUME NEW k PROVE Takes(k) <=> Adds(k, Lacking, S)
    OBVIOUS
  <2>1. \A s \in SUBSET S : s # {} => Lacking[Picked(s)] = Value(Picked(s))
    BY <1>2, PickedIn
  <2>2. \A s \in SUBSET S :
          (IF s = {} THEN 0 ELSE Value(Picked(s)) + k[s \ {Picked(s)}])
            = (IF s = {} THEN 0 ELSE Lacking[Picked(s)] + k[s \ {Picked(s)}])
    BY <2>1
  <2>3. [s \in SUBSET S |-> IF s = {} THEN 0 ELSE Value(Picked(s)) + k[s \ {Picked(s)}]]
          = [s \in SUBSET S |-> IF s = {} THEN 0 ELSE Lacking[Picked(s)] + k[s \ {Picked(s)}]]
    BY <2>2, Zenon
  <2> QED
    BY <2>3, Zenon DEF Adds
<1>6. Takes(iter)
  BY <1>4, <1>5
<1> HIDE DEF iter, Takes
<1>7. iter[S] = h[S]
  BY <1>3, <1>4, <1>5, <1>6, AddsAgree
<1> QED
  BY <1>1, <1>4, <1>7

LEMMA LinesSummed ==
    ASSUME RowsTyped, NEW S, S \subseteq Groups, \A g \in S : Lines[g] \in Int
    PROVE  MapThenSumSet(LAMBDA g : LineFor(UsageGroup(g)), S) = Sum(Lines, S)
<1> DEFINE Value(g) == LineFor(UsageGroup(g))
           Takes(h) ==
        h = [s \in SUBSET S |-> IF s = {} THEN 0 ELSE Value(Picked(s)) + h[s \ {Picked(s)}]]
           iter == CHOOSE iter : Takes(iter)
<1>1. MapThenSumSet(LAMBDA g : LineFor(UsageGroup(g)), S) = iter[S]
  BY DEF MapThenSumSet, MapThenFoldSet, Picked
<1>2. \A g \in S : Lines[g] = Value(g)
  BY DEF Lines
<1> HIDE DEF Value
<1>3. IsFiniteSet(S)
  BY GroupsFinite, FS_Subset
<1>4. PICK h : Adds(h, Lines, S) /\ Sum(Lines, S) = h[S]
  BY <1>3, SumAdds
<1>5. \A k : Takes(k) <=> Adds(k, Lines, S)
  <2> SUFFICES ASSUME NEW k PROVE Takes(k) <=> Adds(k, Lines, S)
    OBVIOUS
  <2>1. \A s \in SUBSET S : s # {} => Lines[Picked(s)] = Value(Picked(s))
    BY <1>2, PickedIn
  <2>2. \A s \in SUBSET S :
          (IF s = {} THEN 0 ELSE Value(Picked(s)) + k[s \ {Picked(s)}])
            = (IF s = {} THEN 0 ELSE Lines[Picked(s)] + k[s \ {Picked(s)}])
    BY <2>1
  <2>3. [s \in SUBSET S |-> IF s = {} THEN 0 ELSE Value(Picked(s)) + k[s \ {Picked(s)}]]
          = [s \in SUBSET S |-> IF s = {} THEN 0 ELSE Lines[Picked(s)] + k[s \ {Picked(s)}]]
    BY <2>2, Zenon
  <2> QED
    BY <2>3, Zenon DEF Adds
<1>6. Takes(iter)
  BY <1>4, <1>5
<1> HIDE DEF iter, Takes
<1>7. iter[S] = h[S]
  BY <1>3, <1>4, <1>5, <1>6, AddsAgree
<1> QED
  BY <1>1, <1>4, <1>7

LEMMA WorthSummed ==
    ASSUME RowsTyped, NEW S, S \subseteq Groups, \A g \in S : Worth[g] \in Int
    PROVE  MapThenSumSet(LAMBDA g : MapThenSumSet(Exact, {i \in Members(g) : Billable(rows[i])}),
                 S) = Sum(Worth, S)
<1> DEFINE Value(g) == MapThenSumSet(Exact, {i \in Members(g) : Billable(rows[i])})
           Takes(h) ==
        h = [s \in SUBSET S |-> IF s = {} THEN 0 ELSE Value(Picked(s)) + h[s \ {Picked(s)}]]
           iter == CHOOSE iter : Takes(iter)
<1>1. MapThenSumSet(LAMBDA g : MapThenSumSet(Exact, {i \in Members(g) : Billable(rows[i])}),
                 S) = iter[S]
  BY DEF MapThenSumSet, MapThenFoldSet, Picked
<1>2. \A g \in S : Worth[g] = Value(g)
  BY DEF Worth
<1> HIDE DEF Value
<1>3. IsFiniteSet(S)
  BY GroupsFinite, FS_Subset
<1>4. PICK h : Adds(h, Worth, S) /\ Sum(Worth, S) = h[S]
  BY <1>3, SumAdds
<1>5. \A k : Takes(k) <=> Adds(k, Worth, S)
  <2> SUFFICES ASSUME NEW k PROVE Takes(k) <=> Adds(k, Worth, S)
    OBVIOUS
  <2>1. \A s \in SUBSET S : s # {} => Worth[Picked(s)] = Value(Picked(s))
    BY <1>2, PickedIn
  <2>2. \A s \in SUBSET S :
          (IF s = {} THEN 0 ELSE Value(Picked(s)) + k[s \ {Picked(s)}])
            = (IF s = {} THEN 0 ELSE Worth[Picked(s)] + k[s \ {Picked(s)}])
    BY <2>1
  <2>3. [s \in SUBSET S |-> IF s = {} THEN 0 ELSE Value(Picked(s)) + k[s \ {Picked(s)}]]
          = [s \in SUBSET S |-> IF s = {} THEN 0 ELSE Worth[Picked(s)] + k[s \ {Picked(s)}]]
    BY <2>2, Zenon
  <2> QED
    BY <2>3, Zenon DEF Adds
<1>6. Takes(iter)
  BY <1>4, <1>5
<1> HIDE DEF iter, Takes
<1>7. iter[S] = h[S]
  BY <1>3, <1>4, <1>5, <1>6, AddsAgree
<1> QED
  BY <1>1, <1>4, <1>7

-----------------------------------------------------------------------------
LEMMA GroupCounts ==
    ASSUME RowsTyped, NEW g \in Groups
    PROVE  /\ UsageGroup(g).count = Cardinality(Priced(g)) /\ UsageGroup(g).count \in Nat
           /\ UsageGroup(g).incomplete \in Nat
           /\ UsageGroup(g).count + UsageGroup(g).incomplete = Cardinality(Members(g))
           /\ UsageGroup(g).count > 0 <=> Priced(g) # {}
<1>1. /\ UsageGroup(g).count = Cardinality(Priced(g))
      /\ UsageGroup(g).incomplete = Cardinality(Members(g) \ Priced(g))
  BY DEF UsageGroup, Priced
<1>2. /\ IsFiniteSet(Priced(g)) /\ IsFiniteSet(Members(g)) /\ Priced(g) \subseteq Members(g)
  BY GroupsFinite
<1>3. /\ IsFiniteSet(Members(g) \ Priced(g))
      /\ Cardinality(Members(g) \ Priced(g))
           = Cardinality(Members(g)) - Cardinality(Members(g) \cap Priced(g))
  BY <1>2, FS_Difference
<1>4. Members(g) \cap Priced(g) = Priced(g)
  BY <1>2
<1>5. /\ Cardinality(Priced(g)) \in Nat /\ Cardinality(Members(g)) \in Nat
      /\ Cardinality(Members(g) \ Priced(g)) \in Nat
  BY <1>2, <1>3, FS_CardinalityType
<1>6. Cardinality(Priced(g)) = 0 <=> Priced(g) = {}
  BY <1>2, FS_EmptySet
<1>7. PICK c, m, n : /\ c = Cardinality(Priced(g)) /\ m = Cardinality(Members(g))
                     /\ n = Cardinality(Members(g) \ Priced(g))
  OBVIOUS
<1>8. n = m - c
  BY <1>3, <1>4, <1>7, Zenon
<1>9. c \in Nat /\ m \in Nat /\ n \in Nat
  BY <1>5, <1>7, Zenon
<1>10. c + n = m /\ (c > 0 <=> c # 0)
  BY <1>8, <1>9
<1> QED
  BY <1>1, <1>6, <1>7, <1>9, <1>10, Zenon

\* The line of a group that has something to charge.
LEMMA LineFair ==
    ASSUME RowsTyped, NEW g \in Groups, UsageGroup(g).count > 0
    PROVE  /\ Worth[g] \in Nat
           /\ Lines[g] = Null => 2 * (Unit * MaxMicros) + 2 * Unit <= 2 * Worth[g] + 3 * Unit
           /\ Lines[g] # Null => /\ Lines[g] \in Nat
                                 /\ 2 * (Unit * Lines[g]) <= 2 * Worth[g] + 3 * Unit
                                 /\ 2 * Worth[g] <= 2 * (Unit * Lines[g]) + 3 * Unit
<1> DEFINE input  == Sum(Column("input"), Priced(g))
           cached == Sum(Column("cached"), Priced(g))
           output == Sum(Column("output"), Priced(g))
<1>1. Priced(g) # {}
  BY GroupCounts
<1>2. /\ input \in Nat /\ cached \in Nat /\ output \in Nat /\ cached <= input
      /\ g[2].input \in Nat /\ g[2].cached \in Nat /\ g[2].output \in Nat
      /\ LineFor(UsageGroup(g)) = PriceLine(input, cached, output, g[2])
      /\ MapThenSumSet(Exact, Priced(g))
           = (input - cached) * g[2].input + cached * g[2].cached + output * g[2].output
  BY <1>1, GroupSums
<1>3. Lines[g] = PriceLine(input, cached, output, g[2])
  BY <1>2, Zenon DEF Lines
<1>4. Worth[g] = (input - cached) * g[2].input + cached * g[2].cached + output * g[2].output
  BY <1>2, Zenon DEF Worth, Priced
<1> HIDE DEF input, cached, output
<1>5. PICK prices : prices = g[2]
  OBVIOUS
<1>6. LET line == PriceLine(input, cached, output, prices)
          cost == (input - cached) * prices.input + cached * prices.cached
                      + output * prices.output
      IN  /\ cost \in Nat
          /\ line = Null => 2 * (Unit * MaxMicros) + 2 * Unit <= 2 * cost + 3 * Unit
          /\ line # Null => /\ line \in Nat
                            /\ 2 * (Unit * line) <= 2 * cost + 3 * Unit
                            /\ 2 * cost <= 2 * (Unit * line) + 3 * Unit
  BY <1>2, <1>5, PriceLineFair, Zenon
<1> QED
  BY <1>3, <1>4, <1>5, <1>6, Zenon

LEMMA RowsStated == ASSUME RowsTyped PROVE EveryRowStated
<1> DEFINE A == [g \in Groups |-> IF g \in Charged THEN Numbers[g] ELSE 0]
           M == [g \in Groups |-> Cardinality(Members(g))]
           rest == Groups \ Charged
<1>1. /\ IsFiniteSet(Groups) /\ Charged \subseteq Groups /\ IsFiniteSet(Charged)
      /\ IsFiniteSet(rest) /\ Charged \cup rest = Groups /\ Charged \cap rest = {}
  <2>1. IsFiniteSet(Groups) /\ Charged \subseteq Groups
    BY GroupsFinite DEF Charged
  <2> QED
    BY <2>1, FS_Subset
<1>2. \A g \in Groups :
        /\ Numbers[g] \in Nat /\ Lacking[g] \in Nat /\ A[g] \in Nat
        /\ A[g] + Lacking[g] = Cardinality(Members(g))
        /\ Numbers[g] \in Int /\ Lacking[g] \in Int /\ A[g] \in Int
  <2> SUFFICES ASSUME NEW g \in Groups
               PROVE  /\ Numbers[g] \in Nat /\ Lacking[g] \in Nat /\ A[g] \in Nat
                      /\ A[g] + Lacking[g] = Cardinality(Members(g))
    <3> HIDE DEF A
    <3> QED
      OBVIOUS
  <2>1. PICK c, n : c = UsageGroup(g).count /\ n = UsageGroup(g).incomplete
    OBVIOUS
  <2>2. c \in Nat /\ n \in Nat /\ c + n = Cardinality(Members(g))
    BY <2>1, GroupCounts
  <2>3. /\ Numbers[g] = c /\ Lacking[g] = n + (IF g \in Charged THEN 0 ELSE c)
        /\ A[g] = IF g \in Charged THEN c ELSE 0
    BY <2>1 DEF Numbers, Lacking
  <2> HIDE DEF A
  <2> QED
    BY <2>2, <2>3
<1>3. Sum(Numbers, Charged) = Sum(A, Groups)
  <2>1. \A g \in Charged : Numbers[g] \in Int /\ Numbers[g] = A[g]
    BY <1>1, <1>2
  <2>2. \A g \in rest : A[g] = 0
    OBVIOUS
  <2>3. \A g \in Charged \cup rest : A[g] \in Int
    BY <1>1, <1>2
  <2> HIDE DEF A, rest
  <2>4. Sum(Numbers, Charged) = Sum(A, Charged)
    BY <1>1, <2>1, SumSame
  <2>5. Sum(A, rest) = 0
    BY <1>1, <2>2, SumZero
  <2>6. Sum(A, Groups) = Sum(A, Charged) + Sum(A, rest)
    BY <1>1, <2>3, SumUnion
  <2>7. Sum(A, Charged) \in Int
    BY <1>1, <2>3, SumInt
  <2> QED
    BY <2>4, <2>5, <2>6, <2>7
<1>4. Sum(M, Groups) = Sum(A, Groups) + Sum(Lacking, Groups)
  <2>1. PICK one \in Int : one = 1
    OBVIOUS
  <2>2. \A g \in Groups : M[g] = one * A[g] + one * Lacking[g]
    <3> SUFFICES ASSUME NEW g \in Groups PROVE M[g] = one * A[g] + one * Lacking[g]
      OBVIOUS
    <3>1. A[g] \in Int /\ Lacking[g] \in Int /\ M[g] = A[g] + Lacking[g]
      BY <1>2
    <3> HIDE DEF A, M
    <3> QED
      BY <2>1, <3>1
  <2> HIDE DEF A, M
  <2>3. Sum(M, Groups) = one * Sum(A, Groups) + one * Sum(Lacking, Groups)
    BY <1>1, <1>2, <2>2, SumCombine
  <2>4. Sum(A, Groups) \in Int /\ Sum(Lacking, Groups) \in Int
    BY <1>1, <1>2, SumInt
  <2> QED
    BY <2>1, <2>3, <2>4
<1>5. Sum(M, Groups) = Len(rows)
  <2> DEFINE P == [g \in Groups |-> Members(g)]
  <2>1. /\ \A g \in Groups : IsFiniteSet(P[g])
        /\ \A g \in Groups : M[g] = Cardinality(P[g])
    BY GroupsFinite
  <2>2. \A g, h \in Groups : g # h => P[g] \cap P[h] = {}
    BY DEF Members
  <2>3. DOMAIN rows = UNION {P[g] : g \in Groups}
    <3>1. ASSUME NEW i \in DOMAIN rows PROVE i \in UNION {P[g] : g \in Groups}
      <4>1. PICK g : g = <<rows[i].model, rows[i].prices>>
        OBVIOUS
      <4>2. g \in Groups /\ i \in Members(g)
        BY <4>1 DEF Groups, Members
      <4> QED
        BY <4>2
    <3>2. ASSUME NEW i \in UNION {P[g] : g \in Groups} PROVE i \in DOMAIN rows
      BY DEF Members
    <3> QED
      BY <3>1, <3>2
  <2> HIDE DEF M, P
  <2>4. Sum(M, Groups) = Cardinality(DOMAIN rows)
    BY <1>1, <2>1, <2>2, <2>3, SumParts
  <2> QED
    BY <2>4, RowsIndexed
<1>6. MapThenSumSet(LAMBDA g : UsageGroup(g).count, Charged) = Sum(Numbers, Charged)
  BY <1>1, <1>2, NumbersSummed
<1>7. Incomplete = Sum(Lacking, Groups)
  BY <1>2, LackingSummed DEF Incomplete
<1>8. MapThenSumSet(LAMBDA g : UsageGroup(g).count, Charged) + Incomplete = Len(rows)
  BY <1>3, <1>4, <1>5, <1>6, <1>7, Zenon
<1>9. ASSUME NEW g \in Groups, UsageGroup(g).count > 0, g \notin Charged
      PROVE  MapThenSumSet(Exact, {i \in Members(g) : Billable(rows[i])}) + 2 * Unit
               > Unit * MaxMicros
  <2>1. Lines[g] = Null
    BY <1>9 DEF Charged, Lines
  <2>2. Worth[g] \in Nat /\ 2 * (Unit * MaxMicros) + 2 * Unit <= 2 * Worth[g] + 3 * Unit
    BY <1>9, <2>1, LineFair
  <2>3. Unit \in Nat /\ Unit > 0 /\ Unit * MaxMicros \in Nat
    BY PricingNat
  <2>4. Worth[g] + 2 * Unit > Unit * MaxMicros
    BY <2>2, <2>3
  <2> QED
    BY <2>4, Zenon DEF Worth
<1> QED
  BY <1>8, <1>9, Zenon DEF EveryRowStated

LEMMA SumFair ==
    ASSUME RowsTyped
    PROVE  LET line == Sum(Lines, Charged)
               exact == Sum(Worth, Charged)
               slack == 3 * Unit * Cardinality(Charged)
           IN  /\ line \in Int /\ exact \in Int /\ slack \in Int
               /\ 2 * (Unit * line) - 2 * exact <= slack
               /\ 2 * exact - 2 * (Unit * line) <= slack
               /\ MapThenSumSet(LAMBDA g : LineFor(UsageGroup(g)), Charged) = line
               /\ MapThenSumSet(LAMBDA g : MapThenSumSet(Exact,
                      {i \in Members(g) : Billable(rows[i])}), Charged) = exact
<1> DEFINE line == Sum(Lines, Charged)
           exact == Sum(Worth, Charged)
           n == Cardinality(Charged)
<1>1. Charged \subseteq Groups /\ IsFiniteSet(Charged)
  BY GroupsFinite, FS_Subset DEF Charged
<1>2. n \in Nat
  BY <1>1, FS_CardinalityType
<1>3. \A g \in Charged : /\ Lines[g] \in Int /\ Worth[g] \in Int
                         /\ 2 * (Unit * Lines[g]) <= 2 * Worth[g] + 3 * Unit
                         /\ 2 * Worth[g] <= 2 * (Unit * Lines[g]) + 3 * Unit
  <2> SUFFICES ASSUME NEW g \in Charged
               PROVE  /\ Lines[g] \in Int /\ Worth[g] \in Int
                      /\ 2 * (Unit * Lines[g]) <= 2 * Worth[g] + 3 * Unit
                      /\ 2 * Worth[g] <= 2 * (Unit * Lines[g]) + 3 * Unit
    OBVIOUS
  <2>1. g \in Groups /\ UsageGroup(g).count > 0 /\ Lines[g] # Null
    BY DEF Charged, Lines
  <2> QED
    BY <2>1, LineFair
<1>4. line \in Int /\ exact \in Int
  BY <1>1, <1>3, SumInt
<1>5. Unit \in Nat
  BY PricingNat
<1>6. PICK a, b, c, d, e \in Int :
        a = 2 * Unit /\ b = -2 /\ c = -(2 * Unit) /\ d = 2 /\ e = 3 * Unit
  BY <1>5
<1> DEFINE H == [g \in Charged |-> a * Lines[g] + b * Worth[g]]
           L == [g \in Charged |-> c * Lines[g] + d * Worth[g]]
<1>7. \A g \in Charged : /\ H[g] = a * Lines[g] + b * Worth[g] /\ H[g] \in Int
                         /\ L[g] = c * Lines[g] + d * Worth[g] /\ L[g] \in Int
  BY <1>3
<1>8. \A g \in Charged : H[g] <= e /\ L[g] <= e
  <2>1. \A x, y \in Int : /\ a * x + b * y = 2 * (Unit * x) - 2 * y
                          /\ c * x + d * y = 2 * y - 2 * (Unit * x)
                          /\ Unit * x \in Int
    BY <1>5, <1>6
  <2> SUFFICES ASSUME NEW g \in Charged PROVE H[g] <= e /\ L[g] <= e
    OBVIOUS
  <2>2. PICK x, y, u : x = Lines[g] /\ y = Worth[g] /\ u = Unit * x
    OBVIOUS
  <2>3. x \in Int /\ y \in Int /\ u \in Int /\ H[g] = 2 * u - 2 * y /\ L[g] = 2 * y - 2 * u
    BY <1>3, <1>7, <2>1, <2>2
  <2>4. 2 * u <= 2 * y + e /\ 2 * y <= 2 * u + e
    BY <1>3, <1>6, <2>2
  <2> HIDE DEF H, L
  <2> QED
    BY <2>3, <2>4
<1> HIDE DEF H, L, line, exact
<1>9. Sum(H, Charged) = a * line + b * exact /\ Sum(L, Charged) = c * line + d * exact
  <2>1. \A g \in Charged : /\ Lines[g] \in Int /\ Worth[g] \in Int
                           /\ H[g] = a * Lines[g] + b * Worth[g]
    BY <1>3, <1>7, Zenon
  <2>2. \A g \in Charged : /\ Lines[g] \in Int /\ Worth[g] \in Int
                           /\ L[g] = c * Lines[g] + d * Worth[g]
    BY <1>3, <1>7, Zenon
  <2>3. Sum(H, Charged) = a * Sum(Lines, Charged) + b * Sum(Worth, Charged)
    BY <1>1, <2>1, SumCombine
  <2>4. Sum(L, Charged) = c * Sum(Lines, Charged) + d * Sum(Worth, Charged)
    BY <1>1, <2>2, SumCombine
  <2> QED
    BY <2>3, <2>4, Zenon DEF line, exact
<1>10. Sum(H, Charged) <= e * n /\ Sum(L, Charged) <= e * n
  BY <1>1, <1>7, <1>8, SumBounded
<1>11. /\ a * line + b * exact = 2 * (Unit * line) - 2 * exact
       /\ c * line + d * exact = 2 * exact - 2 * (Unit * line)
  BY <1>4, <1>5, <1>6
<1>12. e * n = 3 * Unit * n /\ 3 * Unit * n \in Int
  BY <1>2, <1>5, <1>6
<1>13. MapThenSumSet(LAMBDA g : LineFor(UsageGroup(g)), Charged) = line
  BY <1>1, <1>3, LinesSummed DEF line
<1>14. MapThenSumSet(LAMBDA g : MapThenSumSet(Exact,
          {i \in Members(g) : Billable(rows[i])}), Charged) = exact
  BY <1>1, <1>3, WorthSummed DEF exact
<1> QED
  BY <1>4, <1>9, <1>10, <1>11, <1>12, <1>13, <1>14, Zenon DEF line, exact

LEMMA TotalIsFair == ASSUME RowsTyped PROVE TotalFair
<1> DEFINE line == Sum(Lines, Charged)
           exact == Sum(Worth, Charged)
           slack == 3 * Unit * Cardinality(Charged)
<1>1. /\ line \in Int /\ exact \in Int /\ slack \in Int
      /\ 2 * (Unit * line) - 2 * exact <= slack
      /\ 2 * exact - 2 * (Unit * line) <= slack
      /\ MapThenSumSet(LAMBDA g : LineFor(UsageGroup(g)), Charged) = line
      /\ MapThenSumSet(LAMBDA g : MapThenSumSet(Exact,
             {i \in Members(g) : Billable(rows[i])}), Charged) = exact
  BY SumFair, Zenon
<1>2. Total = IF line > MaxMicros THEN Null ELSE line
  BY <1>1, Zenon DEF Total
<1>3. TotalFair <=> IF Total = Null THEN 2 * exact + slack > 2 * Unit * MaxMicros
                    ELSE /\ 2 * (Unit * Total - exact) <= slack
                         /\ 2 * (exact - Unit * Total) <= slack
  BY <1>1, Zenon DEF TotalFair
<1> HIDE DEF line, exact, slack
<1>4. Unit \in Nat /\ Unit > 0 /\ MaxMicros \in Nat /\ Null \notin Int
  BY PricingNat
<1>5. PICK u, m : u = Unit * line /\ m = Unit * MaxMicros
  OBVIOUS
<1>6. u \in Int /\ m \in Int /\ 2 * Unit * MaxMicros = 2 * m
  BY <1>1, <1>4, <1>5
<1>7. 2 * u - 2 * exact <= slack /\ 2 * exact - 2 * u <= slack
  BY <1>1, <1>5
<1>8. CASE line > MaxMicros
  <2>1. \A x \in Int : x > MaxMicros => Unit * x > Unit * MaxMicros
    BY <1>4
  <2>2. u > m
    BY <1>1, <1>5, <1>8, <2>1
  <2>3. 2 * exact + slack > 2 * Unit * MaxMicros
    BY <1>1, <1>6, <1>7, <2>2
  <2> QED
    BY <1>2, <1>3, <1>8, <2>3, Zenon
<1>9. CASE ~(line > MaxMicros)
  <2>1. Total = line /\ Total # Null
    BY <1>1, <1>2, <1>4, <1>9
  <2>2. 2 * (u - exact) <= slack /\ 2 * (exact - u) <= slack
    BY <1>1, <1>6, <1>7
  <2> QED
    BY <1>3, <1>5, <2>1, <2>2, Zenon
<1> QED
  BY <1>8, <1>9

LEMMA RowsAlwaysTyped == PricingSpec => []RowsTyped
<1>1. PricingInit => RowsTyped
  BY DEF PricingInit, RowsTyped
<1>2. RowsTyped /\ [PricingNext]_rows => RowsTyped'
  BY DEF RowsTyped, PricingNext, Arrive
<1> QED
  BY <1>1, <1>2, PTL DEF PricingSpec

\* Every request of a day is on a charged line or in the incomplete count, once, and a
\* group of billable requests is refused only when its amount is out of range
\* (usage_groups, line_for), for any number of requests, models and prices.
THEOREM EveryRequestStated == PricingSpec => []EveryRowStated
BY RowsStated, RowsAlwaysTyped, PTL

\* The total is off by half a micro-dollar for each component of each line at most, and
\* refused only when it is out of range (price_line, StatementDraft::total).
THEOREM TotalsAreFair == PricingSpec => []TotalFair
BY TotalIsFair, RowsAlwaysTyped, PTL

-----------------------------------------------------------------------------
(* Dashboard: what a browser has not read it is going to be told of.            *)

StreamType == [at : Instances \cup {NoInstance}, unread : Nat, told : BOOLEAN, wire : Nat,
               since : Int]
PageType == [change : 0..1, watched : 0..1, loads : 0..MaxLoads, read : Nat, failed : Nat]

\* Of the commits since a stream was opened, up to V, one that the page p has not read
\* is one that the poller, which has seen l of them, has still to notice, or an event
\* or a read is under way, or the last read under way was made with it and failed.
Awaited(s, p, l, V) ==
    \A v \in Int : s.since < v /\ v <= V =>
        \/ p.read >= v \/ p.failed >= v \/ l < v
        \/ s.unread > 0 \/ s.wire > 0 \/ p.loads > 0

\* No change is lost to a browser whose stream stays open, unless by a read that failed.
NoChangeLost ==
    \A c \in Clients :
        Connected(c) => Awaited(stream[c], page[c], last[stream[c].at], Version)

\* No poller is ahead of the ledger, and no stream outlives its process.
PollersBehind == \A i \in Instances : last[i] <= Version
StreamsServed == \A c \in Clients : Connected(c) => life[stream[c].at] # "down"

EventsInv == EventsTypeOK /\ PollersBehind /\ StreamsServed /\ NoChangeLost

LEMMA CommitsSummed ==
    ASSUME NEW f PROVE CommitsOf(f) = Sum(f, Instances)
BY DEF CommitsOf, Sum

LEMMA VersionNat ==
    ASSUME commits \in [Instances -> Nat] PROVE Version \in Nat
<1>1. PICK F : F = commits
  OBVIOUS
<1>2. IsFiniteSet(Instances) /\ \A x \in Instances : F[x] \in Int /\ 0 <= F[x]
  BY <1>1, DashboardBounds
<1>3. Version = Sum(F, Instances)
  BY <1>1, CommitsSummed DEF Version
<1> DEFINE Z == [x \in Instances |-> 0]
<1>4. Sum(Z, Instances) <= Sum(F, Instances)
  <2>1. \A x \in Instances : Z[x] \in Int /\ F[x] \in Int /\ Z[x] <= F[x]
    BY <1>2
  <2> HIDE DEF Z
  <2> QED
    BY <1>2, <2>1, SumOrdered
<1>5. Sum(Z, Instances) = 0
  <2>1. \A x \in Instances : Z[x] = 0
    OBVIOUS
  <2> HIDE DEF Z
  <2> QED
    BY <1>2, <2>1, SumZero
<1>6. Sum(F, Instances) \in Int
  BY <1>2, SumInt
<1> QED
  BY <1>3, <1>4, <1>5, <1>6

LEMMA VersionCommit ==
    ASSUME NEW F \in [Instances -> Nat], NEW i \in Instances, NEW G,
           G = [F EXCEPT ![i] = @ + 1]
    PROVE  Sum(G, Instances) = Sum(F, Instances) + 1
<1>1. IsFiniteSet(Instances) /\ IsFiniteSet(Instances \ {i})
  BY DashboardBounds, Smaller
<1>2. \A x \in Instances : F[x] \in Int /\ G[x] \in Int
  OBVIOUS
<1>3. G[i] = F[i] + 1 /\ \A x \in Instances \ {i} : F[x] \in Int /\ F[x] = G[x]
  OBVIOUS
<1>4. /\ Sum(F, Instances) = F[i] + Sum(F, Instances \ {i})
      /\ Sum(F, Instances \ {i}) \in Int
  BY <1>1, <1>2, SumRemove
<1>5. Sum(G, Instances) = G[i] + Sum(G, Instances \ {i})
  BY <1>1, <1>2, SumRemove
<1>6. Sum(F, Instances \ {i}) = Sum(G, Instances \ {i})
  BY <1>1, <1>3, SumSame
<1> QED
  BY <1>2, <1>3, <1>4, <1>5, <1>6

LEMMA EventsInitHolds == EventsInit => EventsInv
<1> SUFFICES ASSUME EventsInit PROVE EventsInv
  OBVIOUS
<1>1. EventsTypeOK
  BY DashboardBounds DEF EventsInit, EventsTypeOK, Closed, IdlePage
<1>2. Version \in Nat
  BY <1>1, VersionNat DEF EventsTypeOK
<1>3. PollersBehind
  BY <1>2 DEF EventsInit, PollersBehind
<1>4. \A c \in Clients : ~Connected(c)
  BY DEF EventsInit, Connected, Closed
<1> QED
  BY <1>1, <1>3, <1>4 DEF EventsInv, StreamsServed, NoChangeLost

LEMMA EventsFacts ==
    ASSUME EventsInv
    PROVE  /\ commits \in [Instances -> Nat] /\ Version \in Nat /\ last \in [Instances -> Int]
           /\ \A i \in Instances : last[i] \in Int /\ last[i] <= Version
           /\ life \in [Instances -> {"up", "grace", "stopping", "down"}]
           /\ stream \in [Clients -> StreamType] /\ page \in [Clients -> PageType]
           /\ stops \in 0..MaxStops /\ faults \in 0..MaxFaults
<1>1. /\ commits \in [Instances -> Nat] /\ last \in [Instances -> Int]
      /\ life \in [Instances -> {"up", "grace", "stopping", "down"}]
      /\ stream \in [Clients -> StreamType] /\ page \in [Clients -> PageType]
      /\ stops \in 0..MaxStops /\ faults \in 0..MaxFaults
  BY DEF EventsInv, EventsTypeOK, StreamType, PageType
<1>2. Version \in Nat
  BY <1>1, VersionNat
<1> QED
  BY <1>1, <1>2 DEF EventsInv, PollersBehind

\* A step that commits nothing.
LEMMA VersionSame ==
    ASSUME UNCHANGED commits PROVE Version' = Version
BY DEF Version

LEMMA EventsTyped ==
    ASSUME commits' \in [Instances -> Nat], last' \in [Instances -> Int],
           life' \in [Instances -> {"up", "grace", "stopping", "down"}],
           stream' \in [Clients -> StreamType], page' \in [Clients -> PageType],
           stops' \in 0..MaxStops, faults' \in 0..MaxFaults
    PROVE  EventsTypeOK'
BY DEF EventsTypeOK, StreamType, PageType

LEMMA CommitKeepsEvents ==
    ASSUME EventsInv, NEW i \in Instances, Commit(i) PROVE EventsInv'
<1>1. /\ commits' = [commits EXCEPT ![i] = @ + 1]
      /\ UNCHANGED <<last, life, stream, page, stops, faults>>
  BY DEF Commit
<1>2. /\ commits \in [Instances -> Nat] /\ Version \in Nat /\ last \in [Instances -> Int]
      /\ \A x \in Instances : last[x] \in Int /\ last[x] <= Version
      /\ stream \in [Clients -> StreamType]
  BY EventsFacts
<1>3. commits' \in [Instances -> Nat]
  BY <1>1, <1>2
<1>4. Version' = Version + 1
  <2>1. PICK F : F = commits
    OBVIOUS
  <2>2. PICK G : G = commits'
    OBVIOUS
  <2>3. Sum(G, Instances) = Sum(F, Instances) + 1
    BY <1>1, <1>2, <2>1, <2>2, VersionCommit
  <2>4. Version = Sum(F, Instances) /\ Version' = Sum(G, Instances)
    BY <2>1, <2>2, CommitsSummed DEF Version
  <2> QED
    BY <2>3, <2>4
<1>5. EventsTypeOK'
  BY <1>1, <1>3 DEF EventsInv, EventsTypeOK
<1>6. PollersBehind' /\ StreamsServed'
  BY <1>1, <1>2, <1>4 DEF PollersBehind, StreamsServed, EventsInv, Connected
<1>7. NoChangeLost'
  <2> SUFFICES ASSUME NEW c \in Clients, Connected(c)
               PROVE  Awaited(stream[c], page[c], last[stream[c].at], Version + 1)
    BY <1>1, <1>4 DEF NoChangeLost, Connected
  <2>1. PICK l : l = last[stream[c].at]
    OBVIOUS
  <2>2. stream[c].at \in Instances
    BY <1>2 DEF Connected, StreamType
  <2>3. l \in Int /\ l <= Version
    BY <1>2, <2>1, <2>2
  <2>4. Awaited(stream[c], page[c], l, Version)
    BY <2>1 DEF EventsInv, NoChangeLost
  <2>5. Awaited(stream[c], page[c], l, Version + 1)
    BY <1>2, <2>3, <2>4 DEF Awaited
  <2> QED
    BY <2>1, <2>5
<1> QED
  BY <1>5, <1>6, <1>7 DEF EventsInv

\* A step of a process that announces: what is open at it has an event to deliver.
LEMMA AnnounceKeeps ==
    ASSUME EventsInv, NEW i \in Instances, life[i] # "down", NEW l \in Int, l <= Version,
           last' = [last EXCEPT ![i] = l], Announce(i), UNCHANGED <<commits, life, page,
                                                                    stops>>,
           faults' \in 0..MaxFaults
    PROVE  EventsInv'
<1>1. stream' = [c \in Clients |-> IF stream[c].at = i
                                   THEN [stream[c] EXCEPT !.unread = @ + 1] ELSE stream[c]]
  BY DEF Announce
<1>2. /\ commits \in [Instances -> Nat] /\ Version \in Nat /\ last \in [Instances -> Int]
      /\ \A x \in Instances : last[x] \in Int /\ last[x] <= Version
      /\ stream \in [Clients -> StreamType] /\ page \in [Clients -> PageType]
      /\ life \in [Instances -> {"up", "grace", "stopping", "down"}] /\ stops \in 0..MaxStops
  BY EventsFacts
<1>3. Version' = Version
  BY VersionSame
<1>4. ASSUME NEW c \in Clients
      PROVE  /\ stream'[c] \in StreamType /\ stream'[c].at = stream[c].at
             /\ stream[c].at = i => stream'[c].unread > 0
             /\ stream[c].at # i => stream'[c] = stream[c]
  <2>1. stream[c] \in StreamType
    BY <1>2
  <2>2. [stream[c] EXCEPT !.unread = @ + 1] \in StreamType
        /\ [stream[c] EXCEPT !.unread = @ + 1].at = stream[c].at
        /\ [stream[c] EXCEPT !.unread = @ + 1].unread > 0
    BY <2>1 DEF StreamType
  <2>3. stream'[c] = IF stream[c].at = i THEN [stream[c] EXCEPT !.unread = @ + 1] ELSE stream[c]
    BY <1>1
  <2> QED
    BY <2>1, <2>2, <2>3
<1>5. stream' \in [Clients -> StreamType] /\ last' \in [Instances -> Int]
  <2>1. DOMAIN stream' = Clients /\ stream' = [c \in Clients |-> stream'[c]]
    BY <1>1
  <2> QED
    BY <1>2, <1>4, <2>1
<1>6. EventsTypeOK'
  BY <1>2, <1>5, EventsTyped
<1>7. PollersBehind' /\ StreamsServed'
  BY <1>2, <1>3, <1>4 DEF PollersBehind, StreamsServed, EventsInv, Connected
<1>8. NoChangeLost'
  <2> SUFFICES ASSUME NEW c \in Clients, Connected(c)'
               PROVE  Awaited(stream'[c], page[c], last'[stream'[c].at], Version)
    BY <1>3 DEF NoChangeLost
  <2>1. stream[c].at \in Instances /\ Connected(c)
    BY <1>2, <1>4 DEF Connected, StreamType
  <2>2. CASE stream[c].at = i
    BY <1>4, <2>2 DEF Awaited
  <2>3. CASE stream[c].at # i
    <3>1. stream'[c] = stream[c] /\ last'[stream[c].at] = last[stream[c].at]
      BY <1>2, <1>4, <2>1, <2>3
    <3> QED
      BY <2>1, <3>1 DEF EventsInv, NoChangeLost
  <2> QED
    BY <2>2, <2>3
<1> QED
  BY <1>6, <1>7, <1>8 DEF EventsInv

LEMMA PollKeeps ==
    ASSUME EventsInv, NEW i \in Instances, Poll(i) \/ PollFails(i) PROVE EventsInv'
<1>1. Version \in Nat /\ faults \in 0..MaxFaults
  BY EventsFacts
<1>2. CASE Poll(i)
  <2>1. /\ life[i] # "down" /\ last' = [last EXCEPT ![i] = Version] /\ Announce(i)
        /\ UNCHANGED <<commits, life, page, stops>> /\ faults' \in 0..MaxFaults
    BY <1>1, <1>2 DEF Poll, DataVersion
  <2>2. Version \in Int /\ Version <= Version
    BY <1>1
  <2> QED
    BY <2>1, <2>2, AnnounceKeeps
<1>3. CASE PollFails(i)
  <2>1. /\ life[i] # "down" /\ last' = [last EXCEPT ![i] = -1] /\ Announce(i)
        /\ UNCHANGED <<commits, life, page, stops>> /\ faults' \in 0..MaxFaults
    BY <1>1, <1>3, DashboardBounds DEF PollFails
  <2>2. -1 \in Int /\ -1 <= Version
    BY <1>1
  <2> QED
    BY <2>1, <2>2, AnnounceKeeps
<1> QED
  BY <1>2, <1>3

\* A step at most the life of a process changes in, not to "down" and not from it.
LEMMA LifeKeeps ==
    ASSUME EventsInv, UNCHANGED <<commits, last, stream, page, faults>>, stops' \in 0..MaxStops,
           life' \in [Instances -> {"up", "grace", "stopping", "down"}],
           \A i \in Instances : life'[i] = "down" => life[i] = "down"
    PROVE  EventsInv'
<1>1. /\ commits \in [Instances -> Nat] /\ last \in [Instances -> Int]
      /\ stream \in [Clients -> StreamType] /\ page \in [Clients -> PageType]
      /\ faults \in 0..MaxFaults
  BY EventsFacts
<1>2. Version' = Version
  BY VersionSame
<1>3. EventsTypeOK'
  BY <1>1, EventsTyped
<1>4. \A c \in Clients : Connected(c) => stream[c].at \in Instances
  BY <1>1 DEF Connected, StreamType
<1>5. PollersBehind' /\ StreamsServed'
  BY <1>2, <1>4 DEF PollersBehind, StreamsServed, EventsInv, Connected
<1>6. NoChangeLost'
  BY <1>2 DEF EventsInv, NoChangeLost, Connected
<1> QED
  BY <1>3, <1>5, <1>6 DEF EventsInv

LEMMA TerminateKeeps ==
    ASSUME EventsInv, NEW i \in Instances, Terminate(i) \/ EndGrace(i) PROVE EventsInv'
<1>1. life \in [Instances -> {"up", "grace", "stopping", "down"}] /\ stops \in 0..MaxStops
  BY EventsFacts
<1>2. UNCHANGED <<commits, last, stream, page, faults>>
  BY DEF Terminate, EndGrace
<1>3. stops' \in 0..MaxStops
  BY <1>1, DashboardBounds DEF Terminate, EndGrace
<1>4. /\ life' \in [Instances -> {"up", "grace", "stopping", "down"}]
      /\ \A x \in Instances : life'[x] = "down" => life[x] = "down"
  BY <1>1 DEF Terminate, EndGrace
<1> QED
  BY <1>2, <1>3, <1>4, LifeKeeps

\* A process ends, or starts: nothing is open at it afterwards, whatever its poller saw.
LEMMA BoundaryKeeps ==
    ASSUME EventsInv, NEW i \in Instances, NEW l \in Int, l <= Version, NEW new,
           new \in {"up", "down"},
           last' = [last EXCEPT ![i] = l], life' = [life EXCEPT ![i] = new],
           UNCHANGED <<commits, page, stops, faults>>,
           stream' \in [Clients -> StreamType],
           \A c \in Clients : Connected(c)' =>
               stream'[c] = stream[c] /\ Connected(c) /\ stream[c].at # i
    PROVE  EventsInv'
<1>1. /\ commits \in [Instances -> Nat] /\ Version \in Nat /\ last \in [Instances -> Int]
      /\ \A x \in Instances : last[x] \in Int /\ last[x] <= Version
      /\ stream \in [Clients -> StreamType] /\ page \in [Clients -> PageType]
      /\ life \in [Instances -> {"up", "grace", "stopping", "down"}]
      /\ stops \in 0..MaxStops /\ faults \in 0..MaxFaults
  BY EventsFacts
<1>2. Version' = Version
  BY VersionSame
<1>3. last' \in [Instances -> Int] /\ life' \in [Instances -> {"up", "grace", "stopping", "down"}]
  BY <1>1
<1>4. EventsTypeOK'
  BY <1>1, <1>3, EventsTyped
<1>5. PollersBehind'
  BY <1>1, <1>2 DEF PollersBehind
<1>6. ASSUME NEW c \in Clients, Connected(c)'
      PROVE  /\ stream'[c] = stream[c] /\ Connected(c) /\ stream[c].at \in Instances
             /\ last'[stream[c].at] = last[stream[c].at]
             /\ life'[stream[c].at] = life[stream[c].at]
  <2>1. stream'[c] = stream[c] /\ Connected(c) /\ stream[c].at # i
    BY <1>6
  <2>2. stream[c].at \in Instances
    BY <1>1, <2>1 DEF Connected, StreamType
  <2> QED
    BY <1>1, <2>1, <2>2
<1>7. StreamsServed'
  <2> SUFFICES ASSUME NEW c \in Clients, Connected(c)' PROVE life'[stream'[c].at] # "down"
    BY DEF StreamsServed
  <2> QED
    BY <1>6 DEF EventsInv, StreamsServed
<1>8. NoChangeLost'
  <2> SUFFICES ASSUME NEW c \in Clients, Connected(c)'
               PROVE  Awaited(stream'[c], page[c], last'[stream'[c].at], Version)
    BY <1>2 DEF NoChangeLost
  <2>1. Awaited(stream[c], page[c], last[stream[c].at], Version)
    BY <1>6 DEF EventsInv, NoChangeLost
  <2> QED
    BY <1>6, <2>1
<1> QED
  BY <1>4, <1>5, <1>7, <1>8 DEF EventsInv

LEMMA ClosedTyped == Closed \in StreamType /\ Closed.at = NoInstance
BY DEF Closed, StreamType

LEMMA StopKeeps ==
    ASSUME EventsInv, NEW i \in Instances, Stopped(i) \/ DrainExpires(i) \/ StartAgain(i)
    PROVE  EventsInv'
<1>1. Version \in Nat /\ stream \in [Clients -> StreamType]
  BY EventsFacts
<1>2. \A c \in Clients : Connected(c) => life[stream[c].at] # "down"
  BY DEF EventsInv, StreamsServed
<1>3. CASE Stopped(i)
  <2>1. /\ last' = [last EXCEPT ![i] = 0] /\ life' = [life EXCEPT ![i] = "down"]
        /\ OpenAt(i) = {} /\ UNCHANGED <<commits, stream, page, stops, faults>>
    BY <1>3 DEF Stopped
  <2>2. \A c \in Clients : Connected(c)' =>
            stream'[c] = stream[c] /\ Connected(c) /\ stream[c].at # i
    BY <2>1 DEF OpenAt, Connected
  <2>3. 0 \in Int /\ 0 <= Version /\ stream' \in [Clients -> StreamType]
    BY <1>1, <2>1
  <2> QED
    BY <2>1, <2>2, <2>3, BoundaryKeeps
<1>4. CASE DrainExpires(i)
  <2>1. /\ last' = [last EXCEPT ![i] = 0] /\ life' = [life EXCEPT ![i] = "down"]
        /\ stream' = [c \in Clients |-> IF c \in OpenAt(i) THEN Closed ELSE stream[c]]
        /\ UNCHANGED <<commits, page, stops, faults>>
    BY <1>4 DEF DrainExpires
  <2>2. \A c \in Clients : Connected(c)' =>
            stream'[c] = stream[c] /\ Connected(c) /\ stream[c].at # i
    BY <2>1, ClosedTyped DEF OpenAt, Connected
  <2>3. 0 \in Int /\ 0 <= Version /\ stream' \in [Clients -> StreamType]
    BY <1>1, <2>1, ClosedTyped
  <2> QED
    BY <2>1, <2>2, <2>3, BoundaryKeeps
<1>5. CASE StartAgain(i)
  <2>1. /\ last' = [last EXCEPT ![i] = Version] /\ life' = [life EXCEPT ![i] = "up"]
        /\ life[i] = "down" /\ UNCHANGED <<commits, stream, page, stops, faults>>
    BY <1>5 DEF StartAgain, FirstReading, DataVersion
  <2>2. \A c \in Clients : Connected(c)' =>
            stream'[c] = stream[c] /\ Connected(c) /\ stream[c].at # i
    BY <1>2, <2>1 DEF Connected
  <2>3. Version \in Int /\ Version <= Version /\ stream' \in [Clients -> StreamType]
    BY <1>1, <2>1
  <2> QED
    BY <2>1, <2>2, <2>3, BoundaryKeeps
<1> QED
  BY <1>3, <1>4, <1>5

\* A step of one browser, or of its stream.
LEMMA ClientKeeps ==
    ASSUME EventsInv, NEW c \in Clients, UNCHANGED <<commits, last, life, stops>>,
           faults' \in 0..MaxFaults, NEW s \in StreamType, NEW p \in PageType,
           stream' = [stream EXCEPT ![c] = s], page' = [page EXCEPT ![c] = p],
           s.at # NoInstance =>
               life[s.at] # "down" /\ Awaited(s, p, last[s.at], Version)
    PROVE  EventsInv'
<1>1. /\ commits \in [Instances -> Nat] /\ last \in [Instances -> Int]
      /\ stream \in [Clients -> StreamType] /\ page \in [Clients -> PageType]
      /\ life \in [Instances -> {"up", "grace", "stopping", "down"}] /\ stops \in 0..MaxStops
  BY EventsFacts
<1>2. Version' = Version
  BY VersionSame
<1>3. stream' \in [Clients -> StreamType] /\ page' \in [Clients -> PageType]
  BY <1>1
<1>4. EventsTypeOK'
  BY <1>1, <1>3, EventsTyped
<1>5. PollersBehind'
  BY <1>2 DEF PollersBehind, EventsInv
<1>6. /\ stream'[c] = s /\ page'[c] = p
      /\ \A d \in Clients : d # c => stream'[d] = stream[d] /\ page'[d] = page[d]
  BY <1>1
<1>7. StreamsServed'
  <2> SUFFICES ASSUME NEW d \in Clients, Connected(d)' PROVE life[stream'[d].at] # "down"
    BY DEF StreamsServed
  <2> QED
    BY <1>6 DEF Connected, EventsInv, StreamsServed
<1>8. NoChangeLost'
  <2> SUFFICES ASSUME NEW d \in Clients, Connected(d)'
               PROVE  Awaited(stream'[d], page'[d], last[stream'[d].at], Version)
    BY <1>2 DEF NoChangeLost
  <2>1. CASE d = c
    BY <1>6, <2>1 DEF Connected
  <2>2. CASE d # c
    BY <1>6, <2>2 DEF Connected, EventsInv, NoChangeLost
  <2> QED
    BY <2>1, <2>2
<1> QED
  BY <1>4, <1>5, <1>7, <1>8 DEF EventsInv

LEMMA DeliverKeeps ==
    ASSUME EventsInv, NEW c \in Clients, Deliver(c) PROVE EventsInv'
<1>1. stream \in [Clients -> StreamType] /\ page \in [Clients -> PageType]
      /\ faults \in 0..MaxFaults /\ stream[c] \in StreamType
  BY EventsFacts
<1>2. PICK u : u = IF stream[c].unread > Buffer THEN Buffer ELSE stream[c].unread - 1
  OBVIOUS
<1>3. u \in Nat
  BY <1>1, <1>2, DashboardBounds DEF Deliver, StreamType
<1>4. PICK s : s = [[stream[c] EXCEPT !.wire = @ + 1] EXCEPT !.unread = u]
  OBVIOUS
<1>5. s \in StreamType /\ s.at = stream[c].at /\ s.wire > 0
  <2>1. PICK r : r = [stream[c] EXCEPT !.wire = @ + 1]
    OBVIOUS
  <2>2. r \in StreamType /\ r.at = stream[c].at /\ r.wire > 0
    BY <1>1, <2>1 DEF StreamType
  <2>3. s = [r EXCEPT !.unread = u]
    BY <1>4, <2>1
  <2> QED
    BY <1>3, <2>2, <2>3 DEF StreamType
<1>6. stream' = [stream EXCEPT ![c] = s]
  BY <1>1, <1>2, <1>4 DEF Deliver, StreamType
<1>7. PICK p : p = page[c]
  OBVIOUS
<1>8. p \in PageType /\ page' = [page EXCEPT ![c] = p]
  BY <1>1, <1>7 DEF Deliver
<1>9. s.at # NoInstance => life[s.at] # "down" /\ Awaited(s, p, last[s.at], Version)
  BY <1>5 DEF EventsInv, StreamsServed, Connected, Awaited
<1>10. UNCHANGED <<commits, last, life, stops>> /\ faults' \in 0..MaxFaults
  BY <1>1 DEF Deliver
<1> QED
  BY <1>5, <1>6, <1>8, <1>9, <1>10, ClientKeeps

LEMMA CloseKeeps ==
    ASSUME EventsInv, NEW c \in Clients, EndStream(c) \/ Disconnect(c) PROVE EventsInv'
<1>1. page \in [Clients -> PageType] /\ faults \in 0..MaxFaults
  BY EventsFacts
<1>2. PICK p : p = page[c]
  OBVIOUS
<1>3. p \in PageType /\ page' = [page EXCEPT ![c] = p]
  BY <1>1, <1>2 DEF EndStream, Disconnect
<1>4. stream' = [stream EXCEPT ![c] = Closed] /\ UNCHANGED <<commits, last, life, stops>>
  BY DEF EndStream, Disconnect
<1>5. faults' \in 0..MaxFaults
  BY <1>1, DashboardBounds DEF EndStream, Disconnect
<1> QED
  BY <1>3, <1>4, <1>5, ClosedTyped, ClientKeeps

\* A read more under way: something is.
LEMMA MoreLoads ==
    ASSUME NEW n \in 0..MaxLoads PROVE More(n) \in 0..MaxLoads /\ More(n) > 0
<1>1. n + 1 \in Int /\ MaxLoads \in Int /\ MaxLoads > 0
  BY DashboardBounds
<1>2. More(n) = IF n + 1 <= MaxLoads THEN n + 1 ELSE MaxLoads
  BY <1>1, MinOfTwo DEF More
<1> QED
  BY <1>1, <1>2

LEMMA HandleFrameKeeps ==
    ASSUME EventsInv, NEW c \in Clients, HandleFrame(c) PROVE EventsInv'
<1>1. stream \in [Clients -> StreamType] /\ page \in [Clients -> PageType]
      /\ faults \in 0..MaxFaults /\ stream[c] \in StreamType /\ page[c] \in PageType
  BY EventsFacts
<1>2. PICK s : s = [stream[c] EXCEPT !.wire = @ - 1]
  OBVIOUS
<1>3. s \in StreamType /\ s.at = stream[c].at
  BY <1>1, <1>2 DEF HandleFrame, StreamType
<1>4. stream' = [stream EXCEPT ![c] = s]
  BY <1>1, <1>2 DEF HandleFrame
<1>5. PICK n : n = More(page[c].loads)
  OBVIOUS
<1>6. n \in 0..MaxLoads /\ n > 0
  BY <1>1, <1>5, MoreLoads DEF PageType
<1>7. PICK x : x = IF c \in Usage THEN 1 - page[c].change ELSE page[c].change
  OBVIOUS
<1>8. x \in 0..1
  BY <1>1, <1>7 DEF PageType
<1>9. PICK r : r = [page[c] EXCEPT !.loads = n]
  OBVIOUS
<1>10. r \in PageType /\ r.loads = n /\ r.change = page[c].change
  BY <1>1, <1>6, <1>9 DEF PageType
<1>11. PICK p : p = [r EXCEPT !.change = x]
  OBVIOUS
<1>12. p \in PageType /\ p.loads > 0
  BY <1>6, <1>8, <1>10, <1>11 DEF PageType
<1>13. page' = [page EXCEPT ![c] = p]
  BY <1>1, <1>5, <1>7, <1>9, <1>11 DEF HandleFrame, PageType
<1>14. s.at # NoInstance => life[s.at] # "down" /\ Awaited(s, p, last[s.at], Version)
  BY <1>3, <1>12 DEF EventsInv, StreamsServed, Connected, Awaited
<1>15. UNCHANGED <<commits, last, life, stops>> /\ faults' \in 0..MaxFaults
  BY <1>1 DEF HandleFrame
<1> QED
  BY <1>3, <1>4, <1>12, <1>13, <1>14, <1>15, ClientKeeps

LEMMA WatchJobKeeps ==
    ASSUME EventsInv, NEW c \in Clients, WatchJob(c) PROVE EventsInv'
<1>1. stream \in [Clients -> StreamType] /\ page \in [Clients -> PageType]
      /\ faults \in 0..MaxFaults /\ stream[c] \in StreamType /\ page[c] \in PageType
  BY EventsFacts
<1>2. PICK s : s = stream[c]
  OBVIOUS
<1>3. stream' = [stream EXCEPT ![c] = s]
  BY <1>1, <1>2 DEF WatchJob
<1>4. PICK n : n = More(page[c].loads)
  OBVIOUS
<1>5. n \in 0..MaxLoads /\ n > 0
  BY <1>1, <1>4, MoreLoads DEF PageType
<1>6. PICK q : q = [page[c] EXCEPT !.watched = page[c].change]
  OBVIOUS
<1>7. q \in PageType /\ q.change = page[c].change /\ q.loads = page[c].loads
  BY <1>1, <1>6 DEF PageType
<1>8. PICK r : r = [q EXCEPT !.change = 1 - @]
  OBVIOUS
<1>9. r \in PageType /\ r.loads = page[c].loads
  BY <1>7, <1>8 DEF PageType
<1>10. PICK p : p = [r EXCEPT !.loads = n]
  OBVIOUS
<1>11. p \in PageType /\ p.loads > 0
  BY <1>5, <1>9, <1>10 DEF PageType
<1>12. page' = [page EXCEPT ![c] = p]
  BY <1>1, <1>4, <1>6, <1>7, <1>8, <1>9, <1>10 DEF WatchJob, PageType
<1>13. s.at # NoInstance => life[s.at] # "down" /\ Awaited(s, p, last[s.at], Version)
  BY <1>2, <1>11 DEF EventsInv, StreamsServed, Connected, Awaited
<1>14. UNCHANGED <<commits, last, life, stops>> /\ faults' \in 0..MaxFaults
  BY <1>1 DEF WatchJob
<1> QED
  BY <1>1, <1>2, <1>3, <1>11, <1>12, <1>13, <1>14, ClientKeeps

LEMMA ConnectKeeps ==
    ASSUME EventsInv, NEW c \in Clients, NEW i \in Instances, Connect(c, i) PROVE EventsInv'
<1>1. /\ page \in [Clients -> PageType] /\ faults \in 0..MaxFaults /\ last[i] \in Int
  BY EventsFacts
<1>2. PICK y : y = (life[i] # "stopping")
  OBVIOUS
<1>3. PICK s : s = [Closed EXCEPT !.at = i, !.since = last[i], !.told = y]
  OBVIOUS
<1>4. s \in StreamType /\ s.at = i /\ s.since = last[i]
  BY <1>1, <1>2, <1>3 DEF StreamType, Closed
<1>5. PICK p : p = page[c]
  OBVIOUS
<1>6. p \in PageType /\ page' = [page EXCEPT ![c] = p]
  BY <1>1, <1>5 DEF Connect
<1>7. /\ stream' = [stream EXCEPT ![c] = s] /\ life[i] # "down"
      /\ UNCHANGED <<commits, last, life, stops>> /\ faults' \in 0..MaxFaults
  BY <1>1, <1>2, <1>3 DEF Connect
<1>8. Awaited(s, p, last[s.at], Version)
  BY <1>4 DEF Awaited
<1> QED
  BY <1>4, <1>6, <1>7, <1>8, ClientKeeps

LEMMA AnswerKeeps ==
    ASSUME EventsInv, NEW c \in Clients, NEW i \in Instances, Answer(c, i) PROVE EventsInv'
<1>1. stream \in [Clients -> StreamType] /\ page \in [Clients -> PageType]
      /\ faults \in 0..MaxFaults /\ stream[c] \in StreamType /\ page[c] \in PageType
      /\ Version \in Nat
  BY EventsFacts
<1>2. PICK s : s = stream[c]
  OBVIOUS
<1>3. stream' = [stream EXCEPT ![c] = s]
  BY <1>1, <1>2 DEF Answer
<1>4. PICK r : r = [page[c] EXCEPT !.loads = @ - 1]
  OBVIOUS
<1>5. r \in PageType
  <2>1. page[c].loads \in 0..MaxLoads /\ page[c].loads > 0
    BY <1>1 DEF PageType, Answer
  <2>2. page[c].loads - 1 \in 0..MaxLoads
    BY <2>1, DashboardBounds
  <2> QED
    BY <1>1, <1>4, <2>2 DEF PageType
<1>6. PICK p : p = [r EXCEPT !.read = Version]
  OBVIOUS
<1>7. p \in PageType /\ p.read = Version
  BY <1>1, <1>5, <1>6 DEF PageType
<1>8. page' = [page EXCEPT ![c] = p]
  BY <1>1, <1>4, <1>5, <1>6 DEF Answer, PageType
<1>9. s.at # NoInstance => life[s.at] # "down" /\ Awaited(s, p, last[s.at], Version)
  BY <1>1, <1>2, <1>7 DEF EventsInv, StreamsServed, Connected, Awaited
<1>10. UNCHANGED <<commits, last, life, stops>> /\ faults' \in 0..MaxFaults
  BY <1>1 DEF Answer
<1> QED
  BY <1>1, <1>2, <1>3, <1>7, <1>8, <1>9, <1>10, ClientKeeps

\* A read that fails with others under way leaves the change to them; as the last one it
\* is what the page knows it missed.
LEMMA AnswerFailsKeeps ==
    ASSUME EventsInv, NEW c \in Clients, AnswerFails(c) PROVE EventsInv'
<1>1. stream \in [Clients -> StreamType] /\ page \in [Clients -> PageType]
      /\ faults \in 0..MaxFaults /\ stream[c] \in StreamType /\ page[c] \in PageType
      /\ Version \in Nat
  BY EventsFacts
<1>2. PICK s : s = stream[c]
  OBVIOUS
<1>3. stream' = [stream EXCEPT ![c] = s]
  BY <1>1, <1>2 DEF AnswerFails
<1>4. page[c].loads \in 0..MaxLoads /\ page[c].loads > 0 /\ page[c].failed \in Nat
  BY <1>1 DEF PageType, AnswerFails
<1>5. page[c].loads - 1 \in 0..MaxLoads
  BY <1>4, DashboardBounds
<1>6. PICK f : f = IF page[c].loads = 1 THEN Version ELSE page[c].failed
  OBVIOUS
<1>7. f \in Nat
  BY <1>1, <1>4, <1>6
<1>8. PICK r : r = [page[c] EXCEPT !.loads = @ - 1]
  OBVIOUS
<1>9. r \in PageType /\ r.loads = page[c].loads - 1 /\ r.read = page[c].read
  BY <1>1, <1>5, <1>8 DEF PageType
<1>10. PICK p : p = [r EXCEPT !.failed = f]
  OBVIOUS
<1>11. p \in PageType /\ p.loads = page[c].loads - 1 /\ p.failed = f
  BY <1>7, <1>9, <1>10 DEF PageType
<1>12. page' = [page EXCEPT ![c] = p]
  BY <1>1, <1>6, <1>8, <1>9, <1>10 DEF AnswerFails, PageType
<1>13. p.loads > 0 \/ p.failed = Version
  BY <1>4, <1>6, <1>11
<1>14. Awaited(s, p, last[s.at], Version)
  <2>1. CASE p.loads > 0
    BY <2>1 DEF Awaited
  <2>2. CASE p.failed = Version
    BY <1>1, <2>2 DEF Awaited
  <2> QED
    BY <1>13, <2>1, <2>2
<1>15. s.at # NoInstance => life[s.at] # "down"
  BY <1>2 DEF EventsInv, StreamsServed, Connected
<1>16. s \in StreamType
  BY <1>1, <1>2
<1>17. UNCHANGED <<commits, last, life, stops>> /\ faults' \in 0..MaxFaults
  BY <1>1, DashboardBounds DEF AnswerFails
<1> QED
  BY <1>3, <1>11, <1>12, <1>14, <1>15, <1>16, <1>17, ClientKeeps

\* With usage views open or without: the watcher's reads are only further reads.
LEMMA EventsKept ==
    EventsInit /\ [][UsageNext]_eventVars => []EventsInv
<1>1. ASSUME EventsInv, [UsageNext]_eventVars PROVE EventsInv'
  <2>1. ASSUME NEW i \in Instances, Commit(i) PROVE EventsInv'
    BY <1>1, <2>1, CommitKeepsEvents
  <2>2. ASSUME NEW i \in Instances, Poll(i) \/ PollFails(i) PROVE EventsInv'
    BY <1>1, <2>2, PollKeeps
  <2>3. ASSUME NEW i \in Instances, Terminate(i) \/ EndGrace(i) PROVE EventsInv'
    BY <1>1, <2>3, TerminateKeeps
  <2>4. ASSUME NEW i \in Instances, Stopped(i) \/ DrainExpires(i) \/ StartAgain(i)
        PROVE  EventsInv'
    BY <1>1, <2>4, StopKeeps
  <2>5. ASSUME NEW c \in Clients, Deliver(c) PROVE EventsInv'
    BY <1>1, <2>5, DeliverKeeps
  <2>6. ASSUME NEW c \in Clients, EndStream(c) \/ Disconnect(c) PROVE EventsInv'
    BY <1>1, <2>6, CloseKeeps
  <2>7. ASSUME NEW c \in Clients, HandleFrame(c) PROVE EventsInv'
    BY <1>1, <2>7, HandleFrameKeeps
  <2>8. ASSUME NEW c \in Clients, WatchJob(c) PROVE EventsInv'
    BY <1>1, <2>8, WatchJobKeeps
  <2>9. ASSUME NEW c \in Clients, NEW i \in Instances, Connect(c, i) PROVE EventsInv'
    BY <1>1, <2>9, ConnectKeeps
  <2>10. ASSUME NEW c \in Clients, NEW i \in Instances, Answer(c, i) PROVE EventsInv'
    BY <1>1, <2>10, AnswerKeeps
  <2>11. ASSUME NEW c \in Clients, AnswerFails(c) PROVE EventsInv'
    BY <1>1, <2>11, AnswerFailsKeeps
  <2>12. CASE UNCHANGED eventVars
    <3>1. UNCHANGED <<commits, last, life, stream, page, stops, faults>>
      BY <2>12 DEF eventVars
    <3>2. stops' \in 0..MaxStops /\ life' \in [Instances -> {"up", "grace", "stopping", "down"}]
      BY <1>1, <3>1, EventsFacts
    <3> QED
      BY <1>1, <3>1, <3>2, LifeKeeps
  <2> QED
    BY <1>1, <2>1, <2>2, <2>3, <2>4, <2>5, <2>6, <2>7, <2>8, <2>9, <2>10, <2>11,
       <2>12
    DEF UsageNext, EventsNext
<1> QED
  BY <1>1, EventsInitHolds, PTL

\* The types of the dashboard's variables, with usage views open or without.
THEOREM EventsTypeCorrect == EventsSpec \/ UsageSpec => []EventsTypeOK
<1>1. [EventsNext]_eventVars => [UsageNext]_eventVars
  BY DEF UsageNext
<1>2. EventsInv => EventsTypeOK
  BY DEF EventsInv
<1> QED
  BY <1>1, <1>2, EventsKept, PTL DEF EventsSpec, UsageSpec

\* However many processes write, poll, fail to poll, stop and start, however streams
\* lag, end and are opened again, and whichever reads fail: a commit that a browser with
\* an open stream has not read is one its process's poller has still to notice, or an
\* event or a read is under way, or the last read under way was made with it and failed
\* (fetchSummary and its like try nothing again).  ChangeIsRead is this and the fairness
\* of those that move it on.
THEOREM NoChangeIsLost == EventsSpec \/ UsageSpec => []NoChangeLost
<1>1. [EventsNext]_eventVars => [UsageNext]_eventVars
  BY DEF UsageNext
<1>2. EventsInv => NoChangeLost
  BY DEF EventsInv
<1> QED
  BY <1>1, <1>2, EventsKept, PTL DEF EventsSpec, UsageSpec

=============================================================================
