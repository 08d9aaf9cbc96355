------------------------------ MODULE ApiKeys ------------------------------
(***************************************************************************)
(* Partner credentials: the api_keys, partners and partner_models tables   *)
(* shared by every process, the snapshot each process authenticates        *)
(* against, and the two ways it is rebuilt, by the periodic refresher and  *)
(* by every administrator's mutation.                                      *)
(*                                                                         *)
(* refresh() is two steps that no lock holds together: load_active reads   *)
(* one picture of the database, and the snapshot is replaced by it later.  *)
(* The refresher reloads one at a time; mutations run on the blocking pool *)
(* beside it.  A mutation's own transaction is one step.                   *)
(*                                                                         *)
(* Abstractions: a key is its hash; a model list with its prices is one    *)
(* value; the oldest overdue invoice of a partner is whether it has one.   *)
(***************************************************************************)
EXTENDS Integers, FiniteSets

CONSTANTS
    Hashes,      \* key hashes, in issue order of no significance
    Consumers,
    Processes,   \* processes sharing the database
    Admins,      \* concurrent mutations a process can run
    Models,      \* model lists with prices
    Nothing,     \* no such key
    MaxEdits,    \* bound: committed mutations and invoices falling due
    MaxFaults    \* bound: loads that fail

ASSUME EditBounds == MaxEdits \in Nat /\ MaxFaults \in Nat
ASSUME TickFresh == "tick" \notin Admins

Tasks == Admins \cup {"tick"}

VARIABLES
    keys,       \* api_keys: hash -> row
    expired,    \* keys whose expires_at has passed
    partner,    \* partners and partner_models of each consumer
    overdue,    \* consumers with a payable invoice past its due date
    snapshot,   \* what each process authenticates against
    at,         \* where each task is in refresh()
    loaded,     \* the picture a task has loaded and not yet swapped in
    edits, faults

tables   == <<keys, partner>>
clock    == <<expired, overdue>>
memory   == <<snapshot, at, loaded>>
vars == <<tables, clock, memory, edits, faults>>

Key == [consumer : Consumers, status : {"active", "revoked"}, expires : BOOLEAN]
Partner == [models : Models, invoiced : BOOLEAN]
\* PartnerRuntimeConfig
Config == [consumer : Consumers, models : Models, suspended : BOOLEAN]
Snapshot == [Hashes -> Config \cup {Nothing}]

ASSUME NothingFresh == Nothing \notin Key /\ Nothing \notin Config /\ Nothing \notin Hashes

\* The two states of schema.sql's CHECK, one snapshot per process, one task state
\* per refresh.
TypeOK ==
    /\ keys \in [Hashes -> Key \cup {Nothing}]
    /\ partner \in [Consumers -> Partner]
    /\ expired \subseteq Hashes /\ overdue \subseteq Consumers
    /\ snapshot \in [Processes -> Snapshot]
    /\ at \in [Processes -> [Tasks -> {"idle", "committed", "loaded"}]]
    /\ loaded \in [Processes -> [Tasks -> Snapshot]]
    /\ edits \in 0..MaxEdits /\ faults \in 0..MaxFaults

IsActive(h) == keys[h] # Nothing /\ keys[h].status = "active"

\* status_for: only an invoiced partner is suspended.
Suspended(c) == partner[c].invoiced /\ c \in overdue

\* load_active, in its one read transaction: the keys that would authenticate
\* now, each with its partner resolved whole.
Picture ==
    [h \in Hashes |->
        IF IsActive(h) /\ h \notin expired
        THEN LET c == keys[h].consumer
             IN [consumer |-> c, models |-> partner[c].models,
                 suspended |-> Suspended(c)]
        ELSE Nothing]

Empty == [h \in Hashes |-> Nothing]

Init ==
    /\ keys = [h \in Hashes |-> Nothing]
    /\ partner \in [Consumers -> {q \in Partner : q.invoiced}]
    /\ expired = {} /\ overdue = {}
    /\ snapshot = [p \in Processes |-> Empty]
    /\ at = [p \in Processes |-> [t \in Tasks |-> "idle"]]
    /\ loaded = [p \in Processes |-> [t \in Tasks |-> Empty]]
    /\ edits = 0 /\ faults = 0

-----------------------------------------------------------------------------
(* Mutations: one transaction, then a refresh. *)

\* mutate_domain up to its commit: task a of process p has its refresh to do.
Mutate(p, a) ==
    /\ at[p][a] = "idle" /\ edits < MaxEdits
    /\ at' = [at EXCEPT ![p][a] = "committed"]
    /\ edits' = edits + 1
    /\ UNCHANGED <<overdue, snapshot, loaded, faults>>

NewKey(c, e) == [consumer |-> c, status |-> "active", expires |-> e]

\* Mutant: the check for an active key is not part of the insert.
CreateUnchecked(p, a, h, c, e) ==
    /\ keys[h] = Nothing
    /\ keys' = [keys EXCEPT ![h] = NewKey(c, e)]
    /\ UNCHANGED <<partner, expired>>
    /\ Mutate(p, a)

\* The partial unique index refuses a second active key of a consumer; a refused
\* create rolls back and does not refresh, so it is no step.
Create(p, a, h, c, e) ==
    /\ keys[h] = Nothing
    /\ \A g \in Hashes : IsActive(g) => keys[g].consumer # c
    /\ keys' = [keys EXCEPT ![h] = NewKey(c, e)]
    /\ UNCHANGED <<partner, expired>>
    /\ Mutate(p, a)

\* Idempotent: a revoked key is left alone, and the refresh follows all the same.
Revoke(p, a, h) ==
    /\ keys[h] # Nothing
    /\ keys' = [keys EXCEPT ![h].status = "revoked"]
    /\ UNCHANGED <<partner, expired>>
    /\ Mutate(p, a)

\* Revocation and replacement in one transaction; the expiry is carried over.
Rotate(p, a, h, g) ==
    /\ IsActive(h) /\ keys[g] = Nothing
    /\ keys' = [keys EXCEPT ![h].status = "revoked",
                            ![g] = NewKey(keys[h].consumer, keys[h].expires)]
    /\ expired' = IF h \in expired THEN expired \cup {g} ELSE expired
    /\ UNCHANGED partner
    /\ Mutate(p, a)

\* update: a name is no part of what authenticates, and a key that is missing or
\* revoked is left alone; either way the transaction commits and the refresh follows.
Rename(p, a) == UNCHANGED <<keys, partner, expired>> /\ Mutate(p, a)

\* create, update and delete of a partner and replace_models, one that changes
\* nothing included.
EditPartner(p, a, c) ==
    /\ \E q \in Partner : partner' = [partner EXCEPT ![c] = q]
    /\ UNCHANGED <<keys, expired>>
    /\ Mutate(p, a)

-----------------------------------------------------------------------------
(* refresh(). *)

\* Mutant: the periodic reload waits for a committed change of the keys.
LoadOnChange(p, t) ==
    /\ at[p][t] = IF t = "tick" THEN "idle" ELSE "committed"
    /\ t = "tick" => \E h \in Hashes : IsActive(h) # (snapshot[p][h] # Nothing)
                                       /\ h \notin expired
    /\ loaded' = [loaded EXCEPT ![p][t] = Picture]
    /\ at' = [at EXCEPT ![p][t] = "loaded"]
    /\ UNCHANGED <<tables, clock, snapshot, edits, faults>>

Load(p, t) ==
    /\ at[p][t] = IF t = "tick" THEN "idle" ELSE "committed"
    /\ loaded' = [loaded EXCEPT ![p][t] = Picture]
    /\ at' = [at EXCEPT ![p][t] = "loaded"]
    /\ UNCHANGED <<tables, clock, snapshot, edits, faults>>

Done(p, t) ==
    /\ at' = [at EXCEPT ![p][t] = "idle"]
    /\ loaded' = [loaded EXCEPT ![p][t] = Empty]

\* Mutant: a load that found no key is taken for a failed one.
SwapNonEmpty(p, t) ==
    /\ at[p][t] = "loaded"
    /\ snapshot' = [snapshot EXCEPT ![p] = IF loaded[p][t] = Empty THEN @ ELSE loaded[p][t]]
    /\ Done(p, t)
    /\ UNCHANGED <<tables, clock, edits, faults>>

\* The loaded picture replaces the snapshot.
Swap(p, t) ==
    /\ at[p][t] = "loaded"
    /\ snapshot' = [snapshot EXCEPT ![p] = loaded[p][t]]
    /\ Done(p, t)
    /\ UNCHANGED <<tables, clock, edits, faults>>

\* A failed load keeps the last snapshot; the mutation is committed all the same.
LoadFails(p, t) ==
    /\ at[p][t] = IF t = "tick" THEN "idle" ELSE "committed"
    /\ faults < MaxFaults /\ faults' = faults + 1
    /\ Done(p, t)
    /\ UNCHANGED <<tables, clock, snapshot, edits>>

\* The process dies and starts again: ApiKeyRefresher::new loads before serving.
Restart(p) ==
    /\ snapshot' = [snapshot EXCEPT ![p] = Picture]
    /\ at' = [at EXCEPT ![p] = [t \in Tasks |-> "idle"]]
    /\ loaded' = [loaded EXCEPT ![p] = [t \in Tasks |-> Empty]]
    /\ UNCHANGED <<tables, clock, edits, faults>>

-----------------------------------------------------------------------------
(* What changes without a mutation of keys: time, payments. *)

Expire(h) ==
    /\ keys[h] # Nothing /\ keys[h].expires /\ h \notin expired
    /\ expired' = expired \cup {h}
    /\ UNCHANGED <<tables, overdue, memory, edits, faults>>

FallDue(c) ==
    /\ c \notin overdue /\ edits < MaxEdits
    /\ overdue' = overdue \cup {c} /\ edits' = edits + 1
    /\ UNCHANGED <<tables, expired, memory, faults>>

\* mark_paid does not refresh: the next tick lifts the suspension.
MarkPaid(c) ==
    /\ c \in overdue
    /\ overdue' = overdue \ {c}
    /\ UNCHANGED <<tables, expired, memory, edits, faults>>

-----------------------------------------------------------------------------
Admin(p, a) ==
    \/ \E h \in Hashes, c \in Consumers, e \in BOOLEAN : Create(p, a, h, c, e)
    \/ \E h \in Hashes : Revoke(p, a, h) \/ \E g \in Hashes : Rotate(p, a, h, g)
    \/ \E c \in Consumers : EditPartner(p, a, c)
    \/ Rename(p, a)

Refresh(p, t) == Load(p, t) \/ Swap(p, t)

Next ==
    \/ \E p \in Processes :
          \/ Restart(p)
          \/ \E a \in Admins : Admin(p, a)
          \/ \E t \in Tasks : Refresh(p, t) \/ LoadFails(p, t)
    \/ \E h \in Hashes : Expire(h)
    \/ \E c \in Consumers : FallDue(c) \/ MarkPaid(c)

Spec == Init /\ [][Next]_vars

\* The refresher's loop and the rest of a started mutation are scheduled.
FairSpec == Spec /\ \A p \in Processes, t \in Tasks : WF_vars(Refresh(p, t))

-----------------------------------------------------------------------------
OneKeyPerConsumer(s) ==
    \A h, g \in Hashes :
        (s[h] # Nothing /\ s[g] # Nothing /\ s[h].consumer = s[g].consumer) => h = g

\* No process ever authenticates two keys of one partner, whatever creates and
\* rotations of several processes interleave with its loads and swaps (the
\* partial unique index, rotate's one transaction, load_active's one read).
OneLiveKey == \A p \in Processes : OneKeyPerConsumer(snapshot[p])

\* A revoked key is rejected by every process for good, soon after: a stale
\* picture swapped in late is itself replaced by the following tick.
RevocationPropagates ==
    \A p \in Processes, h \in Hashes :
        (keys[h] # Nothing /\ keys[h].status = "revoked") ~> [](snapshot[p][h] = Nothing)

\* Once keys, partners and clock rest, every process agrees with the database,
\* also about expiries and payments, which no commit of a key announces.
SnapshotsConverge ==
    \A p \in Processes : <>[](snapshot[p] = Picture)
=============================================================================
