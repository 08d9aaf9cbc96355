----------------------------- MODULE UsageLedger -----------------------------
(***************************************************************************)
(* What the ledger promises, without queues, batches, locks, processes or  *)
(* deltas: raw rows only ever move forward, the rollup is recomputed from  *)
(* them, and a request is served only once it has a row.                   *)
(***************************************************************************)
EXTENDS Rollup

CONSTANT Legacy   \* in-flight rows already in the file, without an owner

VARIABLES rows, hourly, sent

LedgerInit ==
    /\ rows \in [Requests -> Row \cup {NoRow}]
    /\ \A r \in Requests : IF r \in Legacy THEN IsInFlightRow(rows[r])
                                           ELSE rows[r] = NoRow
    /\ hourly = Aggregate(rows)
    /\ sent = {}

\* A row appears; an open row ends; a row that was only presumed interrupted is
\* corrected by its own request.  It is never reopened, never deleted, never
\* overwritten once measured, and never changes owner.
Advances(old, new) ==
    \/ old = NoRow /\ new # NoRow
    \/ /\ old # NoRow /\ IsTerminalRow(new) /\ new.owner = old.owner
       /\ \/ old.status = "in_flight"
          \/ old.status = "interrupted" /\ old.tokens = Unavailable

Write ==
    /\ rows # rows'
    /\ \A r \in Requests : rows'[r] = rows[r] \/ Advances(rows[r], rows'[r])
    /\ hourly' = Aggregate(rows')
    /\ UNCHANGED sent

Serve ==
    \E r \in Requests :
        /\ rows[r] # NoRow
        /\ sent' = sent \cup {r}
        /\ UNCHANGED <<rows, hourly>>

LedgerNext == Write \/ Serve

LedgerSpec == LedgerInit /\ [][LedgerNext]_<<rows, hourly, sent>>
=============================================================================
