------------------------------ MODULE Accounts ------------------------------
(***************************************************************************)
(* The commercial side of a partner: accounts, model lists and keys,       *)
(* statements and payments, under several managers, the keygen command and *)
(* the billing worker at once.  A handler's calls of the store are         *)
(* transactions of their own, so others commit between them.               *)
(*                                                                         *)
(* Abstractions: a model list with its prices is one value; an account is  *)
(* its billing mode; a statement is the facts that payment and suspension  *)
(* read.  Which days the worker states, and from what, is Statements; the  *)
(* snapshot that follows every edit is ApiKeys.                            *)
(***************************************************************************)
EXTENDS Integers, FiniteSets, FiniteSetsExt

CONSTANTS
    Partners,
    Callers,     \* handlers, and runs of keygen, under way at once
    Lists,       \* model lists that are not empty
    Days,        \* days of statements
    MaxNow,      \* bound: the last instant
    MaxCalls,    \* bound: calls ever made
    NoAccount, NoBill, Nobody

Modes == {"invoice", "reconciliation"}
Empty == "empty"

\* firm: nothing incomplete in it, and an amount above zero.  due is 0 where there is
\* no deadline.
Bill == [id : 1..(Cardinality(Partners) * Cardinality(Days)), mode : Modes,
         firm : BOOLEAN, due : 0..MaxNow,
         paid : Callers \cup {Nobody}]

ASSUME AccountsFresh ==
    /\ MaxNow \in Nat \ {0} /\ MaxCalls \in Nat /\ Empty \notin Lists
    /\ IsFiniteSet(Partners) /\ IsFiniteSet(Days) /\ Days \subseteq Nat \ {0}
    /\ NoAccount \notin Modes /\ NoBill \notin Bill /\ Nobody \notin Callers

VARIABLES
    clock,
    account,    \* partners
    models,     \* partner_models of each partner
    issued,     \* partners with an active key
    bill,       \* daily_statements
    draft,      \* what the worker is about to write
    call,       \* where each caller is
    calls

books == <<account, models, issued, bill>>
accountVars == <<clock, books, draft, call, calls>>

Idle == [op |-> "none"]
NoDraftYet == [day |-> 0]

Bills == {b \in Partners \X Days : bill[b[1]][b[2]] # NoBill}

AccountsInit ==
    /\ clock = 1 /\ draft = NoDraftYet
    /\ account = [c \in Partners |-> NoAccount]
    /\ models = [c \in Partners |-> Empty]
    /\ issued = {}
    /\ bill = [c \in Partners |-> [d \in Days |-> NoBill]]
    /\ call = [m \in Callers |-> Idle]
    /\ calls = 0

AccountsTypeOK ==
    /\ clock \in 1..MaxNow /\ calls \in 0..MaxCalls
    /\ account \in [Partners -> Modes \cup {NoAccount}]
    /\ models \in [Partners -> Lists \cup {Empty}]
    /\ issued \subseteq Partners
    /\ bill \in [Partners -> [Days -> Bill \cup {NoBill}]]
    /\ \A m \in Callers : call[m].op \in {"none", "models", "key", "delete", "pay", "show", "paid"}

-----------------------------------------------------------------------------
(* Steps of a call. *)

Opens(m, next) ==
    /\ call[m].op = "none" /\ calls < MaxCalls
    /\ calls' = calls + 1 /\ call' = [call EXCEPT ![m] = next]
    /\ UNCHANGED <<clock, draft>>

Resumes(m, op, next) ==
    /\ call[m].op = op
    /\ call' = [call EXCEPT ![m] = next]
    /\ UNCHANGED <<clock, draft, calls>>

\* An answer to mark-paid is kept until the caller goes; other answers, and errors,
\* end the call at once.
CallEnds(m) ==
    /\ call[m].op = "paid"
    /\ call' = [call EXCEPT ![m] = Idle]
    /\ UNCHANGED <<clock, books, draft, calls>>

\* keygen must name models; the form of create_partner need not.
Parses(keygen, list) == keygen => list # Empty

\* An account that exists is refused, not changed.
Created(c, mode) == IF account[c] = NoAccount THEN [account EXCEPT ![c] = mode] ELSE account

\* The first transaction of create_partner, and of keygen.
CreatePartner(m, c, mode, list, keygen) ==
    /\ Parses(keygen, list)
    /\ Opens(m, IF account[c] # NoAccount \/ list = Empty THEN Idle
                ELSE [op |-> "models", partner |-> c, list |-> list, keygen |-> keygen])
    /\ account' = Created(c, mode)
    /\ UNCHANGED <<models, issued, bill>>

\* replace_models: the foreign key refuses a list for an account that is gone, and
\* has nothing to refuse in an empty one.
Listed(c, list) == IF account[c] = NoAccount THEN models ELSE [models EXCEPT ![c] = list]

\* The second transaction, over whatever list the account has by now.
CreateModels(m) ==
    LET c == call[m].partner
    IN /\ Resumes(m, "models", IF call[m].keygen /\ account[c] # NoAccount
                               THEN [op |-> "key", partner |-> c] ELSE Idle)
       /\ models' = Listed(c, call[m].list)
       /\ UNCHANGED <<account, issued, bill>>

\* keygen's last step: the plaintext may be missing, or a key be there already; the
\* account stays.
IssueKey(m) ==
    LET c == call[m].partner
    IN /\ Resumes(m, "key", Idle)
       /\ issued' \in {issued, issued \cup {c}}
       /\ UNCHANGED <<account, models, bill>>

PutModels(m, c, list) ==
    /\ Opens(m, Idle)
    /\ models' = Listed(c, list)
    /\ UNCHANGED <<account, issued, bill>>

Patched(c, mode) == IF account[c] = NoAccount THEN account ELSE [account EXCEPT ![c] = mode]

UpdatePartner(m, c, mode) ==
    /\ Opens(m, Idle)
    /\ account' = Patched(c, mode)
    /\ UNCHANGED <<models, issued, bill>>

\* delete_partner counts first; the foreign key is what refuses a statement written
\* since.
CountStatements(m, c) ==
    /\ Opens(m, IF \E d \in Days : bill[c][d] # NoBill THEN Idle
                ELSE [op |-> "delete", partner |-> c])
    /\ UNCHANGED books

DeletePartner(m) ==
    LET c == call[m].partner
        goes == account[c] # NoAccount /\ \A d \in Days : bill[c][d] = NoBill
    IN /\ Resumes(m, "delete", Idle)
       /\ account' = IF goes THEN [account EXCEPT ![c] = NoAccount] ELSE account
       /\ models' = IF goes THEN [models EXCEPT ![c] = Empty] ELSE models
       /\ UNCHANGED <<issued, bill>>

-----------------------------------------------------------------------------
(* mark_paid. *)

Shown(b) == [op |-> "paid", bill |-> b, payer |-> bill[b[1]][b[2]].paid]

\* The handler's own read: no such statement, nothing to pay, paid already.
LookUp(m, b) ==
    LET s == bill[b[1]][b[2]]
    IN /\ Opens(m, IF s = NoBill \/ s.mode # "invoice" THEN Idle
                   ELSE IF s.paid # Nobody THEN Shown(b)
                   ELSE [op |-> "pay", bill |-> b])
       /\ UNCHANGED books

\* Mutant: the update is not guarded; the handler has looked.
RecordPaymentAgain(m) ==
    LET b == call[m].bill
    IN /\ Resumes(m, "pay", [op |-> "show", bill |-> b])
       /\ bill' = [bill EXCEPT ![b[1]][b[2]].paid = m]
       /\ UNCHANGED <<account, models, issued>>

\* UPDATE ... WHERE paid_at IS NULL.
RecordPayment(m) ==
    LET b == call[m].bill
    IN /\ Resumes(m, "pay", [op |-> "show", bill |-> b])
       /\ bill' = [bill EXCEPT ![b[1]][b[2]].paid = IF @ = Nobody THEN m ELSE @]
       /\ UNCHANGED <<account, models, issued>>

\* The read back, which is what the answer shows.
ShowPayment(m) == Resumes(m, "show", Shown(call[m].bill)) /\ UNCHANGED books

-----------------------------------------------------------------------------
(* The worker and the clock. *)

ClockTicks == clock < MaxNow /\ clock' = clock + 1 /\ UNCHANGED <<books, draft, call, calls>>

\* The partner as listed at the start of the pass; what the day's usage comes to is
\* Statements' matter.
Draft(c, d, firm, due) ==
    /\ draft = NoDraftYet /\ account[c] # NoAccount
    /\ draft' = [day |-> d, partner |-> c, mode |-> account[c], firm |-> firm,
                 due |-> IF account[c] = "invoice" THEN due ELSE 0]
    /\ UNCHANGED <<clock, books, call, calls>>

\* validate_draft: who owes has a due date, and nobody else.  A line's token counts are
\* Pricing's.
Consistent(s) == (s.mode = "invoice") = (s.due # 0)

\* write_statement: nothing where there is one, refused where the draft contradicts
\* itself and, by the foreign key, where the account is gone.
WriteStatement ==
    LET c == draft.partner  d == draft.day
    IN /\ draft # NoDraftYet /\ draft' = NoDraftYet
       /\ bill' = IF Consistent(draft) /\ account[c] # NoAccount /\ bill[c][d] = NoBill
                  THEN [bill EXCEPT ![c][d] =
                          [id |-> Cardinality(Bills) + 1, mode |-> draft.mode,
                           firm |-> draft.firm, due |-> draft.due, paid |-> Nobody]]
                  ELSE bill
       /\ UNCHANGED <<clock, account, models, issued, call, calls>>

AccountsNext ==
    \/ \E m \in Callers :
          \/ \E c \in Partners, list \in Lists \cup {Empty} :
                \/ \E mode \in Modes, keygen \in BOOLEAN : CreatePartner(m, c, mode, list, keygen)
                \/ PutModels(m, c, list)
          \/ \E c \in Partners : CountStatements(m, c) \/ \E mode \in Modes : UpdatePartner(m, c, mode)
          \/ \E b \in Partners \X Days : LookUp(m, b)
          \/ CreateModels(m) \/ IssueKey(m) \/ DeletePartner(m)
          \/ RecordPayment(m) \/ ShowPayment(m) \/ CallEnds(m)
    \/ \E c \in Partners, d \in Days, firm \in BOOLEAN, due \in 1..MaxNow :
          Draft(c, d, firm, due)
    \/ WriteStatement \/ ClockTicks

AccountsSpec == AccountsInit /\ [][AccountsNext]_accountVars

-----------------------------------------------------------------------------
(* Who is suspended: what the request path and the billing API each derive. *)

\* is_outstanding, only_unpaid of list_statements, outstanding_totals.
Owed(c) == {d \in Days : bill[c][d] # NoBill /\ bill[c][d].mode = "invoice"
                                             /\ bill[c][d].paid = Nobody}

\* ORDER BY due_at, id LIMIT 1.
Oldest(c, ds) ==
    IF ds = {} THEN 0
    ELSE CHOOSE d \in ds : \A e \in ds : \/ bill[c][d].due < bill[c][e].due
                                         \/ /\ bill[c][d].due = bill[c][e].due
                                            /\ bill[c][d].id <= bill[c][e].id

\* overdue_statements.
Overdue(c) == {d \in Owed(c) : bill[c][d].due # 0 /\ bill[c][d].due <= clock}

CanSuspend(c, d) == bill[c][d].firm

\* status_for: the first of the rows that can suspend, 0 for an active partner.
StatusFor(c, ds) ==
    IF account[c] # "invoice" THEN 0 ELSE Oldest(c, {d \in ds : CanSuspend(c, d)})

\* Mutant: the row that is joined is the oldest overdue one of any kind.
LoadedRowAny(c) == {d \in {Oldest(c, Overdue(c))} : d # 0}

\* The subquery of load_active: at most one row.
LoadedRow(c) ==
    {d \in {Oldest(c, {e \in Overdue(c) : CanSuspend(c, e)})} : d # 0}

\* PartnerRuntimeConfig, which answers requests with 403.
RequestStatus(c) == StatusFor(c, LoadedRow(c))

\* statuses_in_scope, which /api/billing/status and the summary answer with.
ApiStatus(c) == StatusFor(c, Overdue(c))

\* observe_status, whose changes the worker logs.
ObservedStatus(c) == StatusFor(c, Overdue(c))

-----------------------------------------------------------------------------
\* Every answer to mark-paid shows the payment that stands, whichever of two managers
\* came first; a reconciliation statement has none; and a statement's account is never
\* gone, however a deletion and the worker interleave (mark_paid, delete_partner,
\* write_statement).
PaymentsStand ==
    /\ \A m \in Callers : call[m].op = "paid" =>
          /\ call[m].payer # Nobody
          /\ bill[call[m].bill[1]][call[m].bill[2]].paid = call[m].payer
    /\ \A b \in Bills : /\ account[b[1]] # NoAccount
                        /\ bill[b[1]][b[2]].mode = "reconciliation" =>
                              bill[b[1]][b[2]].paid = Nobody

\* The request path, the billing API and the worker's log give one answer to whether
\* a partner is suspended and for which statement, and that statement is on the list
\* of what is owed, whichever statements are incomplete, zero, paid or of another mode
\* (load_active, statuses_in_scope, observe_status, status_for).
SuspensionAgrees ==
    \A c \in Partners :
        /\ RequestStatus(c) = ApiStatus(c) /\ RequestStatus(c) = ObservedStatus(c)
        /\ RequestStatus(c) # 0 => RequestStatus(c) \in Owed(c)
=============================================================================
