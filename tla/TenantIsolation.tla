---------------------------- MODULE TenantIsolation ----------------------------
(***************************************************************************)
(* Companies kept apart in PostgreSQL, in two ways at once: a row level    *)
(* security policy compares tenant_id with the setting app.tenant_id, and  *)
(* every query of the repositories names its company. tenant_session sets  *)
(* the setting for one transaction, on a connection of a pool whose next   *)
(* user may be another company's request or one that sets nothing. A role  *)
(* may bypass the policies: compose.yaml's is the superuser of its         *)
(* database, another deployment's need not be.                             *)
(*                                                                         *)
(* The rows are those of one table with a policy (knowledge_sources,       *)
(* services, messages); a row's id is never used again.                    *)
(***************************************************************************)
CONSTANTS Tenants, Ids, Connections, None

ConstantsOK == None \notin Tenants \union Ids

VARIABLES
    bypass,    \* the role bypasses row level security
    owner,     \* the company of each row, None where there is none
    used,      \* ids that have been a row's
    pc,        \* how far the transaction on each connection is
    op,        \* what it is for
    asked,     \* the company of that request, None for a plain session
    target,    \* the row it names
    setting,   \* app.tenant_id
    touched    \* the companies whose rows it returned, made or deleted

vars == <<bypass, owner, used, pc, op, asked, target, setting, touched>>
request == <<op, asked, target>>

Ops == {"list", "get", "delete", "add", "all"}

TypeOK ==
    /\ bypass \in BOOLEAN
    /\ owner \in [Ids -> Tenants \union {None}]
    /\ used \subseteq Ids
    /\ pc \in [Connections -> {"pool", "open", "bound", "done"}]
    /\ op \in [Connections -> Ops]
    /\ asked \in [Connections -> Tenants \union {None}]
    /\ target \in [Connections -> Ids \union {None}]
    /\ setting \in [Connections -> Tenants \union {None}]
    /\ touched \in [Connections -> SUBSET Tenants]

Init ==
    /\ bypass \in BOOLEAN
    /\ owner = [i \in Ids |-> None]
    /\ used = {}
    /\ pc = [c \in Connections |-> "pool"]
    /\ op = [c \in Connections |-> "all"]
    /\ asked = [c \in Connections |-> None]
    /\ target = [c \in Connections |-> None]
    /\ setting = [c \in Connections |-> None]
    /\ touched = [c \in Connections |-> {}]

Open(c, o, t, i) ==
    /\ pc[c] = "pool"
    /\ pc' = [pc EXCEPT ![c] = "open"]
    /\ op' = [op EXCEPT ![c] = o]
    /\ asked' = [asked EXCEPT ![c] = t]
    /\ target' = [target EXCEPT ![c] = i]
    /\ UNCHANGED <<bypass, owner, used, setting, touched>>

\* The pool hands a connection to tenant_session, for a request of a company;
\* the id it names may be another company's.
Checkout(c) ==
    \/ \E t \in Tenants, o \in {"get", "delete"}, i \in Ids : Open(c, o, t, i)
    \/ \E t \in Tenants, o \in {"list", "add"} : Open(c, o, t, None)

\* ... or to a session of no company: list_active, which loads services.
CheckoutPlain(c) == Open(c, "all", None, None)

\* set_config('app.tenant_id', tenant_id, true).
Bind(c) ==
    /\ pc[c] = "open"
    /\ asked[c] # None
    /\ pc' = [pc EXCEPT ![c] = "bound"]
    /\ setting' = [setting EXCEPT ![c] = asked[c]]
    /\ UNCHANGED <<bypass, owner, used, request, touched>>

Rows == {i \in Ids : owner[i] # None}

\* USING (tenant_id = current_setting('app.tenant_id', true)).
Visible(c) == {i \in Rows : bypass \/ owner[i] = setting[c]}

\* Mutant: the query relies on the policy.
AnyTenant(c, i) == TRUE

\* The query's own tenant_id condition, or the check of the row it got.
OfCompany(c, i) == owner[i] = asked[c]

Result(c) ==
    CASE op[c] = "all" -> Visible(c)
      [] op[c] = "list" -> {i \in Visible(c) : OfCompany(c, i)}
      [] op[c] = "add" -> {}
      [] OTHER -> {i \in Visible(c) : i = target[c] /\ OfCompany(c, i)}

Touch(c, tenants) ==
    /\ touched' = [touched EXCEPT ![c] = tenants]
    /\ pc' = [pc EXCEPT ![c] = "done"]
    /\ UNCHANGED <<bypass, request, setting>>

Bound(c) == pc[c] = IF op[c] = "all" THEN "open" ELSE "bound"

\* A query, or the deletion of the row it found.
Query(c) ==
    /\ Bound(c)
    /\ op[c] # "add"
    /\ Touch(c, {owner[i] : i \in Result(c)})
    /\ owner' = IF op[c] = "delete"
                THEN [i \in Ids |-> IF i \in Result(c) THEN None ELSE owner[i]]
                ELSE owner
    /\ UNCHANGED used

\* An insert, which the policy's WITH CHECK lets pass.
Insert(c) ==
    /\ Bound(c)
    /\ op[c] = "add"
    /\ bypass \/ setting[c] = asked[c]
    /\ \E i \in Ids \ used :
        /\ owner' = [owner EXCEPT ![i] = asked[c]]
        /\ used' = used \union {i}
    /\ Touch(c, {asked[c]})

\* Mutant: set_config's third argument is false.
SettingOfSession(c) == setting[c]

SettingAfter(c) == None

\* Commit, rollback or an exception: the connection goes back to the pool.
Close(c) ==
    /\ pc[c] # "pool"
    /\ pc' = [pc EXCEPT ![c] = "pool"]
    /\ op' = [op EXCEPT ![c] = "all"]
    /\ asked' = [asked EXCEPT ![c] = None]
    /\ target' = [target EXCEPT ![c] = None]
    /\ touched' = [touched EXCEPT ![c] = {}]
    /\ setting' = [setting EXCEPT ![c] = SettingAfter(c)]
    /\ UNCHANGED <<bypass, owner, used>>

Next ==
    \E c \in Connections :
        \/ Checkout(c)
        \/ CheckoutPlain(c)
        \/ Bind(c)
        \/ Query(c)
        \/ Insert(c)
        \/ Close(c)

Spec == Init /\ [][Next]_vars

-----------------------------------------------------------------------------
\* A request for a company returns, makes and deletes rows of that company
\* alone, also by another's id and also where the role bypasses the policies;
\* a session that is for no company sees rows only where it does: no setting
\* outlives its transaction on a pooled connection (database.py:23-28,
\* repositories.py:169-279).
TenantsApart ==
    \A c \in Connections :
        /\ asked[c] # None => touched[c] \subseteq {asked[c]}
        /\ asked[c] = None /\ ~bypass => touched[c] = {}

\* What makes TenantsApart inductive: the setting of a connection is that of
\* its request once it is bound, and none in the pool and until then.
SettingIsOfRequest ==
    \A c \in Connections :
        /\ pc[c] \in {"pool", "open"} => setting[c] = None
        /\ pc[c] = "bound" => setting[c] = asked[c]
        /\ op[c] = "all" <=> asked[c] = None
        /\ pc[c] # "done" => touched[c] = {}
=============================================================================
