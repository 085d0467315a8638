----------------------------- MODULE DatabaseSeed -----------------------------
(***************************************************************************)
(* The start of the API container: python -m app.infrastructure.seed, and  *)
(* uvicorn only if it succeeds. The seed is one transaction for the demo   *)
(* companies, the administrator and its memberships, and then one for the  *)
(* services of each company; each selects what is there and inserts what   *)
(* is missing. Starts may overlap, die at any statement and be repeated    *)
(* with another BOOTSTRAP_ADMIN_EMAIL; the panel edits companies.          *)
(*                                                                         *)
(* Transactions are READ COMMITTED, as in MessageProcessing. The           *)
(* administrator's row has a fixed id (seed.py:62), so that there is at    *)
(* most one, whatever its email. What is inserted for a company's services *)
(* is committed together, so a company has all of them or none.            *)
(***************************************************************************)
EXTENDS Integers, Sequences

CONSTANTS
    Companies,  \* TENANTS, a sequence
    Starters,   \* API processes
    Emails,     \* values of BOOTSTRAP_ADMIN_EMAIL
    NoEmail     \* no email: production without one, or no administrator row

Tenants == {Companies[i] : i \in DOMAIN Companies}

ConstantsOK ==
    /\ Companies \in Seq(Tenants) /\ Companies # <<>>
    /\ NoEmail \notin Emails

VARIABLES
    \* --- committed rows
    profile,    \* the profile of each company's row
    admin,      \* the email of the administrator's row
    owners,     \* companies of which the administrator is an owner
    stocked,    \* companies whose services are there
    \* --- starts
    pc, email,
    missing,    \* companies it has found missing, and then inserted
    newAdmin,   \* its open transaction has inserted the account
    at,         \* the company whose services it is at
    overlapped, \* history: starts during which another one seeded
    edited      \* history: companies the panel has edited

rowVars == <<profile, admin, owners, stocked>>
startVars == <<pc, email, missing, newAdmin, at>>
history == <<overlapped, edited>>
vars == <<rowVars, startVars, history>>

Seeding == {"companies", "insert", "admin", "account", "members",
            "services", "stock"}   \* the statement a seeding start is at

TypeOK ==
    /\ profile \in [Tenants -> {"none", "seed", "edited"}]
    /\ admin \in Emails \union {NoEmail}
    /\ owners \subseteq Tenants /\ stocked \subseteq Tenants
    /\ pc \in [Starters -> Seeding \union {"off", "serving", "refused"}]
    /\ email \in [Starters -> Emails \union {NoEmail}]
    /\ missing \in [Starters -> SUBSET Tenants]
    /\ newAdmin \in [Starters -> BOOLEAN]
    /\ at \in [Starters -> 1..(Len(Companies) + 1)]
    /\ overlapped \subseteq Starters /\ edited \subseteq Tenants

Init ==
    /\ profile = [t \in Tenants |-> "none"]
    /\ admin = NoEmail
    /\ owners = {}
    /\ stocked = {}
    /\ pc = [p \in Starters |-> "off"]
    /\ email = [p \in Starters |-> NoEmail]
    /\ missing = [p \in Starters |-> {}]
    /\ newAdmin = [p \in Starters |-> FALSE]
    /\ at = [p \in Starters |-> 1]
    /\ overlapped = {}
    /\ edited = {}

Present == {t \in Tenants : profile[t] # "none"}

Goto(p, point) == pc' = [pc EXCEPT ![p] = point]

\* The seed raises: its transaction is rolled back and uvicorn is not run.
Refuse(p) ==
    /\ Goto(p, "refused")
    /\ missing' = [missing EXCEPT ![p] = {}]
    /\ newAdmin' = [newAdmin EXCEPT ![p] = FALSE]
    /\ UNCHANGED <<rowVars, email, at, history>>

-----------------------------------------------------------------------------
Others(p) == {q \in Starters \ {p} : pc[q] \in Seeding}

Begin(p) ==
    /\ pc[p] \notin Seeding
    /\ Goto(p, "companies")
    /\ \E e \in Emails \union {NoEmail} : email' = [email EXCEPT ![p] = e]
    /\ at' = [at EXCEPT ![p] = 1]
    /\ overlapped' = IF Others(p) = {} THEN overlapped \ {p}
                     ELSE overlapped \union Others(p) \union {p}
    /\ UNCHANGED <<rowVars, missing, newAdmin, edited>>

Absent == Tenants \ Present

\* session.get of each company.
SelectCompanies(p) ==
    /\ pc[p] = "companies"
    /\ missing' = [missing EXCEPT ![p] = Absent]
    /\ Goto(p, "insert")
    /\ UNCHANGED <<rowVars, email, newAdmin, at, history>>

\* The flush waits for an open transaction that has inserted the same company,
\* and fails if one was committed.
InsertCompanies(p) ==
    /\ pc[p] = "insert"
    /\ \A q \in Starters \ {p} :
        pc[q] \in {"admin", "account", "members"} =>
            missing[q] \intersect missing[p] = {}
    /\ IF missing[p] \intersect Present # {}
       THEN Refuse(p)
       ELSE /\ Goto(p, "admin")
            /\ UNCHANGED <<rowVars, email, missing, newAdmin, at, history>>

\* Mutant: the email is compared as it is written.
AccountOfUnfolded(p) == "account"

\* The account is looked up by its email.
AccountOf(p) == IF admin = email[p] THEN "members" ELSE "account"

\* Production without BOOTSTRAP_ADMIN_EMAIL raises first.
SelectAdmin(p) ==
    /\ pc[p] = "admin"
    /\ IF email[p] = NoEmail
       THEN Refuse(p)
       ELSE /\ Goto(p, AccountOf(p))
            /\ UNCHANGED <<rowVars, email, missing, newAdmin, at, history>>

\* The insert of the fixed id.
InsertAdmin(p) ==
    /\ pc[p] = "account"
    /\ \A q \in Starters \ {p} : ~newAdmin[q]
    /\ IF admin # NoEmail
       THEN Refuse(p)
       ELSE /\ Goto(p, "members")
            /\ newAdmin' = [newAdmin EXCEPT ![p] = TRUE]
            /\ UNCHANGED <<rowVars, email, missing, at, history>>

\* Mutant: session.merge instead of get and add, which updates a row.
WrittenByMerge(p) == Tenants

Written(p) == missing[p]

\* The memberships that are missing, and the commit.
CommitFirst(p) ==
    /\ pc[p] = "members"
    /\ profile' = [t \in Tenants |-> IF t \in Written(p) THEN "seed" ELSE profile[t]]
    /\ admin' = email[p]
    /\ owners' = Tenants
    /\ missing' = [missing EXCEPT ![p] = {}]
    /\ newAdmin' = [newAdmin EXCEPT ![p] = FALSE]
    /\ Goto(p, "services")
    /\ UNCHANGED <<stocked, email, at, history>>

\* Mutant: a company that was there before has its services.
OnlyNew(p) == {}

\* The services of company at[p] that its transaction finds missing.
Unstocked(p) == {Companies[at[p]]} \ stocked

SelectServices(p) ==
    /\ pc[p] = "services"
    /\ missing' = [missing EXCEPT ![p] = Unstocked(p)]
    /\ Goto(p, "stock")
    /\ UNCHANGED <<rowVars, email, newAdmin, at, history>>

\* uq_services_tenant_name fails the commit if another start came first;
\* after the last company, uvicorn starts.
CommitServices(p) ==
    /\ pc[p] = "stock"
    /\ IF missing[p] \intersect stocked # {}
       THEN Refuse(p)
       ELSE /\ stocked' = stocked \union missing[p]
            /\ missing' = [missing EXCEPT ![p] = {}]
            /\ at' = [at EXCEPT ![p] = @ + 1]
            /\ Goto(p, IF at[p] = Len(Companies) THEN "serving" ELSE "services")
            /\ UNCHANGED <<profile, admin, owners, email, newAdmin, history>>

\* The process dies or is stopped, and its transaction is rolled back.
Stop(p) ==
    /\ pc[p] # "off"
    /\ Goto(p, "off")
    /\ missing' = [missing EXCEPT ![p] = {}]
    /\ newAdmin' = [newAdmin EXCEPT ![p] = FALSE]
    /\ UNCHANGED <<rowVars, email, at, history>>

\* update_profile, of a request to a serving process.
Edit(t) ==
    /\ \E p \in Starters : pc[p] = "serving"
    /\ profile[t] # "none"
    /\ profile' = [profile EXCEPT ![t] = "edited"]
    /\ edited' = edited \union {t}
    /\ UNCHANGED <<admin, owners, stocked, startVars, overlapped>>

Next ==
    \/ \E p \in Starters :
        \/ Begin(p)
        \/ SelectCompanies(p)
        \/ InsertCompanies(p)
        \/ SelectAdmin(p)
        \/ InsertAdmin(p)
        \/ CommitFirst(p)
        \/ SelectServices(p)
        \/ CommitServices(p)
        \/ Stop(p)
    \/ \E t \in Tenants : Edit(t)

Spec == Init /\ [][Next]_vars

-----------------------------------------------------------------------------
(* Properties.                                                              *)

\* A process that serves has a database with everything the seed promises: the
\* companies, its own administrator as owner of each, and their services,
\* wherever earlier starts died between the transactions (seed.py:36-100).
ServingIsSeeded ==
    \A p \in Starters : pc[p] = "serving" =>
        /\ Present = Tenants /\ owners = Tenants /\ stocked = Tenants
        /\ admin = email[p]

\* A start is refused only if another one seeded meanwhile, if it has no email
\* in production, or if the administrator was created with another email: the
\* configured one can never change (seed.py:59-67).
RefusedForCause ==
    \A p \in Starters : pc[p] = "refused" =>
        p \in overlapped \/ email[p] = NoEmail \/ admin # email[p]

\* What the panel saved is never overwritten by a later start (seed.py:38-39).
EditsSurvive == \A t \in edited : profile[t] = "edited"
=============================================================================
