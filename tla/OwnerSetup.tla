----------------------------- MODULE OwnerSetup -----------------------------
(***************************************************************************)
(* How companies and their owners come to exist in the Cloudflare          *)
(* deployment: setupOwner creates an owner account, and its company if     *)
(* need be, in one D1 batch, and answers with the access key, of which     *)
(* only the hash is kept; createTenant creates or renames a company alone; *)
(* tenantSettings saves what its bot is called and how it talks. The batch *)
(* is a transaction, but the check for an account with the same email      *)
(* before it, and the call to the company's Durable Object after it, are   *)
(* not part of it; a save is a statement for the row, one for the audit,   *)
(* and the whole GET for its answer.                                       *)
(*                                                                         *)
(* A setup stands for the key it makes: the account of an email is the     *)
(* setup that inserted it. A save stands for its form.                     *)
(***************************************************************************)
EXTENDS Integers, FiniteSets

CONSTANTS
    Setups,     \* requests to create an owner
    Upserts,    \* requests to create or rename a company
    Saves,      \* requests to save a company's settings
    Emails,
    Tenants,
    None        \* nobody, and what a new setup asks for

ConstantsOK ==
    /\ None \notin Setups \union Upserts \union Saves \union Emails \union Tenants
    /\ Saves \intersect Setups = {}

VARIABLES
    account,    \* the row of users for each email
    named,      \* the row of tenants: the request that last named it
    settings,   \* the row of tenant_settings: the setup or save that wrote it
    owners,     \* the rows of tenant_memberships
    pc,         \* how far each setup is
    email,      \* what its form asks for
    tenant,
    upserted,   \* requests of createTenant that were carried out
    saving,     \* how far each save is
    company,    \* the company it is for
    lastSave    \* history: the save that last wrote each company's settings

tables == <<account, named, settings, owners>>
savers == <<saving, company, lastSave>>
vars == <<tables, pc, email, tenant, upserted, savers>>

Writers == Setups \union Upserts \union {None}

TypeOK ==
    /\ account \in [Emails -> Setups \union {None}]
    /\ named \in [Tenants -> Writers]
    /\ settings \in [Tenants -> Setups \union Saves \union {None}]
    /\ owners \subseteq {t \in Tenants : named[t] # None}
                     \X {e \in Emails : account[e] # None}
    /\ \A t \in Tenants : settings[t] # None => named[t] # None
    /\ pc \in [Setups -> {"new", "checked", "created", "shown", "refused"}]
    /\ email \in [Setups -> Emails \union {None}]
    /\ tenant \in [Setups -> Tenants \union {None}]
    /\ \A s \in Setups : pc[s] # "new" => email[s] # None /\ tenant[s] # None
    /\ upserted \subseteq Upserts
    /\ saving \in [Saves -> {"new", "admitted", "written", "audited", "saved",
                             "failed"}]
    /\ company \in [Saves -> Tenants \union {None}]
    /\ \A v \in Saves : saving[v] = "new" <=> company[v] = None
    /\ lastSave \in [Tenants -> Saves \union {None}]

Init ==
    /\ account = [e \in Emails |-> None]
    /\ named = [t \in Tenants |-> None]
    /\ settings = [t \in Tenants |-> None]
    /\ owners = {}
    /\ pc = [s \in Setups |-> "new"]
    /\ email = [s \in Setups |-> None]
    /\ tenant = [s \in Setups |-> None]
    /\ upserted = {}
    /\ saving = [v \in Saves |-> "new"]
    /\ company = [v \in Saves |-> None]
    /\ lastSave = [t \in Tenants |-> None]

Goto(s, step) ==
    /\ pc' = [pc EXCEPT ![s] = step]
    /\ UNCHANGED <<email, tenant, upserted, savers>>

IsFree(e) == account[e] = None

-----------------------------------------------------------------------------
(* setupOwner and createOwnerAccess.                                        *)

\* SELECT id FROM users; an account of that email is answered with 409.
Check(s, e, t) ==
    /\ pc[s] = "new"
    /\ pc' = [pc EXCEPT ![s] = IF IsFree(e) THEN "checked" ELSE "refused"]
    /\ email' = [email EXCEPT ![s] = e]
    /\ tenant' = [tenant EXCEPT ![s] = t]
    /\ UNCHANGED <<tables, upserted, savers>>

\* Mutant: the email is not unique.
AnyEmail(e) == TRUE

\* users.email is UNIQUE.
Insertable(e) == IsFree(e)

\* Mutant: the statements on the company are not part of the batch.
OwnerAlone(s) ==
    /\ account' = [account EXCEPT ![email[s]] = s]
    /\ UNCHANGED <<named, settings, owners>>

\* Mutant: the default settings are written over those there are.
DefaultsAgain(s, row) == s

\* ON CONFLICT(tenant_id) DO NOTHING.
Defaults(s, row) == IF row = None THEN s ELSE row

\* GLOBAL_DB.batch.
Batch(s) ==
    /\ account' = [account EXCEPT ![email[s]] = s]
    /\ named' = [named EXCEPT ![tenant[s]] = s]
    /\ settings' = [settings EXCEPT ![tenant[s]] = Defaults(s, @)]
    /\ owners' = owners \union {<<tenant[s], email[s]>>}

Create(s) ==
    /\ pc[s] = "checked"
    /\ Insertable(email[s])
    /\ Batch(s)
    /\ Goto(s, "created")

\* The batch is committed and its answer is lost: 409.
CreateUnanswered(s) ==
    /\ pc[s] = "checked"
    /\ Insertable(email[s])
    /\ Batch(s)
    /\ Goto(s, "refused")

\* The batch is rolled back, as it is when the email was inserted meanwhile.
CreateThrows(s) ==
    /\ pc[s] = "checked"
    /\ Goto(s, "refused")
    /\ UNCHANGED tables

\* The Durable Object answers, and 201 carries the key.
Show(s) ==
    /\ pc[s] = "created"
    /\ Goto(s, "shown")
    /\ UNCHANGED tables

\* summary() throws: 409, or the answer does not arrive.
ShowThrows(s) ==
    /\ pc[s] = "created"
    /\ Goto(s, "refused")
    /\ UNCHANGED tables

-----------------------------------------------------------------------------
\* createTenant: an upsert of the company alone.
UpsertTenant(u, t) ==
    /\ u \notin upserted
    /\ upserted' = upserted \union {u}
    /\ named' = [named EXCEPT ![t] = u]
    /\ UNCHANGED <<account, settings, owners, pc, email, tenant, savers>>

-----------------------------------------------------------------------------
(* tenantSettings with PUT.                                                 *)

SaveGoto(v, step) == saving' = [saving EXCEPT ![v] = step]

others == <<account, named, owners, pc, email, tenant, upserted>>

\* The member or administrator is let in and the company is active.
Admit(v, t) ==
    /\ saving[v] = "new"
    /\ named[t] # None
    /\ SaveGoto(v, "admitted")
    /\ company' = [company EXCEPT ![v] = t]
    /\ UNCHANGED <<others, settings, lastSave>>

\* INSERT ... ON CONFLICT(tenant_id) DO UPDATE; the answer of the statement
\* may be lost.
WriteSettings(v) ==
    /\ saving[v] = "admitted"
    /\ settings' = [settings EXCEPT ![company[v]] = v]
    /\ lastSave' = [lastSave EXCEPT ![company[v]] = v]
    /\ \E step \in {"written", "failed"} : SaveGoto(v, step)
    /\ UNCHANGED <<others, company>>

\* "settings.updated".
AuditSave(v) ==
    /\ saving[v] = "written"
    /\ SaveGoto(v, "audited")
    /\ UNCHANGED <<others, settings, company, lastSave>>

\* The GET the request goes on as reads the row.
AnswerSave(v) ==
    /\ saving[v] = "audited"
    /\ SaveGoto(v, "saved")
    /\ UNCHANGED <<others, settings, company, lastSave>>

\* The form is refused, a statement throws, or the session has ended by the
\* GET; what was written stays.
SaveFails(v) ==
    /\ saving[v] \in {"admitted", "written", "audited"}
    /\ SaveGoto(v, "failed")
    /\ UNCHANGED <<others, settings, company, lastSave>>

SaveSettings(v) ==
    \/ \E t \in Tenants : Admit(v, t)
    \/ WriteSettings(v)
    \/ AuditSave(v)
    \/ AnswerSave(v)
    \/ SaveFails(v)

Setup(s) ==
    \/ \E e \in Emails, t \in Tenants : Check(s, e, t)
    \/ Create(s)
    \/ CreateUnanswered(s)
    \/ CreateThrows(s)
    \/ Show(s)
    \/ ShowThrows(s)

Next ==
    \/ \E s \in Setups : Setup(s)
    \/ \E u \in Upserts, t \in Tenants : UpsertTenant(u, t)
    \/ \E v \in Saves : SaveSettings(v)

Spec == Init /\ [][Next]_vars

-----------------------------------------------------------------------------
(* Properties.                                                              *)

\* A key that was shown stays the key of its account, and no two keys are
\* shown for one email, although the check and the insert are apart
\* (auth.ts:62-90).
ShownKeyWorks == \A s \in Setups : pc[s] = "shown" => account[email[s]] = s

\* An owner is never without the company, its settings and the membership,
\* whatever other setups and upserts do to the same company (auth.ts:75-100).
OwnerHasCompany ==
    \A e \in Emails : account[e] # None =>
        LET t == tenant[account[e]] IN
        named[t] # None /\ settings[t] # None /\ <<t, e>> \in owners

\* What a company has saved is not lost to the defaults of a further owner's
\* setup, whenever it is committed, nor to one that renames the company; a
\* save that was answered, or only failed after its statement, is what the
\* next reader sees until another save (auth.ts:77-79, index.ts:326-345).
SettingsSurvive ==
    /\ \A t \in Tenants : lastSave[t] # None => settings[t] = lastSave[t]
    /\ \A v \in Saves : saving[v] = "saved" => lastSave[company[v]] # None

\* The three together: accounts, companies and their settings agree.
OwnersAgree == ShownKeyWorks /\ OwnerHasCompany /\ SettingsSurvive
=============================================================================
