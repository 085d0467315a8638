-------------------------------- MODULE Cloud --------------------------------
(***************************************************************************)
(* The panel of the Cloudflare deployment: its knowledge base, its         *)
(* integrations, its owners with their companies' settings, and its        *)
(* sessions. They share no table, vector or variable, so that no           *)
(* interleaving of two of them says more than each alone: a behaviour is   *)
(* one of the part that is chosen at the start.                            *)
(***************************************************************************)
EXTENDS Integers, FiniteSets

CONSTANTS
    Sources, Fragments, Removals, NoSource,
    Saves, Tests, NoSave,
    Setups, Upserts, SettingsSaves, Emails, Tenants, None,
    Sessions, Requests, TTL, Second, MaxTime, NoSession

VARIABLES
    part,
    vRows, vVectors, vLate, vUpload, vPc, vTarget, vAudits, vUnsure, vFaulty,
    iRow, iVerdict, iSave, iLoaded, iTest, iTarget, iSeen, iIntended,
    iOvertaken, iAccepted, iCrossed,
    oAccount, oNamed, oSettings, oOwners, oPc, oEmail, oTenant, oUpserted,
    oSaving, oCompany, oLastSave,
    sNow, sLogin, sExpires, sRows, sPc, sToken, sSignedOut, sStale

vVars == <<vRows, vVectors, vLate, vUpload, vPc, vTarget, vAudits, vUnsure, vFaulty>>
iVars == <<iRow, iVerdict, iSave, iLoaded, iTest, iTarget, iSeen, iIntended,
           iOvertaken, iAccepted, iCrossed>>
oVars == <<oAccount, oNamed, oSettings, oOwners, oPc, oEmail, oTenant, oUpserted,
           oSaving, oCompany, oLastSave>>
sVars == <<sNow, sLogin, sExpires, sRows, sPc, sToken, sSignedOut, sStale>>

Knowledge == INSTANCE VectorKnowledge WITH
    rows <- vRows, vectors <- vVectors, late <- vLate, upload <- vUpload,
    pc <- vPc, target <- vTarget, audits <- vAudits, unsure <- vUnsure,
    faulty <- vFaulty

Connections == INSTANCE Integrations WITH
    row <- iRow, verdict <- iVerdict, save <- iSave, loaded <- iLoaded,
    test <- iTest, target <- iTarget, seen <- iSeen, intended <- iIntended,
    overtaken <- iOvertaken, accepted <- iAccepted, crossed <- iCrossed

Owners == INSTANCE OwnerSetup WITH
    Saves <- SettingsSaves,
    account <- oAccount, named <- oNamed, settings <- oSettings,
    owners <- oOwners, pc <- oPc, email <- oEmail, tenant <- oTenant,
    upserted <- oUpserted, saving <- oSaving, company <- oCompany,
    lastSave <- oLastSave

Logins == INSTANCE CloudflareSessions WITH
    now <- sNow, login <- sLogin, expires <- sExpires, rows <- sRows,
    pc <- sPc, token <- sToken, signedOut <- sSignedOut, stale <- sStale

ASSUME CloudAssumption ==
    /\ Knowledge!ConstantsOK
    /\ Connections!ConstantsOK
    /\ Owners!ConstantsOK
    /\ Logins!ConstantsOK

-----------------------------------------------------------------------------
Init ==
    /\ part \in {"knowledge", "integrations", "owners", "sessions"}
    /\ Knowledge!Init
    /\ Connections!Init
    /\ Owners!Init
    /\ Logins!Init

NextKnowledge ==
    /\ part = "knowledge"
    /\ Knowledge!Next
    /\ UNCHANGED <<iVars, oVars, sVars, part>>

NextIntegrations ==
    /\ part = "integrations"
    /\ Connections!Next
    /\ UNCHANGED <<vVars, oVars, sVars, part>>

NextOwners ==
    /\ part = "owners"
    /\ Owners!Next
    /\ UNCHANGED <<vVars, iVars, sVars, part>>

NextSessions ==
    /\ part = "sessions"
    /\ Logins!Next
    /\ UNCHANGED <<vVars, iVars, oVars, part>>

Next == NextKnowledge \/ NextIntegrations \/ NextOwners \/ NextSessions

Spec == Init /\ [][Next]_<<vVars, iVars, oVars, sVars, part>>

-----------------------------------------------------------------------------
(* The properties of the parts, under names of their own.                   *)

\* Every variable of the parts keeps its type.
TypesOK ==
    /\ Knowledge!TypeOK
    /\ Connections!TypeOK
    /\ Owners!TypeOK
    /\ Logins!TypeOK

\* VectorKnowledge: a listed source has the vectors of all its fragments,
\* vectors without a row belong to a request at work or to a clean-up that
\* failed, and a removal that was audited removed everything for good and is
\* the only one of its source (index.ts:241-248, 407-420).
VectorsAgree ==
    /\ Knowledge!ListedIsSearchable
    /\ Knowledge!OrphanOnlyByFault
    /\ Knowledge!AuditedIsGone
    /\ Knowledge!AuditedOnce

\* Integrations: the credential stored is the one last supplied, unless a save
\* that kept it was overtaken by another; and "connected" is shown for a row
\* the provider has accepted, unless the row was written during the test
\* (integrations.ts:143-186, 202-243).
IntegrationsAgree ==
    /\ Connections!CredentialLostOnlyByOverlap
    /\ Connections!ConnectedWasAccepted

\* OwnerSetup: the key shown for an email is the one of its account, also when
\* two setups of one email pass the check together; the owner has a company,
\* its settings and a membership; and no setup overwrites settings that were
\* saved (auth.ts:62-100, index.ts:326-345).
OwnersAgree == Owners!OwnersAgree

\* CloudflareSessions: the sessions keep what SessionStore promises
\* (auth.ts:112-134, index.ts:555-557).
ImplementsSessionStore == Logins!ImplementsSessionStore
=============================================================================
