------------------------------- MODULE Service -------------------------------
(***************************************************************************)
(* The parts of the FastAPI service beside the path of a message: the      *)
(* panel's knowledge library, settings and sessions, the choice of a reply *)
(* and the knowledge it is made from, the seed of the database and the     *)
(* isolation of companies in it. They are modelled apart and share no      *)
(* variable, so that no interleaving of two of them says more than each    *)
(* alone: a behaviour is one of the part that is chosen at the start.      *)
(***************************************************************************)
EXTENDS Integers, Sequences, FiniteSets

CONSTANTS
    Sources, FileRequests, NoSource,
    Saves, Texts, Hints, NoKey, None,
    Sessions, SessionRequests, TTL, MaxTime, NoSession,
    Names, LowerCase, Invented, NoService, Minimum, Confidences,
    Titles, Own, Lengths, Newest, Budget, MaxSources,
    Companies, Starters, SeedEmails, NoEmail,
    Connections, RowIds

VARIABLES
    part,
    fRows, fFiles, fUpload, fPc, fTarget, fUncertain, fCut, fRemoved, fBroken,
    aProfile, aConfiguration, aPc, aForm, aBase, aCurrent, aLoaded, aLatest,
    aGiven, aOverlapped,
    sNow, sLogin, sExpires, sRows, sPc, sToken, sAsked, sSignedOut, sLate,
    rCatalogue, rStored, rGlobal, rWords, rMentioned, rPc, rKey, rResult,
    rSearched, rReply,
    kSources, kStored,
    dProfile, dAdmin, dOwners, dStocked, dPc, dEmail, dMissing, dNewAdmin, dAt,
    dOverlapped, dEdited,
    tBypass, tOwner, tUsed, tPc, tOp, tAsked, tTarget, tSetting, tTouched

fVars == <<fRows, fFiles, fUpload, fPc, fTarget, fUncertain, fCut, fRemoved, fBroken>>
aVars == <<aProfile, aConfiguration, aPc, aForm, aBase, aCurrent, aLoaded,
           aLatest, aGiven, aOverlapped>>
sVars == <<sNow, sLogin, sExpires, sRows, sPc, sToken, sAsked, sSignedOut,
           sLate>>
rVars == <<rCatalogue, rStored, rGlobal, rWords, rMentioned, rPc, rKey, rResult,
           rSearched, rReply>>
kVars == <<kSources, kStored>>
dVars == <<dProfile, dAdmin, dOwners, dStocked, dPc, dEmail, dMissing, dNewAdmin,
           dAt, dOverlapped, dEdited>>
tVars == <<tBypass, tOwner, tUsed, tPc, tOp, tAsked, tTarget, tSetting, tTouched>>

Files == INSTANCE KnowledgeFiles WITH
    Requests <- FileRequests,
    rows <- fRows, files <- fFiles, upload <- fUpload, pc <- fPc,
    target <- fTarget, uncertain <- fUncertain, cut <- fCut,
    removed <- fRemoved, broken <- fBroken

Settings == INSTANCE AdminSettings WITH
    profile <- aProfile, configuration <- aConfiguration, pc <- aPc,
    form <- aForm, base <- aBase, current <- aCurrent, loaded <- aLoaded,
    latest <- aLatest, given <- aGiven, overlapped <- aOverlapped

Logins == INSTANCE PanelSessions WITH
    Requests <- SessionRequests,
    now <- sNow, login <- sLogin, expires <- sExpires, rows <- sRows,
    pc <- sPc, token <- sToken, asked <- sAsked, signedOut <- sSignedOut,
    late <- sLate

Replies == INSTANCE ReplySelection WITH
    catalogue <- rCatalogue, stored <- rStored, global <- rGlobal,
    words <- rWords, mentioned <- rMentioned, pc <- rPc, key <- rKey,
    result <- rResult, searched <- rSearched, reply <- rReply

Knowledge == INSTANCE CompanyKnowledge WITH sources <- kSources, stored <- kStored

Seeds == INSTANCE DatabaseSeed WITH
    Emails <- SeedEmails,
    profile <- dProfile, admin <- dAdmin, owners <- dOwners,
    stocked <- dStocked, pc <- dPc, email <- dEmail, missing <- dMissing,
    newAdmin <- dNewAdmin, at <- dAt, overlapped <- dOverlapped,
    edited <- dEdited

TenantIds == {Companies[i] : i \in DOMAIN Companies}

Rows == INSTANCE TenantIsolation WITH
    Tenants <- TenantIds, Ids <- RowIds,
    bypass <- tBypass, owner <- tOwner, used <- tUsed, pc <- tPc, op <- tOp,
    asked <- tAsked, target <- tTarget, setting <- tSetting,
    touched <- tTouched

ASSUME ServiceAssumption ==
    /\ Files!ConstantsOK
    /\ Settings!ConstantsOK
    /\ Logins!ConstantsOK
    /\ Replies!ConstantsOK
    /\ Knowledge!ConstantsOK
    /\ Seeds!ConstantsOK
    /\ Rows!ConstantsOK

-----------------------------------------------------------------------------
\* What is chosen at the start of one part is fixed in a behaviour of another.
Init ==
    /\ part \in {"files", "settings", "sessions", "replies", "knowledge", "seed",
                "tenants"}
    /\ Files!Init
    /\ Settings!Init
    /\ Logins!Init
    /\ part # "replies" => /\ rCatalogue = <<>> /\ rStored = "none"
                           /\ rGlobal = FALSE /\ rWords = {} /\ rMentioned = {}
    /\ Replies!Init
    /\ Knowledge!Init
    /\ Seeds!Init
    /\ part # "tenants" => tBypass = FALSE
    /\ Rows!Init

NextFiles ==
    /\ part = "files"
    /\ Files!Next
    /\ UNCHANGED <<aVars, sVars, rVars, kVars, dVars, tVars, part>>

NextSettings ==
    /\ part = "settings"
    /\ Settings!Next
    /\ UNCHANGED <<fVars, sVars, rVars, kVars, dVars, tVars, part>>

NextSessions ==
    /\ part = "sessions"
    /\ Logins!Next
    /\ UNCHANGED <<fVars, aVars, rVars, kVars, dVars, tVars, part>>

NextReplies ==
    /\ part = "replies"
    /\ Replies!Next
    /\ UNCHANGED <<fVars, aVars, sVars, kVars, dVars, tVars, part>>

NextKnowledge ==
    /\ part = "knowledge"
    /\ Knowledge!Next
    /\ UNCHANGED <<fVars, aVars, sVars, rVars, dVars, tVars, part>>

NextSeed ==
    /\ part = "seed"
    /\ Seeds!Next
    /\ UNCHANGED <<fVars, aVars, sVars, rVars, kVars, tVars, part>>

NextTenants ==
    /\ part = "tenants"
    /\ Rows!Next
    /\ UNCHANGED <<fVars, aVars, sVars, rVars, kVars, dVars, part>>

Next ==
    \/ NextFiles \/ NextSettings \/ NextSessions \/ NextReplies
    \/ NextKnowledge \/ NextSeed \/ NextTenants

Spec == Init /\ [][Next]_<<fVars, aVars, sVars, rVars, kVars, dVars, tVars, part>>

-----------------------------------------------------------------------------
(* The properties of the parts, under names of their own.                   *)

\* Every variable of the parts keeps its type.
TypesOK ==
    /\ Files!TypeOK
    /\ Settings!TypeOK
    /\ Logins!TypeOK
    /\ Replies!TypeOK
    /\ Knowledge!TypeOK
    /\ Seeds!TypeOK
    /\ Rows!TypeOK

\* KnowledgeFiles: a row names a file that is there, whatever is uploaded,
\* removed or cut off around it; a file without a row belongs to a request that
\* is at work on it or was cut off; and a document that is listed and cannot be
\* read was removed meanwhile (main.py:376-387, 396-400, 413-417).
FilesAgree == Files!FilesAgree

\* AdminSettings: the latest save, answered "saved" and overlapped by no other,
\* has left its whole form in both rows; the key stored is the last one given,
\* unless saves overlapped; and the hint shown is that of the key stored, unless
\* saves overlapped and two keys end alike (main.py:272-299,
\* repositories.py:221-232).
SettingsAgree ==
    /\ Settings!SavedIsStored
    /\ Settings!KeyLostOnlyByOverlap
    /\ Settings!HintIsOfKey

\* PanelSessions: the sessions keep what SessionStore promises
\* (repositories.py:59-103).
ImplementsSessionStore == Logins!ImplementsSessionStore

\* ReplySelection: neither slots nor a payment link are offered on a decision of
\* the model below the minimum confidence or on one that asks for a person,
\* slots are those of a service of the company, and a text that asks for a
\* person is handed to one by the rules (tenant_ai.py:53-55,
\* openai_adapter.py:112-116, adapters.py:97-101).
ReplyIsSafe ==
    /\ Replies!ActsOnlyWhenSure
    /\ Replies!BooksOwnService
    /\ Replies!PersonWhenAsked

\* ReplySelection: no failure of the model leaves a message without a reply,
\* but for one to close its client (tenant_ai.py:36-55).
RepliesWhateverTheModel == Replies!RepliesWhateverTheModel

\* CompanyKnowledge: a company is loaded with the newest texts that fit, except
\* that an older text replaces a newer one of its title, and a question that
\* names a title is answered from them (repositories.py:150-157,
\* strategies.py:47-50).
KnowledgeIsExact == Knowledge!LoadIsExact /\ Knowledge!FaqAnswersWhatIsNamed

\* DatabaseSeed: a process that serves has a seeded database and its own
\* administrator, a start is refused only for an overlap or its email, and no
\* start overwrites what the panel saved (seed.py:36-100).
SeedAgrees ==
    /\ Seeds!ServingIsSeeded
    /\ Seeds!RefusedForCause
    /\ Seeds!EditsSurvive

\* TenantIsolation: a request touches rows of its own company alone, whatever
\* the role of the database and the last user of the connection, whose company
\* its setting no longer is (database.py:23-28, repositories.py:169-279).
TenantsApart == Rows!TenantsApart /\ Rows!SettingIsOfRequest
=============================================================================
