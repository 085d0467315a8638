------------------------------ MODULE CloudProofs -----------------------------
(***************************************************************************)
(* Theorems about the panel of the Cloudflare deployment, for any sources, *)
(* saves, tests, setups, emails, sessions and requests.                    *)
(***************************************************************************)
EXTENDS Cloud, TLAPS

\* A behaviour of Cloud is one of each of its parts.
LEMMA PartsRun ==
    Spec => Knowledge!Spec /\ Connections!Spec /\ Owners!Spec /\ Logins!Spec
PROOF
<1> DEFINE vars == <<vVars, iVars, oVars, sVars, part>>
<1>1. Init => Knowledge!Init /\ Connections!Init /\ Owners!Init /\ Logins!Init
  BY DEF Init
<1> USE DEF NextKnowledge, NextIntegrations, NextOwners, NextSessions
<1>2. [Next]_vars => [Knowledge!Next]_(Knowledge!vars)
  BY DEF Next, vVars, Knowledge!vars, Knowledge!removalVars,
         Knowledge!historyVars
<1>3. [Next]_vars => [Connections!Next]_(Connections!vars)
  BY DEF Next, iVars, Connections!vars, Connections!saveVars,
         Connections!testVars, Connections!historyVars
<1>4. [Next]_vars => [Owners!Next]_(Owners!vars)
  BY DEF Next, oVars, Owners!vars, Owners!tables, Owners!savers
<1>5. [Next]_vars => [Logins!Next]_(Logins!vars)
  BY DEF Next, sVars, Logins!vars
<1> QED
  BY <1>1, <1>2, <1>3, <1>4, <1>5, PTL
     DEF Spec, Knowledge!Spec, Connections!Spec, Owners!Spec, Logins!Spec

-----------------------------------------------------------------------------
(* The knowledge base: VectorKnowledge.                                     *)

\* A source has no row before its upload has stored its vectors, none at all if
\* its upsert is late, and one its upload does not know of only if a call threw.
UploadsAreBehind ==
    \A s \in Sources :
        /\ vUpload[s] \in {"new", "stored"} =>
            /\ s \notin vRows \union vUnsure \union vLate
            /\ vVectors[s] = IF vUpload[s] = "new" THEN {} ELSE Fragments
        /\ vUpload[s] = "undo" /\ s \in vRows => s \in vUnsure
        /\ s \in vLate => s \notin vRows /\ vAudits[s] = 0
        /\ vAudits[s] > 0 => vUpload[s] \notin {"new", "stored"}

Works(r, s) == vPc[r] # "idle" /\ vTarget[r] = s

\* The removal that deleted a row is the only one at work on its source, and
\* nothing writes a vector of it any more.
RemovalsAreAlone ==
    \A r \in Removals, s \in Sources : Works(r, s) =>
        /\ s \notin vRows \union vLate
        /\ vUpload[s] \notin {"new", "stored"}
        /\ vAudits[s] = 0
        /\ vPc[r] = "audit" => vVectors[s] = {}
        /\ \A q \in Removals : Works(q, s) => q = r

KnowledgeInv ==
    /\ Knowledge!ConstantsOK /\ Knowledge!TypeOK
    /\ UploadsAreBehind
    /\ RemovalsAreAlone
    /\ Knowledge!ListedIsSearchable
    /\ Knowledge!OrphanOnlyByFault
    /\ Knowledge!AuditedIsGone
    /\ Knowledge!AuditedOnce

(* One step of an upload.                                                   *)

\* A step of an upload keeps the types,
LEMMA UploadKeepsTypes ==
    ASSUME KnowledgeInv, NEW s \in Sources, Knowledge!Upload(s)
    PROVE  Knowledge!TypeOK'
PROOF
<1> USE DEF KnowledgeInv, Knowledge!TypeOK, Knowledge!Advance,
            Knowledge!SetVectors, Knowledge!removalVars, Knowledge!historyVars
<1>1. CASE Knowledge!Refuse(s)
  BY <1>1 DEF Knowledge!Refuse
<1>2. CASE Knowledge!Upsert(s)
  BY <1>2 DEF Knowledge!Upsert
<1>3. CASE Knowledge!UpsertThrows(s)
  BY <1>3 DEF Knowledge!UpsertThrows
<1>4. CASE Knowledge!LateUpsert(s)
  BY <1>4 DEF Knowledge!LateUpsert
<1>5. CASE Knowledge!AddSource(s)
  BY <1>5 DEF Knowledge!AddSource
<1>6. CASE Knowledge!AddSourceThrows(s)
  BY <1>6 DEF Knowledge!AddSourceThrows
<1>7. CASE Knowledge!Undo(s)
  BY <1>7 DEF Knowledge!Undo, Knowledge!DeleteByIds
<1>8. CASE Knowledge!LeaveVectors(s)
  BY <1>8 DEF Knowledge!LeaveVectors
<1>9. CASE Knowledge!CutUpload(s)
  BY <1>9 DEF Knowledge!CutUpload
<1> QED
  BY <1>1, <1>2, <1>3, <1>4, <1>5, <1>6, <1>7, <1>8, <1>9 DEF Knowledge!Upload

\* keeps the listed rows searchable and explains every orphan vector,
LEMMA UploadKeepsRows ==
    ASSUME KnowledgeInv, NEW s \in Sources, Knowledge!Upload(s)
    PROVE  UploadsAreBehind' /\ Knowledge!ListedIsSearchable'
           /\ Knowledge!OrphanOnlyByFault'
PROOF
<1>0. /\ Knowledge!TypeOK /\ UploadsAreBehind /\ RemovalsAreAlone
      /\ Knowledge!ListedIsSearchable /\ Knowledge!OrphanOnlyByFault
          /\ Knowledge!AuditedIsGone
  BY DEF KnowledgeInv
<1> USE DEF Knowledge!Advance, Knowledge!SetVectors, Knowledge!removalVars,
            Knowledge!historyVars
<1>1. CASE Knowledge!Refuse(s)
  <2>1. UploadsAreBehind'
    BY <1>0, <1>1
       DEF Knowledge!Refuse, Knowledge!TypeOK, UploadsAreBehind,
           Knowledge!AuditedIsGone
  <2>2. Knowledge!ListedIsSearchable'
    BY <1>0, <1>1
       DEF Knowledge!Refuse, Knowledge!TypeOK, UploadsAreBehind,
           Knowledge!ListedIsSearchable
  <2>3. Knowledge!OrphanOnlyByFault'
    BY <1>0, <1>1
       DEF Knowledge!Refuse, Knowledge!TypeOK, UploadsAreBehind,
           Knowledge!OrphanOnlyByFault
  <2> QED
    BY <2>1, <2>2, <2>3
<1>2. CASE Knowledge!Upsert(s)
  <2>1. UploadsAreBehind'
    BY <1>0, <1>2
       DEF Knowledge!Upsert, Knowledge!TypeOK, UploadsAreBehind,
           Knowledge!AuditedIsGone
  <2>2. Knowledge!ListedIsSearchable'
    BY <1>0, <1>2
       DEF Knowledge!Upsert, Knowledge!TypeOK, UploadsAreBehind,
           Knowledge!ListedIsSearchable
  <2>3. Knowledge!OrphanOnlyByFault'
    BY <1>0, <1>2
       DEF Knowledge!Upsert, Knowledge!TypeOK, UploadsAreBehind,
           Knowledge!OrphanOnlyByFault
  <2> QED
    BY <2>1, <2>2, <2>3
<1>3. CASE Knowledge!UpsertThrows(s)
  <2>1. UploadsAreBehind'
    <3>1. /\ vUpload[s] = "new" /\ vUpload' = [vUpload EXCEPT ![s] = "undo"]
          /\ vLate' \subseteq vLate \union {s}
          /\ UNCHANGED <<vRows, vAudits, vUnsure>>
      BY <1>3 DEF Knowledge!UpsertThrows
    <3>2. \A z \in Sources \ {s} : vVectors'[z] = vVectors[z]
      BY <1>0, <1>3 DEF Knowledge!UpsertThrows, Knowledge!TypeOK
    <3>3. s \notin vRows /\ vAudits[s] = 0
      BY <1>0, <3>1 DEF UploadsAreBehind, Knowledge!TypeOK
    <3> QED
      BY <1>0, <3>1, <3>2, <3>3 DEF Knowledge!TypeOK, UploadsAreBehind
  <2>2. Knowledge!ListedIsSearchable'
    BY <1>0, <1>3
       DEF Knowledge!UpsertThrows, Knowledge!TypeOK, UploadsAreBehind,
           Knowledge!ListedIsSearchable
  <2>3. Knowledge!OrphanOnlyByFault'
    BY <1>0, <1>3
       DEF Knowledge!UpsertThrows, Knowledge!TypeOK, UploadsAreBehind,
           Knowledge!OrphanOnlyByFault
  <2> QED
    BY <2>1, <2>2, <2>3
<1>4. CASE Knowledge!LateUpsert(s)
  <2>1. UploadsAreBehind'
    BY <1>0, <1>4
       DEF Knowledge!LateUpsert, Knowledge!TypeOK, UploadsAreBehind,
           Knowledge!AuditedIsGone
  <2>2. Knowledge!ListedIsSearchable'
    BY <1>0, <1>4
       DEF Knowledge!LateUpsert, Knowledge!TypeOK, UploadsAreBehind,
           Knowledge!ListedIsSearchable
  <2>3. Knowledge!OrphanOnlyByFault'
    BY <1>0, <1>4
       DEF Knowledge!LateUpsert, Knowledge!TypeOK, UploadsAreBehind,
           Knowledge!OrphanOnlyByFault
  <2> QED
    BY <2>1, <2>2, <2>3
<1>5. CASE Knowledge!AddSource(s)
  <2>1. UploadsAreBehind'
    BY <1>0, <1>5
       DEF Knowledge!AddSource, Knowledge!IsStored, Knowledge!TypeOK,
           UploadsAreBehind, Knowledge!AuditedIsGone
  <2>2. Knowledge!ListedIsSearchable'
    BY <1>0, <1>5
       DEF Knowledge!AddSource, Knowledge!IsStored, Knowledge!TypeOK,
           UploadsAreBehind, Knowledge!ListedIsSearchable
  <2>3. Knowledge!OrphanOnlyByFault'
    BY <1>0, <1>5
       DEF Knowledge!AddSource, Knowledge!IsStored, Knowledge!TypeOK,
           UploadsAreBehind, Knowledge!OrphanOnlyByFault
  <2> QED
    BY <2>1, <2>2, <2>3
<1>6. CASE Knowledge!AddSourceThrows(s)
  <2>1. UploadsAreBehind'
    BY <1>0, <1>6
       DEF Knowledge!AddSourceThrows, Knowledge!IsStored, Knowledge!TypeOK,
           UploadsAreBehind, Knowledge!AuditedIsGone
  <2>2. Knowledge!ListedIsSearchable'
    BY <1>0, <1>6
       DEF Knowledge!AddSourceThrows, Knowledge!IsStored, Knowledge!TypeOK,
           UploadsAreBehind, Knowledge!ListedIsSearchable
  <2>3. Knowledge!OrphanOnlyByFault'
    BY <1>0, <1>6
       DEF Knowledge!AddSourceThrows, Knowledge!IsStored, Knowledge!TypeOK,
           UploadsAreBehind, Knowledge!OrphanOnlyByFault
  <2> QED
    BY <2>1, <2>2, <2>3
<1>7. CASE Knowledge!Undo(s)
  <2>1. UploadsAreBehind'
    BY <1>0, <1>7
       DEF Knowledge!Undo, Knowledge!DeleteByIds, Knowledge!TypeOK,
           UploadsAreBehind, Knowledge!AuditedIsGone
  <2>2. Knowledge!ListedIsSearchable'
    BY <1>0, <1>7
       DEF Knowledge!Undo, Knowledge!DeleteByIds, Knowledge!TypeOK,
           UploadsAreBehind, Knowledge!ListedIsSearchable
  <2>3. Knowledge!OrphanOnlyByFault'
    BY <1>0, <1>7
       DEF Knowledge!Undo, Knowledge!DeleteByIds, Knowledge!TypeOK,
           UploadsAreBehind, Knowledge!OrphanOnlyByFault
  <2> QED
    BY <2>1, <2>2, <2>3
<1>8. CASE Knowledge!LeaveVectors(s)
  <2>1. UploadsAreBehind'
    BY <1>0, <1>8
       DEF Knowledge!LeaveVectors, Knowledge!TypeOK, UploadsAreBehind,
           Knowledge!AuditedIsGone
  <2>2. Knowledge!ListedIsSearchable'
    BY <1>0, <1>8
       DEF Knowledge!LeaveVectors, Knowledge!TypeOK, UploadsAreBehind,
           Knowledge!ListedIsSearchable
  <2>3. Knowledge!OrphanOnlyByFault'
    BY <1>0, <1>8
       DEF Knowledge!LeaveVectors, Knowledge!TypeOK, UploadsAreBehind,
           Knowledge!OrphanOnlyByFault
  <2> QED
    BY <2>1, <2>2, <2>3
<1>9. CASE Knowledge!CutUpload(s)
  <2>1. UploadsAreBehind'
    BY <1>0, <1>9
       DEF Knowledge!CutUpload, Knowledge!TypeOK, UploadsAreBehind,
           Knowledge!AuditedIsGone
  <2>2. Knowledge!ListedIsSearchable'
    BY <1>0, <1>9
       DEF Knowledge!CutUpload, Knowledge!TypeOK, UploadsAreBehind,
           Knowledge!ListedIsSearchable
  <2>3. Knowledge!OrphanOnlyByFault'
    BY <1>0, <1>9
       DEF Knowledge!CutUpload, Knowledge!TypeOK, UploadsAreBehind,
           Knowledge!OrphanOnlyByFault
  <2> QED
    BY <2>1, <2>2, <2>3
<1> QED
  BY <1>1, <1>2, <1>3, <1>4, <1>5, <1>6, <1>7, <1>8, <1>9 DEF Knowledge!Upload

\* and leaves the removals and what they audited alone.
LEMMA UploadKeepsRemovals ==
    ASSUME KnowledgeInv, NEW s \in Sources, Knowledge!Upload(s)
    PROVE  RemovalsAreAlone' /\ Knowledge!AuditedIsGone'
           /\ Knowledge!AuditedOnce'
PROOF
<1> USE DEF KnowledgeInv, Knowledge!TypeOK, UploadsAreBehind, RemovalsAreAlone,
            Works, Knowledge!AuditedIsGone, Knowledge!AuditedOnce,
            Knowledge!Advance, Knowledge!SetVectors, Knowledge!removalVars,
            Knowledge!historyVars
<1>1. CASE Knowledge!Refuse(s)
  BY <1>1 DEF Knowledge!Refuse
<1>2. CASE Knowledge!Upsert(s)
  BY <1>2 DEF Knowledge!Upsert
<1>3. CASE Knowledge!UpsertThrows(s)
  BY <1>3 DEF Knowledge!UpsertThrows
<1>4. CASE Knowledge!LateUpsert(s)
  BY <1>4 DEF Knowledge!LateUpsert
<1>5. CASE Knowledge!AddSource(s)
  BY <1>5 DEF Knowledge!AddSource, Knowledge!IsStored
<1>6. CASE Knowledge!AddSourceThrows(s)
  BY <1>6 DEF Knowledge!AddSourceThrows, Knowledge!IsStored
<1>7. CASE Knowledge!Undo(s)
  BY <1>7 DEF Knowledge!Undo, Knowledge!DeleteByIds
<1>8. CASE Knowledge!LeaveVectors(s)
  BY <1>8 DEF Knowledge!LeaveVectors
<1>9. CASE Knowledge!CutUpload(s)
  BY <1>9 DEF Knowledge!CutUpload
<1> QED
  BY <1>1, <1>2, <1>3, <1>4, <1>5, <1>6, <1>7, <1>8, <1>9 DEF Knowledge!Upload

(* One step of a removal.                                                   *)

\* A step of a removal keeps the types,
LEMMA RemoveKeepsTypes ==
    ASSUME KnowledgeInv, NEW r \in Removals, Knowledge!Remove(r)
    PROVE  Knowledge!TypeOK'
PROOF
<1> USE DEF KnowledgeInv, Knowledge!TypeOK, Knowledge!ConstantsOK,
            Knowledge!Goto, Knowledge!SetVectors, Knowledge!DeleteByIds,
            Knowledge!removalVars, Knowledge!historyVars
<1>1. ASSUME NEW s \in Sources, Knowledge!DeleteRow(r, s)
      PROVE  Knowledge!TypeOK'
  BY <1>1 DEF Knowledge!DeleteRow, Knowledge!Removable
<1>2. ASSUME NEW s \in Sources, Knowledge!DeleteRowThrows(r, s)
      PROVE  Knowledge!TypeOK'
  BY <1>2 DEF Knowledge!DeleteRowThrows, Knowledge!Removable
<1>3. CASE Knowledge!DeleteVectors(r)
  BY <1>3 DEF Knowledge!DeleteVectors, Knowledge!AwaitDelete
<1>4. CASE Knowledge!DeleteVectorsThrows(r)
  BY <1>4 DEF Knowledge!DeleteVectorsThrows
<1>5. CASE Knowledge!Audit(r)
  BY <1>5 DEF Knowledge!Audit
<1> QED
  BY <1>1, <1>2, <1>3, <1>4, <1>5 DEF Knowledge!Remove

\* leaves the uploads alone and explains the vectors it orphans,
LEMMA RemoveKeepsRows ==
    ASSUME KnowledgeInv, NEW r \in Removals, Knowledge!Remove(r)
    PROVE  UploadsAreBehind' /\ Knowledge!ListedIsSearchable'
           /\ Knowledge!OrphanOnlyByFault'
PROOF
<1> USE DEF KnowledgeInv, Knowledge!TypeOK, Knowledge!ConstantsOK,
            UploadsAreBehind, RemovalsAreAlone, Works,
            Knowledge!ListedIsSearchable, Knowledge!OrphanOnlyByFault,
            Knowledge!Goto, Knowledge!SetVectors, Knowledge!DeleteByIds,
            Knowledge!removalVars, Knowledge!historyVars
<1>1. ASSUME NEW s \in Sources, Knowledge!DeleteRow(r, s)
      PROVE  UploadsAreBehind' /\ Knowledge!ListedIsSearchable'
             /\ Knowledge!OrphanOnlyByFault'
  BY <1>1 DEF Knowledge!DeleteRow, Knowledge!Removable
<1>2. ASSUME NEW s \in Sources, Knowledge!DeleteRowThrows(r, s)
      PROVE  UploadsAreBehind' /\ Knowledge!ListedIsSearchable'
             /\ Knowledge!OrphanOnlyByFault'
  BY <1>2 DEF Knowledge!DeleteRowThrows, Knowledge!Removable
<1>3. CASE Knowledge!DeleteVectors(r)
  <2> DEFINE s == vTarget[r]
  <2>1. s \in Sources /\ Works(r, s) /\ s \notin vRows /\ vPc[r] = "purge"
    BY <1>3 DEF Knowledge!DeleteVectors
  <2>2. /\ vVectors' = [vVectors EXCEPT ![s] = {}]
        /\ vPc' = [vPc EXCEPT ![r] = "audit"] /\ vTarget' = vTarget
    BY <1>3, <2>1 DEF Knowledge!DeleteVectors, Knowledge!AwaitDelete
  <2>3. UNCHANGED <<vRows, vLate, vUpload, vAudits, vUnsure, vFaulty>>
    BY <1>3 DEF Knowledge!DeleteVectors
  <2>4. vUpload[s] \notin {"new", "stored"}
    BY <2>1
  <2> HIDE DEF s
  <2>5. UploadsAreBehind'
    <3>1. \A z \in Sources : z # s => vVectors'[z] = vVectors[z]
      BY <2>1, <2>2
    <3> QED
      BY <2>3, <2>4, <3>1 DEF UploadsAreBehind
  <2>6. Knowledge!ListedIsSearchable'
    BY <2>1, <2>2, <2>3
  <2>7. Knowledge!OrphanOnlyByFault'
    BY <2>1, <2>2, <2>3
  <2> QED
    BY <2>5, <2>6, <2>7
<1>4. CASE Knowledge!DeleteVectorsThrows(r)
  <2> DEFINE s == vTarget[r]
  <2>1. s \in Sources /\ Works(r, s) /\ s \notin vRows /\ vPc[r] = "purge"
    BY <1>4 DEF Knowledge!DeleteVectorsThrows
  <2>2. PICK left \in SUBSET vVectors[s] : vVectors' = [vVectors EXCEPT ![s] =
            left]
    BY <1>4 DEF Knowledge!DeleteVectorsThrows
  <2>3. /\ vFaulty' = vFaulty \union {s}
        /\ vPc' = [vPc EXCEPT ![r] = "idle"]
        /\ vTarget' = [vTarget EXCEPT ![r] = NoSource]
        /\ UNCHANGED <<vRows, vLate, vUpload, vAudits, vUnsure>>
    BY <1>4 DEF Knowledge!DeleteVectorsThrows
  <2>4. vUpload[s] \notin {"new", "stored"}
    BY <2>1
  <2> HIDE DEF s
  <2>5. UploadsAreBehind'
    <3>1. \A z \in Sources : z # s => vVectors'[z] = vVectors[z]
      BY <2>1, <2>2
    <3> QED
      BY <2>3, <2>4, <3>1 DEF UploadsAreBehind
  <2>6. Knowledge!ListedIsSearchable'
    BY <2>1, <2>2, <2>3
  <2>7. Knowledge!OrphanOnlyByFault'
    BY <2>1, <2>2, <2>3
  <2> QED
    BY <2>5, <2>6, <2>7
<1>5. CASE Knowledge!Audit(r)
  BY <1>5 DEF Knowledge!Audit
<1> QED
  BY <1>1, <1>2, <1>3, <1>4, <1>5 DEF Knowledge!Remove

\* and audits a removal once, when the vectors are gone.
LEMMA RemoveKeepsRemovals ==
    ASSUME KnowledgeInv, NEW r \in Removals, Knowledge!Remove(r)
    PROVE  RemovalsAreAlone' /\ Knowledge!AuditedIsGone'
           /\ Knowledge!AuditedOnce'
PROOF
<1> USE DEF KnowledgeInv, Knowledge!TypeOK, Knowledge!ConstantsOK,
            UploadsAreBehind, RemovalsAreAlone, Works, Knowledge!AuditedIsGone,
            Knowledge!AuditedOnce, Knowledge!Goto, Knowledge!SetVectors,
            Knowledge!DeleteByIds, Knowledge!removalVars, Knowledge!historyVars
<1>1. ASSUME NEW s \in Sources, Knowledge!DeleteRow(r, s)
      PROVE  RemovalsAreAlone' /\ Knowledge!AuditedIsGone'
             /\ Knowledge!AuditedOnce'
  BY <1>1 DEF Knowledge!DeleteRow, Knowledge!Removable
<1>2. ASSUME NEW s \in Sources, Knowledge!DeleteRowThrows(r, s)
      PROVE  RemovalsAreAlone' /\ Knowledge!AuditedIsGone'
             /\ Knowledge!AuditedOnce'
  BY <1>2 DEF Knowledge!DeleteRowThrows, Knowledge!Removable
<1>3. CASE Knowledge!DeleteVectors(r)
  BY <1>3 DEF Knowledge!DeleteVectors, Knowledge!AwaitDelete
<1>4. CASE Knowledge!DeleteVectorsThrows(r)
  BY <1>4 DEF Knowledge!DeleteVectorsThrows
<1>5. CASE Knowledge!Audit(r)
  BY <1>5 DEF Knowledge!Audit
<1> QED
  BY <1>1, <1>2, <1>3, <1>4, <1>5 DEF Knowledge!Remove


\* The invariant of the vectors.
LEMMA KnowledgeInvariant ==
    Knowledge!ConstantsOK /\ Knowledge!Spec => []KnowledgeInv
PROOF
<1>1. Knowledge!ConstantsOK /\ Knowledge!Init => KnowledgeInv
  BY DEF Knowledge!Init, KnowledgeInv, Knowledge!TypeOK, UploadsAreBehind,
         RemovalsAreAlone, Works, Knowledge!ListedIsSearchable,
         Knowledge!OrphanOnlyByFault, Knowledge!AuditedIsGone,
         Knowledge!AuditedOnce, Knowledge!ConstantsOK
<1>2. KnowledgeInv /\ [Knowledge!Next]_(Knowledge!vars) => KnowledgeInv'
  <2> SUFFICES ASSUME KnowledgeInv, [Knowledge!Next]_(Knowledge!vars)
               PROVE  KnowledgeInv'
    OBVIOUS
  <2>1. Knowledge!ConstantsOK'
    BY DEF Knowledge!ConstantsOK, KnowledgeInv
  <2>2. CASE \E s \in Sources : Knowledge!Upload(s)
    BY <2>1, <2>2, UploadKeepsTypes, UploadKeepsRows, UploadKeepsRemovals
       DEF KnowledgeInv
  <2>3. CASE \E r \in Removals : Knowledge!Remove(r)
    BY <2>1, <2>3, RemoveKeepsTypes, RemoveKeepsRows, RemoveKeepsRemovals
       DEF KnowledgeInv
  <2>4. CASE UNCHANGED Knowledge!vars
    BY <2>4
       DEF Knowledge!vars, Knowledge!removalVars, Knowledge!historyVars,
           KnowledgeInv, Knowledge!TypeOK, UploadsAreBehind, RemovalsAreAlone,
           Works, Knowledge!ListedIsSearchable, Knowledge!OrphanOnlyByFault,
           Knowledge!AuditedIsGone, Knowledge!AuditedOnce, Knowledge!ConstantsOK
  <2> QED
    BY <2>2, <2>3, <2>4 DEF Knowledge!Next
<1> QED
  BY <1>1, <1>2, PTL DEF Knowledge!Spec

-----------------------------------------------------------------------------
(* The integrations: Integrations.                                          *)

\* A save that is over has written what bears its name; nobody else has.
Written(r) ==
    IF r.writer = NoSave
    THEN r = Connections!NoRow
    ELSE iSave[r.writer] = "ended"

WritersAreUnique ==
    /\ Written(iRow)
    /\ \A s \in Saves :
        /\ Written(iLoaded[s])
        /\ iSave[s] = "loaded" /\ iLoaded[s].writer = iRow.writer =>
            iLoaded[s] = iRow

\* A test that no write has crossed has read the row as it is, and what the
\* provider accepted of it is accepted.
TestsAreOfTheRow ==
    \A t \in Tests : iTest[t] # "idle" =>
        /\ iRow # Connections!NoRow
        /\ iTarget[t] \notin iCrossed =>
            /\ iSeen[t] = iRow
            /\ iTest[t] = "good" => iTarget[t] \in iAccepted

ConnectionsInv ==
    /\ Connections!ConstantsOK /\ Connections!TypeOK
    /\ WritersAreUnique
    /\ TestsAreOfTheRow
    /\ Connections!CredentialLostOnlyByOverlap
    /\ Connections!ConnectedWasAccepted

(* One step of a save.                                                      *)

\* The row a save has loaded is the stored one if the writer is.
LEMMA LoadStep ==
    ASSUME ConnectionsInv, NEW s \in Saves, Connections!Load(s)
    PROVE  ConnectionsInv'
PROOF
<1> USE DEF ConnectionsInv, Connections!ConstantsOK, Connections!TypeOK,
            Connections!Load, Connections!testVars, Connections!historyVars
<1>1. Connections!TypeOK'
  OBVIOUS
<1>2. WritersAreUnique'
  BY DEF WritersAreUnique, Written
<1>3. TestsAreOfTheRow' /\ Connections!CredentialLostOnlyByOverlap'
      /\ Connections!ConnectedWasAccepted'
  BY DEF TestsAreOfTheRow, Connections!CredentialLostOnlyByOverlap,
         Connections!ConnectedWasAccepted
<1> QED
  BY <1>1, <1>2, <1>3

\* A save writes a credential somebody has given, or none.
LEMMA CredentialIsWriter ==
    ASSUME ConnectionsInv, NEW s \in Saves, NEW x \in Connections!Targets,
           NEW asked \in {"set", "keep", "clear"}
    PROVE  Connections!Credential(s, x, asked) \in Connections!Writers
PROOF
<1>1. iLoaded[s].credential[x] \in Connections!Writers
  BY DEF ConnectionsInv, Connections!TypeOK, Connections!Rows
<1> QED
  BY <1>1 DEF Connections!Credential, Connections!Writers

\* A write keeps the credential another save has left, unless that one came
\* between.
LEMMA WriteStep ==
    ASSUME ConnectionsInv, NEW s \in Saves, NEW form \in Connections!Forms,
           Connections!Write(s, form)
    PROVE  ConnectionsInv'
PROOF
<1> DEFINE new == [writer |-> s, local |-> form.local,
                   credential |-> [x \in Connections!Targets |->
                                     Connections!Credential(s, x,
                                         form.credential[x])]]
<1> USE DEF ConnectionsInv
<1>1. /\ iSave[s] = "loaded"
      /\ iRow' = new
      /\ iVerdict' = [x \in Connections!Targets |-> "pending"]
      /\ iSave' = [iSave EXCEPT ![s] = "ended"]
      /\ iLoaded' = [iLoaded EXCEPT ![s] = Connections!NoRow]
      /\ UNCHANGED <<iTest, iTarget, iSeen>>
  BY DEF Connections!Write, Connections!Reset, Connections!Finish,
         Connections!testVars
<1>2. /\ iIntended' = [x \in Connections!Targets |->
            CASE form.credential[x] = "set"   -> s
              [] form.credential[x] = "keep"  -> iIntended[x]
              [] form.credential[x] = "clear" -> NoSave]
      /\ iOvertaken' = {x \in Connections!Targets : form.credential[x] =
          "keep" /\
            (x \in iOvertaken \/ iLoaded[s].writer # iRow.writer)}
      /\ iCrossed' = {iTarget[t] : t \in {u \in Tests : iTest[u] # "idle"}}
      /\ iAccepted' = {}
  BY DEF Connections!Write, Connections!Witness
<1>3. /\ form.local \in BOOLEAN
      /\ \A x \in Connections!Targets : form.credential[x] \in
          {"set", "keep", "clear"}
  BY DEF Connections!Forms
<1>4. new \in Connections!Rows /\ new.writer = s
      /\ Connections!NoRow \in Connections!Rows
  BY <1>3, CredentialIsWriter
     DEF Connections!Rows, Connections!Writers, Connections!NoRow
<1>5. new # Connections!NoRow /\ s # NoSave
  BY <1>4 DEF Connections!NoRow, Connections!ConstantsOK
<1>6. \A x \in Connections!Targets : new.credential[x] =
          Connections!Credential(s, x, form.credential[x])
  OBVIOUS
<1> HIDE DEF new
<1>7. Connections!TypeOK'
  <2>1. iCrossed' \subseteq Connections!Targets
    BY <1>2 DEF Connections!TypeOK
  <2>2. iIntended' \in [Connections!Targets -> Connections!Writers]
    BY <1>2, <1>3 DEF Connections!TypeOK, Connections!Writers
  <2>3. iOvertaken' \subseteq Connections!Targets
        /\ iAccepted' \subseteq Connections!Targets
    BY <1>2
  <2> QED
    BY <1>1, <1>4, <1>5, <2>1, <2>2, <2>3 DEF Connections!TypeOK
<1>8. WritersAreUnique'
  <2>1. \A z \in Saves : iSave[z] = "loaded" => iLoaded[z].writer # s
    BY <1>1, <1>5 DEF WritersAreUnique, Written
  <2>2. ASSUME NEW z \in Saves
        PROVE  /\ Written(iLoaded[z])'
               /\ iSave'[z] = "loaded" /\ iLoaded'[z].writer = iRow'.writer =>
                    iLoaded'[z] = iRow'
    <3>1. CASE z = s
      BY <1>1, <3>1 DEF Connections!TypeOK, Written, Connections!NoRow
    <3>2. CASE z # s
      <4>1. iLoaded'[z] = iLoaded[z] /\ iSave'[z] = iSave[z]
        BY <1>1, <3>2 DEF Connections!TypeOK
      <4>2. Written(iLoaded[z])
        BY DEF WritersAreUnique
      <4>3. iLoaded[z].writer \in Saves \union {NoSave}
        BY DEF Connections!TypeOK, Connections!Rows, Connections!Writers
      <4>4. Written(iLoaded[z])'
        BY <1>1, <4>1, <4>2, <4>3 DEF Written, Connections!TypeOK
      <4> QED
        BY <1>1, <1>4, <2>1, <4>1, <4>4
    <3> QED
      BY <3>1, <3>2
  <2>3. Written(iRow)'
    BY <1>1, <1>4, <1>5 DEF Written, Connections!TypeOK
  <2> QED
    BY <2>2, <2>3 DEF WritersAreUnique
<1>9. TestsAreOfTheRow'
  BY <1>1, <1>2, <1>5 DEF TestsAreOfTheRow
<1>10. Connections!CredentialLostOnlyByOverlap'
  <2> SUFFICES ASSUME NEW x \in Connections!Targets \ iOvertaken'
               PROVE  iRow'.credential[x] = iIntended'[x]
    BY DEF Connections!CredentialLostOnlyByOverlap
  <2>1. CASE form.credential[x] = "set" \/ form.credential[x] = "clear"
    BY <1>1, <1>2, <1>6, <2>1 DEF Connections!Credential
  <2>2. CASE form.credential[x] = "keep"
    <3>1. x \notin iOvertaken /\ iLoaded[s].writer = iRow.writer
      BY <1>2, <2>2
    <3>2. iLoaded[s] = iRow
      BY <1>1, <3>1 DEF WritersAreUnique
    <3>3. new.credential[x] = iLoaded[s].credential[x]
          /\ iIntended'[x] = iIntended[x]
      BY <1>2, <1>6, <2>2 DEF Connections!Credential
    <3> QED
      BY <1>1, <3>1, <3>2, <3>3 DEF Connections!CredentialLostOnlyByOverlap
  <2> QED
    BY <1>3, <2>1, <2>2
<1>11. Connections!ConnectedWasAccepted'
  BY <1>1 DEF Connections!ConnectedWasAccepted
<1>12. Connections!ConstantsOK'
  BY DEF Connections!ConstantsOK
<1> QED
  BY <1>7, <1>8, <1>9, <1>10, <1>11, <1>12

\* A save that is cut off leaves what it has written.
LEMMA CutSaveStep ==
    ASSUME ConnectionsInv, NEW s \in Saves, Connections!CutSave(s)
    PROVE  ConnectionsInv'
PROOF
<1> USE DEF ConnectionsInv, Connections!ConstantsOK, Connections!TypeOK,
            Connections!CutSave, Connections!Finish, Connections!testVars,
            Connections!historyVars
<1>1. Connections!NoRow \in Connections!Rows
  BY DEF Connections!NoRow, Connections!Rows, Connections!Writers
<1>2. Connections!TypeOK'
  BY <1>1
<1>3. WritersAreUnique'
  <2>1. Written(iRow)'
    BY DEF WritersAreUnique, Written, Connections!Rows, Connections!Writers
  <2>2. ASSUME NEW z \in Saves
        PROVE  /\ Written(iLoaded[z])'
               /\ iSave'[z] = "loaded" /\ iLoaded'[z].writer = iRow'.writer =>
                    iLoaded'[z] = iRow'
    <3>1. CASE z = s
      BY <3>1 DEF Written, Connections!NoRow
    <3>2. CASE z # s
      <4>1. iLoaded'[z] = iLoaded[z] /\ iSave'[z] = iSave[z]
        BY <3>2
      <4>2. Written(iLoaded[z]) /\ iLoaded[z].writer \in Saves \union {NoSave}
        BY DEF WritersAreUnique, Connections!Rows, Connections!Writers
      <4>3. Written(iLoaded[z])'
        BY <4>1, <4>2 DEF Written
      <4> QED
        BY <4>1, <4>3 DEF WritersAreUnique
    <3> QED
      BY <3>1, <3>2
  <2> QED
    BY <2>1, <2>2 DEF WritersAreUnique
<1>4. TestsAreOfTheRow' /\ Connections!CredentialLostOnlyByOverlap'
      /\ Connections!ConnectedWasAccepted'
  BY DEF TestsAreOfTheRow, Connections!CredentialLostOnlyByOverlap,
         Connections!ConnectedWasAccepted
<1> QED
  BY <1>2, <1>3, <1>4

(* One step of a test.                                                      *)

\* A test that ends reads and shows nothing any more.
LEMMA LeaveTyped ==
    ASSUME Connections!TypeOK, NEW t \in Tests, Connections!Leave(t)
    PROVE  /\ iTest' \in [Tests -> {"idle", "asking", "good", "bad"}]
           /\ iTarget' \in [Tests -> Connections!Targets]
           /\ iSeen' \in [Tests -> Connections!Rows]
           /\ \A z \in Tests : (iSeen'[z] =
               Connections!NoRow) <=> (iTest'[z] = "idle")
PROOF
<1>1. Connections!NoRow \in Connections!Rows /\ "ai" \in Connections!Targets
  BY DEF Connections!NoRow, Connections!Rows, Connections!Writers,
         Connections!Targets
<1>2. ASSUME NEW z \in Tests
      PROVE  (iSeen'[z] = Connections!NoRow) <=> (iTest'[z] = "idle")
  BY DEF Connections!TypeOK, Connections!Leave
<1> QED
  BY <1>1, <1>2 DEF Connections!TypeOK, Connections!Leave

\* A test writes its verdict on the row it has loaded.
LEMMA TestStep ==
    ASSUME ConnectionsInv, NEW t \in Tests, Connections!Test(t)
    PROVE  ConnectionsInv'
PROOF
<1> DEFINE Verdicts == /\ Connections!TypeOK'
                       /\ TestsAreOfTheRow'
                       /\ Connections!ConnectedWasAccepted'
<1>0. Connections!TypeOK /\ TestsAreOfTheRow /\ Connections!ConnectedWasAccepted
  BY DEF ConnectionsInv
<1> USE <1>0 DEF Connections!Goto, Connections!saveVars, Connections!historyVars
<1>1. ASSUME NEW x \in Connections!Targets, Connections!Ask(t, x)
      PROVE  Verdicts
  <2>1. Connections!TypeOK'
    BY <1>1 DEF Connections!Ask, Connections!HasRow, Connections!TypeOK
  <2>2. TestsAreOfTheRow'
    BY <1>1
       DEF Connections!Ask, Connections!HasRow, TestsAreOfTheRow,
           Connections!TypeOK
  <2>3. Connections!ConnectedWasAccepted'
    BY <1>1 DEF Connections!Ask, Connections!ConnectedWasAccepted
  <2> QED
    BY <2>1, <2>2, <2>3
<1>2. ASSUME Connections!ProviderAccepts(t)
      PROVE  Verdicts
  <2>1. Connections!TypeOK'
    BY <1>2
       DEF Connections!ProviderAccepts, TestsAreOfTheRow, Connections!TypeOK
  <2>2. TestsAreOfTheRow'
    BY <1>2
       DEF Connections!ProviderAccepts, TestsAreOfTheRow, Connections!TypeOK
  <2>3. Connections!ConnectedWasAccepted'
    BY <1>2
       DEF Connections!ProviderAccepts, TestsAreOfTheRow,
           Connections!ConnectedWasAccepted, Connections!TypeOK
  <2> QED
    BY <2>1, <2>2, <2>3
<1>3. ASSUME Connections!ProviderRejects(t)
      PROVE  Verdicts
  <2>1. Connections!TypeOK'
    BY <1>3
       DEF Connections!ProviderRejects, TestsAreOfTheRow, Connections!TypeOK
  <2>2. TestsAreOfTheRow'
    BY <1>3
       DEF Connections!ProviderRejects, TestsAreOfTheRow, Connections!TypeOK
  <2>3. Connections!ConnectedWasAccepted'
    BY <1>3
       DEF Connections!ProviderRejects, TestsAreOfTheRow,
           Connections!ConnectedWasAccepted, Connections!TypeOK
  <2> QED
    BY <2>1, <2>2, <2>3
<1>4. ASSUME Connections!MarkConnected(t)
      PROVE  Verdicts
  <2>1. Connections!TypeOK'
    <3>1. Connections!Leave(t)
      BY <1>4 DEF Connections!MarkConnected
    <3>2. iTest[t] # "idle" /\ iRow # Connections!NoRow
      BY <1>4 DEF Connections!MarkConnected, TestsAreOfTheRow
    <3> QED
      BY <1>4, <3>1, <3>2, LeaveTyped
         DEF Connections!MarkConnected, Connections!MarkStatus,
             Connections!TypeOK
  <2>2. TestsAreOfTheRow'
    BY <1>4
       DEF Connections!MarkConnected, Connections!MarkStatus, Connections!Leave,
           TestsAreOfTheRow, Connections!TypeOK
  <2>3. Connections!ConnectedWasAccepted'
    BY <1>4
       DEF Connections!MarkConnected, Connections!MarkStatus, Connections!Leave,
           TestsAreOfTheRow, Connections!ConnectedWasAccepted,
           Connections!TypeOK
  <2> QED
    BY <2>1, <2>2, <2>3
<1>5. ASSUME Connections!MarkThrows(t)
      PROVE  Verdicts
  <2>1. Connections!TypeOK'
    BY <1>5
       DEF Connections!MarkThrows, Connections!MarkStatus, TestsAreOfTheRow,
           Connections!TypeOK
  <2>2. TestsAreOfTheRow'
    BY <1>5
       DEF Connections!MarkThrows, Connections!MarkStatus, TestsAreOfTheRow,
           Connections!TypeOK
  <2>3. Connections!ConnectedWasAccepted'
    BY <1>5
       DEF Connections!MarkThrows, Connections!MarkStatus, TestsAreOfTheRow,
           Connections!ConnectedWasAccepted, Connections!TypeOK
  <2> QED
    BY <2>1, <2>2, <2>3
<1>6. ASSUME Connections!MarkError(t)
      PROVE  Verdicts
  <2>1. Connections!TypeOK'
    <3>1. Connections!Leave(t)
      BY <1>6 DEF Connections!MarkError
    <3>2. iTest[t] # "idle" /\ iRow # Connections!NoRow
      BY <1>6 DEF Connections!MarkError, TestsAreOfTheRow
    <3> QED
      BY <1>6, <3>1, <3>2, LeaveTyped
         DEF Connections!MarkError, Connections!MarkStatus, Connections!TypeOK
  <2>2. TestsAreOfTheRow'
    BY <1>6
       DEF Connections!MarkError, Connections!MarkStatus, Connections!Leave,
           TestsAreOfTheRow, Connections!TypeOK
  <2>3. Connections!ConnectedWasAccepted'
    BY <1>6
       DEF Connections!MarkError, Connections!MarkStatus, Connections!Leave,
           TestsAreOfTheRow, Connections!ConnectedWasAccepted,
           Connections!TypeOK
  <2> QED
    BY <2>1, <2>2, <2>3
<1>7. ASSUME Connections!EndTest(t)
      PROVE  Verdicts
  <2>1. Connections!TypeOK'
    <3>1. Connections!Leave(t)
      BY <1>7 DEF Connections!EndTest
    <3>2. iTest[t] # "idle" /\ iRow # Connections!NoRow
      BY <1>7 DEF Connections!EndTest, TestsAreOfTheRow
    <3> QED
      BY <1>7, <3>1, <3>2, LeaveTyped
         DEF Connections!EndTest, Connections!TypeOK
  <2>2. TestsAreOfTheRow'
    BY <1>7
       DEF Connections!EndTest, Connections!Leave, TestsAreOfTheRow,
           Connections!TypeOK
  <2>3. Connections!ConnectedWasAccepted'
    BY <1>7
       DEF Connections!EndTest, Connections!Leave, TestsAreOfTheRow,
           Connections!ConnectedWasAccepted, Connections!TypeOK
  <2> QED
    BY <2>1, <2>2, <2>3
<1>8. Verdicts
  BY <1>1, <1>2, <1>3, <1>4, <1>5, <1>6, <1>7 DEF Connections!Test
<1>9. UNCHANGED <<iRow, iSave, iLoaded, iIntended, iOvertaken>>
  BY DEF Connections!Test, Connections!Ask, Connections!ProviderAccepts,
         Connections!ProviderRejects, Connections!MarkConnected,
         Connections!MarkThrows, Connections!MarkError, Connections!EndTest
<1>10. WritersAreUnique' /\ Connections!CredentialLostOnlyByOverlap'
  BY <1>9 DEF ConnectionsInv, WritersAreUnique, Written,
              Connections!CredentialLostOnlyByOverlap
<1> QED
  BY <1>8, <1>10 DEF ConnectionsInv, Connections!ConstantsOK


\* The invariant of the integrations.
LEMMA ConnectionsInvariant ==
    Connections!ConstantsOK /\ Connections!Spec => []ConnectionsInv
PROOF
<1>1. Connections!ConstantsOK /\ Connections!Init => ConnectionsInv
  BY DEF Connections!Init, ConnectionsInv, Connections!TypeOK, WritersAreUnique,
         Written, TestsAreOfTheRow, Connections!CredentialLostOnlyByOverlap,
         Connections!ConnectedWasAccepted, Connections!ConstantsOK,
         Connections!NoRow, Connections!Rows, Connections!Writers,
         Connections!Targets
<1>2. ConnectionsInv /\ UNCHANGED Connections!vars => ConnectionsInv'
  BY DEF Connections!vars, Connections!saveVars, Connections!testVars,
         Connections!historyVars, ConnectionsInv, Connections!TypeOK,
         WritersAreUnique, Written, TestsAreOfTheRow,
         Connections!CredentialLostOnlyByOverlap,
         Connections!ConnectedWasAccepted, Connections!ConstantsOK
<1>3. ConnectionsInv /\ [Connections!Next]_(Connections!vars) => ConnectionsInv'
  BY <1>2, LoadStep, WriteStep, CutSaveStep, TestStep
     DEF Connections!Next, Connections!Save
<1> QED
  BY <1>1, <1>3, PTL DEF Connections!Spec

-----------------------------------------------------------------------------
(* The owners: OwnerSetup.                                                  *)

\* The account of an email was inserted by a setup of that email, which is
\* past its form; a setup whose batch was answered has the account of its
\* email; a save that was admitted is for a company there is, and past its
\* statement for one that was saved.
SetupsAreKnown ==
    /\ \A e \in Emails : oAccount[e] # None =>
        oPc[oAccount[e]] # "new" /\ oEmail[oAccount[e]] = e
    /\ \A s \in Setups : oPc[s] \in {"created", "shown"} =>
        oAccount[oEmail[s]] = s
    /\ \A v \in SettingsSaves : oSaving[v] \in
        {"written", "audited", "saved"} =>
        oLastSave[oCompany[v]] # None
    /\ \A v \in SettingsSaves : oSaving[v] # "new" => oNamed[oCompany[v]] # None

OwnersInv == Owners!ConstantsOK /\ Owners!TypeOK /\ SetupsAreKnown
    /\ Owners!OwnersAgree

\* What is known of a setup or a save that is past its first step.
LEMMA FormIsTyped ==
    ASSUME Owners!TypeOK
    PROVE  /\ \A s \in Setups : oPc[s] # "new" =>
                oEmail[s] \in Emails /\ oTenant[s] \in Tenants
           /\ \A v \in SettingsSaves : oSaving[v] # "new" =>
               oCompany[v] \in Tenants
PROOF
  BY DEF Owners!TypeOK

\* What a batch writes, with the answer or without.
LEMMA BatchFacts ==
    ASSUME Owners!ConstantsOK, Owners!TypeOK, NEW s \in Setups,
           oPc[s] = "checked", Owners!Batch(s)
    PROVE  /\ oAccount' = [oAccount EXCEPT ![oEmail[s]] = s]
           /\ oNamed' = [oNamed EXCEPT ![oTenant[s]] = s]
           /\ oSettings' \in [Tenants -> Setups \union SettingsSaves \union
               {None}]
           /\ \A t \in Tenants : oSettings[t] # None =>
               oSettings'[t] = oSettings[t]
           /\ oSettings'[oTenant[s]] # None
           /\ \A t \in Tenants \ {oTenant[s]} : oSettings'[t] = oSettings[t]
           /\ oOwners' = oOwners \union {<<oTenant[s], oEmail[s]>>}
           /\ oEmail[s] \in Emails /\ oTenant[s] \in Tenants /\ s # None
PROOF
<1>1. oEmail[s] \in Emails /\ oTenant[s] \in Tenants /\ s # None
  BY FormIsTyped DEF Owners!ConstantsOK
<1> QED
  BY <1>1 DEF Owners!Batch, Owners!Defaults, Owners!TypeOK

\* Every step keeps the types.
LEMMA OwnersTypeStep ==
    ASSUME Owners!ConstantsOK, Owners!TypeOK, SetupsAreKnown,
           [Owners!Next]_(Owners!vars)
    PROVE  Owners!TypeOK'
PROOF
<1>1. ASSUME NEW s \in Setups, NEW e \in Emails, NEW t \in Tenants,
             Owners!Check(s, e, t)
      PROVE  Owners!TypeOK'
  BY <1>1
     DEF Owners!Check, Owners!TypeOK, Owners!ConstantsOK, Owners!tables,
         Owners!savers
<1>2. ASSUME NEW s \in Setups, Owners!Create(s) \/ Owners!CreateUnanswered(s)
      PROVE  Owners!TypeOK'
  <2>1. oPc[s] = "checked" /\ Owners!Batch(s)
    BY <1>2 DEF Owners!Create, Owners!CreateUnanswered
  <2>2. /\ UNCHANGED <<oEmail, oTenant, oUpserted, Owners!savers>>
        /\ oPc' = [oPc EXCEPT ![s] = "created"]
            \/ oPc' = [oPc EXCEPT ![s] = "refused"]
    BY <1>2 DEF Owners!Create, Owners!CreateUnanswered, Owners!Goto
  <2>3. /\ oAccount' \in [Emails -> Setups \union {None}]
        /\ oNamed' \in [Tenants -> Owners!Writers]
        /\ oSettings' \in [Tenants -> Setups \union SettingsSaves \union {None}]
    BY <2>1, BatchFacts DEF Owners!TypeOK, Owners!Writers
  <2>4. oOwners' \subseteq {t \in Tenants : oNamed'[t] # None}
                        \X {e \in Emails : oAccount'[e] # None}
    <3>1. /\ oNamed'[oTenant[s]] # None
          /\ \A t \in Tenants : oNamed[t] # None => oNamed'[t] # None
          /\ oAccount'[oEmail[s]] # None
          /\ \A e \in Emails : oAccount[e] # None => oAccount'[e] # None
      BY <2>1, BatchFacts DEF Owners!TypeOK
    <3> QED
      BY <2>1, <3>1, BatchFacts DEF Owners!TypeOK
  <2>5. \A t \in Tenants : oSettings'[t] # None => oNamed'[t] # None
    BY <2>1, BatchFacts DEF Owners!TypeOK
  <2> QED
    BY <2>1, <2>2, <2>3, <2>4, <2>5 DEF Owners!TypeOK, Owners!savers
<1>3. ASSUME NEW s \in Setups,
             Owners!CreateThrows(s) \/ Owners!Show(s) \/ Owners!ShowThrows(s)
      PROVE  Owners!TypeOK'
  BY <1>3
     DEF Owners!CreateThrows, Owners!Show, Owners!ShowThrows, Owners!Goto,
         Owners!TypeOK, Owners!tables, Owners!savers
<1>4. ASSUME NEW u \in Upserts, NEW t \in Tenants, Owners!UpsertTenant(u, t)
      PROVE  Owners!TypeOK'
  <2>1. oNamed' \in [Tenants -> Owners!Writers]
    BY <1>4 DEF Owners!UpsertTenant, Owners!TypeOK, Owners!Writers
  <2>2. \A k \in Tenants : oNamed[k] # None => oNamed'[k] # None
    BY <1>4 DEF Owners!UpsertTenant, Owners!TypeOK, Owners!ConstantsOK
  <2>3. oOwners' \subseteq {k \in Tenants : oNamed'[k] # None}
                        \X {e \in Emails : oAccount'[e] # None}
    BY <1>4, <2>2 DEF Owners!UpsertTenant, Owners!TypeOK
  <2> QED
    BY <1>4, <2>1, <2>2, <2>3
       DEF Owners!UpsertTenant, Owners!TypeOK, Owners!savers
<1>5. ASSUME NEW v \in SettingsSaves, NEW t \in Tenants, Owners!Admit(v, t)
      PROVE  Owners!TypeOK'
  BY <1>5
     DEF Owners!Admit, Owners!SaveGoto, Owners!TypeOK, Owners!ConstantsOK,
         Owners!others
<1>6. ASSUME NEW v \in SettingsSaves, Owners!WriteSettings(v)
      PROVE  Owners!TypeOK'
  <2>1. oCompany[v] \in Tenants /\ oNamed[oCompany[v]] # None
    BY <1>6, FormIsTyped DEF Owners!WriteSettings, SetupsAreKnown
  <2> QED
    BY <1>6, <2>1
       DEF Owners!WriteSettings, Owners!SaveGoto, Owners!TypeOK,
           Owners!ConstantsOK, Owners!others
<1>7. ASSUME NEW v \in SettingsSaves,
             Owners!AuditSave(v) \/ Owners!AnswerSave(v) \/ Owners!SaveFails(v)
      PROVE  Owners!TypeOK'
  BY <1>7
     DEF Owners!AuditSave, Owners!AnswerSave, Owners!SaveFails, Owners!SaveGoto,
         Owners!TypeOK, Owners!others
<1>8. ASSUME UNCHANGED Owners!vars PROVE Owners!TypeOK'
  BY <1>8 DEF Owners!vars, Owners!tables, Owners!savers, Owners!TypeOK
<1> QED
  BY <1>1, <1>2, <1>3, <1>4, <1>5, <1>6, <1>7, <1>8
     DEF Owners!Next, Owners!Setup, Owners!SaveSettings

\* A batch by s, answered or not, keeps what is known of accounts and saves.
LEMMA BatchStep ==
    ASSUME OwnersInv, NEW s \in Setups,
           Owners!Create(s) \/ Owners!CreateUnanswered(s)
    PROVE  SetupsAreKnown' /\ Owners!OwnersAgree'
PROOF
<1>1. /\ oPc[s] = "checked" /\ oAccount[oEmail[s]] = None /\ Owners!Batch(s)
      /\ UNCHANGED <<oEmail, oTenant, oSaving, oCompany, oLastSave>>
      /\ oPc' = [oPc EXCEPT ![s] = "created"]
          \/ oPc' = [oPc EXCEPT ![s] = "refused"]
  BY DEF Owners!Create, Owners!CreateUnanswered, Owners!Insertable,
         Owners!IsFree, Owners!Goto, Owners!savers
<1>2. Owners!ConstantsOK /\ Owners!TypeOK
  BY DEF OwnersInv
<1>3. /\ \A e \in Emails \ {oEmail[s]} : oAccount'[e] = oAccount[e]
      /\ oAccount'[oEmail[s]] = s
      /\ \A t \in Tenants : oNamed[t] # None => oNamed'[t] # None
      /\ oNamed'[oTenant[s]] # None
  BY <1>1, <1>2, BatchFacts DEF Owners!TypeOK
<1>4. \A z \in Setups : /\ z # s => oPc'[z] = oPc[z]
                        /\ oPc'[z] = "new" => oPc[z] = "new"
                        /\ oPc'[s] \in {"created", "refused"}
  BY <1>1, <1>2 DEF Owners!TypeOK
<1>5. \A z \in Setups : oPc[z] \in {"created", "shown"} => oEmail[z] # oEmail[s]
  BY <1>1, <1>2 DEF OwnersInv, SetupsAreKnown, Owners!ConstantsOK
<1>6. SetupsAreKnown'
  <2>1. ASSUME NEW e \in Emails, oAccount'[e] # None
        PROVE  oPc'[oAccount'[e]] # "new" /\ oEmail[oAccount'[e]] = e
    <3>1. CASE e = oEmail[s]
      BY <1>3, <1>4, <3>1
    <3>2. CASE e # oEmail[s]
      <4>1. oAccount'[e] = oAccount[e] /\ oAccount[e] \in Setups
        BY <1>2, <1>3, <2>1, <3>2 DEF Owners!TypeOK
      <4> QED
        BY <1>4, <2>1, <4>1 DEF OwnersInv, SetupsAreKnown
    <3> QED
      BY <3>1, <3>2
  <2>2. ASSUME NEW z \in Setups, oPc'[z] \in {"created", "shown"}
        PROVE  oAccount'[oEmail[z]] = z
    <3>1. CASE z = s
      BY <1>3, <3>1
    <3>2. CASE z # s
      BY <1>2, <1>3, <1>4, <1>5, <2>2, <3>2, FormIsTyped
      DEF OwnersInv, SetupsAreKnown
    <3> QED
      BY <3>1, <3>2
  <2>3. \A v \in SettingsSaves : oSaving[v] # "new" =>
            oNamed'[oCompany[v]] # None
    BY <1>2, <1>3, FormIsTyped DEF OwnersInv, SetupsAreKnown
  <2> QED
    BY <1>1, <2>1, <2>2, <2>3 DEF SetupsAreKnown, OwnersInv
<1>7. Owners!ShownKeyWorks'
  BY <1>1, <1>6 DEF Owners!ShownKeyWorks, SetupsAreKnown
<1>8. Owners!OwnerHasCompany'
  <2>1. ASSUME NEW e \in Emails, oAccount'[e] # None
        PROVE  LET t == oTenant[oAccount'[e]] IN
               oNamed'[t] # None /\ oSettings'[t] # None
                   /\ <<t, e>> \in oOwners'
    <3>1. CASE e = oEmail[s]
      BY <1>1, <1>2, <1>3, <3>1, BatchFacts
    <3>2. CASE e # oEmail[s]
      <4>1. /\ oAccount'[e] = oAccount[e] /\ oAccount[e] \in Setups
            /\ oPc[oAccount[e]] # "new"
        BY <1>2, <1>3, <2>1, <3>2 DEF Owners!TypeOK, OwnersInv, SetupsAreKnown
      <4>2. oTenant[oAccount[e]] \in Tenants
        BY <1>2, <4>1, FormIsTyped
      <4>3. LET t == oTenant[oAccount[e]] IN
            oNamed[t] # None /\ oSettings[t] # None /\ <<t, e>> \in oOwners
        BY <2>1, <4>1 DEF OwnersInv, Owners!OwnersAgree, Owners!OwnerHasCompany
      <4> QED
        BY <1>1, <1>2, <1>3, <4>1, <4>2, <4>3, BatchFacts
    <3> QED
      BY <3>1, <3>2
  <2> QED
    BY <1>1, <2>1 DEF Owners!OwnerHasCompany
<1>9. Owners!SettingsSurvive'
  <2>1. \A t \in Tenants : oLastSave[t] # None => oSettings'[t] = oLastSave[t]
    BY <1>1, <1>2, BatchFacts
    DEF OwnersInv, Owners!OwnersAgree, Owners!SettingsSurvive
  <2> QED
    BY <1>1, <2>1 DEF Owners!SettingsSurvive, OwnersInv, Owners!OwnersAgree
<1> QED
  BY <1>6, <1>7, <1>8, <1>9 DEF Owners!OwnersAgree

\* Every step keeps what is known of accounts and saves.
LEMMA OwnersStep ==
    ASSUME OwnersInv, [Owners!Next]_(Owners!vars)
    PROVE  SetupsAreKnown' /\ Owners!OwnersAgree'
PROOF
<1> USE DEF Owners!OwnersAgree, Owners!ShownKeyWorks, Owners!OwnerHasCompany,
            Owners!SettingsSurvive, SetupsAreKnown
<1>1. ASSUME NEW s \in Setups, NEW f \in Emails, NEW k \in Tenants,
             Owners!Check(s, f, k)
      PROVE  SetupsAreKnown' /\ Owners!OwnersAgree'
  <2>1. oPc[s] = "new" /\ UNCHANGED <<oAccount, oNamed, oSettings, oOwners,
            Owners!savers>>
    BY <1>1 DEF Owners!Check, Owners!tables
  <2>2. \A z \in Setups : z # s => /\ oPc'[z] = oPc[z] /\ oEmail'[z] = oEmail[z]
                                  /\ oTenant'[z] = oTenant[z]
    BY <1>1 DEF Owners!Check, OwnersInv, Owners!TypeOK
  <2>3. oPc'[s] \in {"checked", "refused"}
    BY <1>1 DEF Owners!Check, OwnersInv, Owners!TypeOK
  <2>4. \A e \in Emails : oAccount[e] # None => oAccount[e] \in Setups \ {s}
    BY <2>1 DEF OwnersInv, Owners!TypeOK
  <2> QED
    BY <2>1, <2>2, <2>3, <2>4 DEF OwnersInv, Owners!savers
<1>2. ASSUME NEW s \in Setups,
             Owners!CreateThrows(s) \/ Owners!Show(s) \/ Owners!ShowThrows(s)
      PROVE  SetupsAreKnown' /\ Owners!OwnersAgree'
  BY <1>2
     DEF Owners!CreateThrows, Owners!Show, Owners!ShowThrows, Owners!Goto,
         OwnersInv, Owners!TypeOK, Owners!tables, Owners!savers
<1>3. ASSUME NEW u \in Upserts, NEW k \in Tenants, Owners!UpsertTenant(u, k)
      PROVE  SetupsAreKnown' /\ Owners!OwnersAgree'
  <2>1. \A t \in Tenants : oNamed[t] # None => oNamed'[t] # None
    BY <1>3
       DEF Owners!UpsertTenant, OwnersInv, Owners!TypeOK, Owners!ConstantsOK
  <2>2. \A v \in SettingsSaves : oSaving[v] # "new" => oCompany[v] \in Tenants
    BY FormIsTyped DEF OwnersInv
  <2>3. \A e \in Emails : oAccount[e] # None => oTenant[oAccount[e]] \in Tenants
    BY FormIsTyped DEF OwnersInv, Owners!TypeOK
  <2> QED
    BY <1>3, <2>1, <2>2, <2>3 DEF Owners!UpsertTenant, OwnersInv, Owners!savers
<1>4. ASSUME NEW v \in SettingsSaves, NEW k \in Tenants, Owners!Admit(v, k)
      PROVE  SetupsAreKnown' /\ Owners!OwnersAgree'
  BY <1>4
     DEF Owners!Admit, Owners!SaveGoto, OwnersInv, Owners!TypeOK, Owners!others
<1>5. ASSUME NEW v \in SettingsSaves, Owners!WriteSettings(v)
      PROVE  SetupsAreKnown' /\ Owners!OwnersAgree'
  <2>1. oCompany[v] \in Tenants /\ v # None
    BY <1>5, FormIsTyped DEF Owners!WriteSettings, OwnersInv, Owners!ConstantsOK
  <2>2. /\ oSettings' = [oSettings EXCEPT ![oCompany[v]] = v]
        /\ oLastSave' = [oLastSave EXCEPT ![oCompany[v]] = v]
        /\ UNCHANGED <<oAccount, oNamed, oOwners, oPc, oEmail, oTenant,
            oCompany>>
    BY <1>5 DEF Owners!WriteSettings, Owners!others
  <2>3. \A t \in Tenants : oSettings[t] # None => oSettings'[t] # None
    BY <2>1, <2>2 DEF OwnersInv, Owners!TypeOK
  <2>4. \A t \in Tenants : oLastSave'[t] # None => oSettings'[t] = oLastSave'[t]
    BY <2>1, <2>2 DEF OwnersInv, Owners!TypeOK
  <2>5. \A t \in Tenants : oLastSave[t] # None => oLastSave'[t] # None
    BY <2>1, <2>2 DEF OwnersInv, Owners!TypeOK
  <2>6. /\ oLastSave'[oCompany[v]] # None
        /\ \A z \in SettingsSaves : oSaving[z] # "new" =>
            oCompany[z] \in Tenants
    BY <2>1, <2>2, FormIsTyped DEF OwnersInv, Owners!TypeOK
  <2>7. \A z \in SettingsSaves : z # v => oSaving'[z] = oSaving[z]
    BY <1>5 DEF Owners!WriteSettings, Owners!SaveGoto, OwnersInv, Owners!TypeOK
  <2>8. oSaving[v] # "new" /\ oSaving'[v] \in {"written", "failed"}
    BY <1>5 DEF Owners!WriteSettings, Owners!SaveGoto, OwnersInv, Owners!TypeOK
  <2>9. \A e \in Emails : oAccount[e] # None => oTenant[oAccount[e]] \in Tenants
    BY FormIsTyped DEF OwnersInv, Owners!TypeOK
  <2>10. SetupsAreKnown'
    BY <2>2, <2>5, <2>6, <2>7, <2>8 DEF OwnersInv
  <2>11. Owners!ShownKeyWorks' /\ Owners!OwnerHasCompany'
    BY <2>2, <2>3, <2>9 DEF OwnersInv
  <2>12. Owners!SettingsSurvive'
    BY <2>2, <2>4, <2>5, <2>6, <2>7, <2>8 DEF OwnersInv
  <2> QED
    BY <2>10, <2>11, <2>12
<1>6. ASSUME NEW v \in SettingsSaves,
             Owners!AuditSave(v) \/ Owners!AnswerSave(v) \/ Owners!SaveFails(v)
      PROVE  SetupsAreKnown' /\ Owners!OwnersAgree'
  BY <1>6
     DEF Owners!AuditSave, Owners!AnswerSave, Owners!SaveFails, Owners!SaveGoto,
         OwnersInv, Owners!TypeOK, Owners!others
<1>7. ASSUME UNCHANGED Owners!vars PROVE SetupsAreKnown' /\ Owners!OwnersAgree'
  BY <1>7 DEF Owners!vars, Owners!tables, Owners!savers, OwnersInv
<1> QED
  BY <1>1, <1>2, <1>3, <1>4, <1>5, <1>6, <1>7, BatchStep
  DEF Owners!Next, Owners!Setup, Owners!SaveSettings

\* The invariant of the owners' accounts.
LEMMA OwnersInvariant ==
    Owners!ConstantsOK /\ Owners!Spec => []OwnersInv
PROOF
<1>1. Owners!ConstantsOK /\ Owners!Init => OwnersInv
  BY DEF Owners!Init, OwnersInv, Owners!ConstantsOK, Owners!TypeOK,
         SetupsAreKnown, Owners!OwnersAgree, Owners!ShownKeyWorks,
         Owners!OwnerHasCompany, Owners!SettingsSurvive, Owners!Writers
<1>2. OwnersInv /\ [Owners!Next]_(Owners!vars) => OwnersInv'
  BY OwnersTypeStep, OwnersStep DEF OwnersInv, Owners!ConstantsOK
<1> QED
  BY <1>1, <1>2, PTL DEF Owners!Spec

-----------------------------------------------------------------------------
(* The sessions: CloudflareSessions.                                        *)

\* A request carries the cookie of an open session, and one sent too late that
\* of an ended one; what a logout has deleted was open and never comes back; and
\* the row of a session that was inserted is there until it has faded.
LoginsAreOpen ==
    /\ \A r \in Requests : sToken[r] # NoSession => sLogin[sToken[r]] = "open"
    /\ \A r \in sStale : sPc[r] # "idle" /\ sToken[r] \in Logins!Ended
    /\ \A s \in sSignedOut : sLogin[s] = "open" /\ s \notin sRows
    /\ \A s \in Sessions : sLogin[s] \in {"inserted", "open"} =>
        s \in sRows \/ s \in Logins!Fading

LoginsInv == Logins!ConstantsOK /\ Logins!TypeOK /\ LoginsAreOpen

\* Whole seconds never run backwards.
LEMMA SecondsGrow ==
    ASSUME NEW a \in Nat, NEW b \in Nat, NEW d \in Nat \ {0}, a <= b
    PROVE  a \div d \in Nat /\ b \div d \in Nat /\ a \div d <= b \div d
PROOF
  OBVIOUS

\* The times that the sessions compare are numbers.
LEMMA TimesAreNumbers ==
    ASSUME LoginsInv
    PROVE  /\ sNow \in Nat /\ Second \in Nat \ {0}
           /\ \A s \in Sessions : sExpires[s] \in Nat
               /\ sExpires[s] \div Second \in Nat
PROOF
<1>1. sNow \in Nat /\ Second \in Nat \ {0}
  BY DEF LoginsInv, Logins!TypeOK, Logins!ConstantsOK
<1>2. \A s \in Sessions : sExpires[s] \in Nat
  BY DEF LoginsInv, Logins!TypeOK, Logins!ConstantsOK
<1> QED
  BY <1>1, <1>2, SecondsGrow

\* What has ended has faded.
LEMMA EndedFades ==
    ASSUME LoginsInv
    PROVE  Logins!Ended \subseteq Logins!Fading
           /\ Logins!Fading \subseteq Sessions
PROOF
<1>1. \A s \in Sessions : sExpires[s] <= sNow => Logins!IsExpired(s)
  BY TimesAreNumbers, SecondsGrow DEF Logins!IsExpired
<1> QED
  BY <1>1 DEF Logins!Ended, Logins!Fading, LoginsInv, Logins!TypeOK

\* A request carries the token of a session that was opened.
LEMMA TokenIsOpen ==
    ASSUME LoginsInv, NEW r \in Requests, sPc[r] # "idle"
    PROVE  sToken[r] \in Sessions /\ sLogin[sToken[r]] = "open"
PROOF
  BY DEF LoginsInv, Logins!TypeOK, LoginsAreOpen

\* The clock and the logins only make sessions fade and end.
LEMMA LoginFades ==
    ASSUME LoginsInv,
           \/ Logins!Tick
           \/ \E s \in Sessions : Logins!Verify(s) \/ Logins!Insert(s)
               \/ Logins!Answer(s) \/ Logins!LoginFails(s)
    PROVE  Logins!Ended \subseteq Logins!Ended'
           /\ Logins!Fading \subseteq Logins!Fading'
PROOF
<1>1. CASE Logins!Tick
  <2>1. \A s \in Sessions : Logins!IsExpired(s) => Logins!IsExpired(s)'
    <3>1. sNow \in Nat /\ sNow' \in Nat /\ sNow <= sNow' /\ Second \in Nat \ {0}
      BY <1>1 DEF Logins!Tick, LoginsInv, Logins!TypeOK, Logins!ConstantsOK
    <3>2. sNow \div Second <= sNow' \div Second
      BY <3>1, SecondsGrow
    <3>3. sNow \div Second \in Nat /\ sNow' \div Second \in Nat
      BY <3>1, SecondsGrow
    <3>4. sExpires' = sExpires
      BY <1>1 DEF Logins!Tick
    <3> QED
      BY <3>2, <3>3, <3>4, TimesAreNumbers DEF Logins!IsExpired
  <2>2. \A s \in Sessions : sExpires[s] <= sNow => sExpires'[s] <= sNow'
    BY <1>1 DEF Logins!Tick, LoginsInv, Logins!TypeOK, Logins!ConstantsOK
  <2>3. UNCHANGED <<sLogin, sSignedOut>>
    BY <1>1 DEF Logins!Tick, Logins!history
  <2> QED
    BY <2>1, <2>2, <2>3 DEF Logins!Ended, Logins!Fading
<1>2. ASSUME NEW s \in Sessions,
             Logins!Verify(s) \/ Logins!Insert(s) \/ Logins!Answer(s)
                 \/ Logins!LoginFails(s)
      PROVE  Logins!Ended \subseteq Logins!Ended'
             /\ Logins!Fading \subseteq Logins!Fading'
  <2>1. \A z \in Sessions : sLogin[z] # "new" =>
          sLogin'[z] # "new" /\ sExpires'[z] = sExpires[z]
    BY <1>2
       DEF Logins!Verify, Logins!Insert, Logins!Answer, Logins!LoginFails,
           LoginsInv, Logins!TypeOK
  <2>2. sNow' = sNow /\ sSignedOut' = sSignedOut
    BY <1>2
       DEF Logins!Verify, Logins!Insert, Logins!Answer, Logins!LoginFails,
           Logins!history
  <2> QED
    BY <2>1, <2>2 DEF Logins!Ended, Logins!Fading, Logins!IsExpired
<1> QED
  BY <1>1, <1>2

\* A login and the clock keep the invariant of the sessions,
LEMMA LoginStep ==
    ASSUME LoginsInv,
           \/ Logins!Tick
           \/ \E s \in Sessions : Logins!Verify(s) \/ Logins!Insert(s)
               \/ Logins!Answer(s) \/ Logins!LoginFails(s)
    PROVE  LoginsInv'
PROOF
<1>0. /\ Logins!Ended \subseteq Logins!Ended'
          /\ Logins!Fading \subseteq Logins!Fading' /\ Logins!ConstantsOK
      /\ Logins!TypeOK /\ LoginsAreOpen
  BY LoginFades DEF LoginsInv
<1>1. Logins!ConstantsOK' /\ UNCHANGED <<sSignedOut, sStale, sPc, sToken>>
  BY DEF Logins!ConstantsOK, LoginsInv, Logins!Tick, Logins!Verify,
         Logins!Insert, Logins!Answer, Logins!LoginFails, Logins!history
<1>2. Logins!TypeOK'
  BY <1>0, <1>1
     DEF Logins!ConstantsOK, Logins!TypeOK, Logins!Tick, Logins!Verify,
         Logins!Insert, Logins!Answer, Logins!LoginFails
<1>3. LoginsAreOpen'
  <2>1. \A s \in Sessions :
          /\ sLogin[s] = "open" => sLogin'[s] = "open"
          /\ s \in sRows => s \in sRows'
          /\ s \in sRows' \ sRows => sLogin[s] # "open"
          /\ sLogin'[s] \in {"inserted", "open"} =>
                sLogin[s] \in {"inserted", "open"} \/ s \in sRows'
    BY <1>0
       DEF Logins!TypeOK, Logins!Tick, Logins!Verify, Logins!Insert,
           Logins!Answer, Logins!LoginFails
  <2>2. \A r \in Requests : sToken[r] # NoSession => sToken[r] \in Sessions
    BY <1>0 DEF Logins!TypeOK
  <2>3. sSignedOut \subseteq Sessions
    BY <1>0 DEF Logins!TypeOK
  <2> QED
    BY <1>0, <1>1, <2>1, <2>2, <2>3 DEF LoginsAreOpen
<1> QED
  BY <1>1, <1>2, <1>3 DEF LoginsInv

\* A purge takes rows whose sessions have faded.
LEMMA PurgeStep ==
    ASSUME LoginsInv, Logins!Purge
    PROVE  LoginsInv'
PROOF
<1>1. UNCHANGED <<sNow, sLogin, sExpires, sPc, sToken, sSignedOut, sStale>>
  BY DEF Logins!Purge, Logins!history
<1>2. \A s \in sRows \ sRows' : s \in Logins!Fading
  BY DEF Logins!Purge, Logins!Fading, LoginsInv, Logins!TypeOK
<1>3. sRows' \subseteq sRows
  BY DEF Logins!Purge
<1> QED
  BY <1>1, <1>2, <1>3
     DEF LoginsInv, Logins!ConstantsOK, Logins!TypeOK, LoginsAreOpen,
         Logins!Fading, Logins!Ended, Logins!IsExpired

\* and so does a request that carries a token.
LEMMA RequestStep ==
    ASSUME LoginsInv, NEW r \in Requests,
           \/ \E s \in Sessions : Logins!Send(r, s)
           \/ Logins!Authenticate(r) \/ Logins!End(r) \/ Logins!Logout(r)
    PROVE  LoginsInv'
PROOF
<1>0. Logins!ConstantsOK /\ Logins!TypeOK /\ LoginsAreOpen
  BY DEF LoginsInv
<1> USE <1>0 DEF LoginsInv, Logins!ConstantsOK
<1>1. ASSUME NEW s \in Sessions, Logins!Send(r, s) PROVE LoginsInv'
  <2>1. Logins!Ended' = Logins!Ended /\ Logins!Fading' = Logins!Fading
    BY <1>1 DEF Logins!Send, Logins!Ended, Logins!Fading, Logins!IsExpired
  <2>2. Logins!TypeOK'
    BY <1>1 DEF Logins!Send, Logins!TypeOK
  <2> QED
    BY <1>1, <2>1, <2>2 DEF Logins!Send, Logins!TypeOK, LoginsAreOpen
<1>2. CASE Logins!Authenticate(r)
  <2>1. Logins!Ended' = Logins!Ended /\ Logins!Fading' = Logins!Fading
    BY <1>2
       DEF Logins!Authenticate, Logins!Ended, Logins!Fading, Logins!IsExpired,
           Logins!history
  <2>2. Logins!TypeOK'
    BY <1>2 DEF Logins!Authenticate, Logins!TypeOK, Logins!history
  <2> QED
    BY <1>2, <2>1, <2>2
       DEF Logins!Authenticate, Logins!TypeOK, LoginsAreOpen, Logins!history
<1>3. CASE Logins!End(r)
  <2>1. Logins!Ended' = Logins!Ended /\ Logins!Fading' = Logins!Fading
    BY <1>3 DEF Logins!End, Logins!Ended, Logins!Fading, Logins!IsExpired
  <2>2. Logins!TypeOK'
    BY <1>3 DEF Logins!End, Logins!TypeOK
  <2> QED
    BY <1>3, <2>1, <2>2 DEF Logins!End, Logins!TypeOK, LoginsAreOpen
<1>4. CASE Logins!Logout(r)
  <2>1. sToken[r] \in Sessions /\ sLogin[sToken[r]] = "open"
    BY <1>4, TokenIsOpen DEF Logins!Logout
  <2>2. Logins!Ended' = Logins!Ended \union {sToken[r]}
        /\ Logins!Fading' = Logins!Fading \union {sToken[r]}
    BY <1>4, <2>1
       DEF Logins!Logout, Logins!Ended, Logins!Fading, Logins!IsExpired
  <2>3. Logins!TypeOK'
    BY <1>4, <2>1 DEF Logins!Logout, Logins!TypeOK
  <2> QED
    BY <1>4, <2>1, <2>2, <2>3 DEF Logins!Logout, Logins!TypeOK, LoginsAreOpen
<1> QED
  BY <1>1, <1>2, <1>3, <1>4

\* The invariant of the sessions.
LEMMA LoginsInvariant == Logins!ConstantsOK /\ Logins!Spec => []LoginsInv
PROOF
<1>1. Logins!ConstantsOK /\ Logins!Init => LoginsInv
  BY DEF Logins!Init, LoginsInv, Logins!ConstantsOK, Logins!TypeOK,
         LoginsAreOpen
<1>2. LoginsInv /\ UNCHANGED Logins!vars => LoginsInv'
  BY DEF Logins!vars, Logins!history, LoginsInv, Logins!ConstantsOK,
         Logins!TypeOK, LoginsAreOpen, Logins!Ended, Logins!Fading,
         Logins!IsExpired
<1>3. LoginsInv /\ [Logins!Next]_(Logins!vars) => LoginsInv'
  BY <1>2, LoginStep, PurgeStep, RequestStep DEF Logins!Next
<1> QED
  BY <1>1, <1>3, PTL DEF Logins!Spec

(* The refinement.                                                          *)

\* A login and the clock are a change of the abstract store.
LEMMA LoginRefines ==
    ASSUME LoginsInv, LoginsInv',
           \/ Logins!Tick
           \/ \E s \in Sessions : Logins!Verify(s) \/ Logins!Insert(s)
               \/ Logins!Answer(s) \/ Logins!LoginFails(s)
    PROVE  Logins!Store!Fade
PROOF
<1>1. UNCHANGED <<sPc, sToken, sStale>>
  BY DEF Logins!Tick, Logins!Verify, Logins!Insert, Logins!Answer,
         Logins!LoginFails, Logins!history
<1>2. Logins!Entitled' = Logins!Entitled /\ Logins!Told' = Logins!Told
  BY <1>1 DEF Logins!Entitled, Logins!Told
<1>3. Logins!Ended' \subseteq Logins!Fading'
      /\ Logins!Fading' \subseteq Sessions
  <2>1. \A s \in Sessions : sExpires'[s] \in Nat
    BY DEF LoginsInv, Logins!TypeOK, Logins!ConstantsOK
  <2>2. sNow' \in Nat /\ Second \in Nat \ {0}
    BY DEF LoginsInv, Logins!TypeOK, Logins!ConstantsOK
  <2>3. \A s \in Sessions : sExpires'[s] <= sNow' => Logins!IsExpired(s)'
    BY <2>1, <2>2, SecondsGrow DEF Logins!IsExpired
  <2> QED
    BY <2>3 DEF Logins!Ended, Logins!Fading, LoginsInv, Logins!TypeOK
<1> QED
  BY <1>1, <1>2, <1>3, LoginFades DEF Logins!Store!Fade

\* A purge is not seen.
LEMMA PurgeStutters ==
    ASSUME LoginsInv, Logins!Purge
    PROVE  UNCHANGED Logins!Store!vars
PROOF
  BY DEF Logins!Purge, Logins!history, Logins!Store!vars, Logins!Fading,
         Logins!Ended, Logins!Entitled, Logins!Told, Logins!IsExpired

\* A request that is sent asks the abstract store.
LEMMA SendRefines ==
    ASSUME LoginsInv, NEW r \in Requests, NEW s \in Sessions, Logins!Send(r, s)
    PROVE  Logins!Store!Ask(r, s)
PROOF
<1>0. Logins!TypeOK /\ LoginsAreOpen
  BY DEF LoginsInv
<1>1. Logins!Ended' = Logins!Ended /\ Logins!Fading' = Logins!Fading
  BY DEF Logins!Send, Logins!Ended, Logins!Fading, Logins!IsExpired
<1>2. r \notin sStale /\ r \notin Logins!Entitled
  BY <1>0 DEF Logins!Send, LoginsAreOpen, Logins!Entitled
<1>3. Logins!Entitled' = IF s \in
          Logins!Ended THEN Logins!Entitled ELSE Logins!Entitled \union {r}
  BY <1>0, <1>2 DEF Logins!Send, Logins!Entitled, Logins!TypeOK
<1>4. Logins!Told[r] = "none"
      /\ Logins!Told' = [Logins!Told EXCEPT ![r] = "asked"]
  BY <1>0 DEF Logins!Send, Logins!Told, Logins!TypeOK
<1> QED
  BY <1>1, <1>3, <1>4 DEF Logins!Send, Logins!Store!Ask

\* The statement finds only sessions that had not ended when the request was
\* sent, and misses only faded ones.
LEMMA AuthenticateRefines ==
    ASSUME LoginsInv, NEW r \in Requests, Logins!Authenticate(r)
    PROVE  Logins!Store!Authorise(r) \/ Logins!Store!Refuse(r)
PROOF
<1>0. Logins!TypeOK /\ LoginsAreOpen
  BY DEF LoginsInv
<1>1. sToken[r] \in Sessions /\ sLogin[sToken[r]] = "open"
  BY TokenIsOpen DEF Logins!Authenticate
<1>2. UNCHANGED <<Logins!Ended, Logins!Fading, Logins!Entitled, sToken>>
  BY <1>0
     DEF Logins!Authenticate, Logins!Ended, Logins!Fading, Logins!Entitled,
         Logins!IsExpired, Logins!TypeOK, Logins!history
<1>3. Logins!Told[r] = "asked"
  BY DEF Logins!Authenticate, Logins!Told
<1>4. CASE sToken[r] \in sRows /\ ~Logins!IsExpired(sToken[r])
  <2>1. r \in Logins!Entitled
    <3>1. SUFFICES r \notin sStale
      BY DEF Logins!Entitled, Logins!Authenticate
    <3>2. sToken[r] \notin Logins!Fading
      BY <1>0, <1>4 DEF Logins!Fading, LoginsAreOpen
    <3> QED
      BY <1>0, <3>2, EndedFades DEF LoginsAreOpen
  <2>2. Logins!Told' = [Logins!Told EXCEPT ![r] = "authorised"]
    BY <1>0, <1>4 DEF Logins!Authenticate, Logins!Told, Logins!TypeOK
  <2> QED
    BY <1>2, <1>3, <2>1, <2>2 DEF Logins!Store!Authorise
<1>5. CASE ~(sToken[r] \in sRows /\ ~Logins!IsExpired(sToken[r]))
  <2>1. sToken[r] \in Logins!Fading
    BY <1>0, <1>1, <1>5 DEF Logins!Fading, LoginsAreOpen
  <2>2. Logins!Told' = [Logins!Told EXCEPT ![r] = "refused"]
    BY <1>0, <1>5 DEF Logins!Authenticate, Logins!Told, Logins!TypeOK
  <2> QED
    BY <1>2, <1>3, <2>1, <2>2 DEF Logins!Store!Refuse
<1> QED
  BY <1>4, <1>5

\* A request that ends leaves it.
LEMMA EndRefines ==
    ASSUME LoginsInv, NEW r \in Requests, Logins!End(r)
    PROVE  Logins!Store!Leave(r)
PROOF
<1>0. Logins!TypeOK
  BY DEF LoginsInv
<1>1. Logins!Ended' = Logins!Ended /\ Logins!Fading' = Logins!Fading
  BY DEF Logins!End, Logins!Ended, Logins!Fading, Logins!IsExpired
<1>2. Logins!Entitled' = Logins!Entitled \ {r}
  BY <1>0 DEF Logins!End, Logins!Entitled, Logins!TypeOK
<1>3. Logins!Told[r] # "none"
      /\ Logins!Told' = [Logins!Told EXCEPT ![r] = "none"]
  BY <1>0 DEF Logins!End, Logins!Told, Logins!TypeOK
<1> QED
  BY <1>1, <1>2, <1>3 DEF Logins!End, Logins!Store!Leave

\* A logout is a change of the abstract store.
LEMMA LogoutRefines ==
    ASSUME LoginsInv, NEW r \in Requests, Logins!Logout(r)
    PROVE  Logins!Store!Fade
PROOF
<1>0. Logins!TypeOK
  BY DEF LoginsInv
<1>1. sToken[r] \in Sessions /\ sLogin[sToken[r]] = "open"
  BY TokenIsOpen DEF Logins!Logout
<1>2. Logins!Ended' = Logins!Ended \union {sToken[r]}
      /\ Logins!Fading' = Logins!Fading \union {sToken[r]}
  BY DEF Logins!Logout, Logins!Ended, Logins!Fading, Logins!IsExpired
<1>3. UNCHANGED <<Logins!Entitled, Logins!Told, sToken>>
  BY <1>0 DEF Logins!Logout, Logins!Entitled, Logins!Told, Logins!TypeOK
<1> QED
  BY <1>1, <1>2, <1>3, EndedFades DEF Logins!Store!Fade

\* Every step is one of the store or leaves it alone.
LEMMA LoginsImplementStore ==
    Logins!ConstantsOK /\ Logins!Spec => Logins!ImplementsSessionStore
PROOF
<1>1. Logins!ConstantsOK /\ Logins!Init => Logins!Store!Init
  BY DEF Logins!Init, Logins!Store!Init, Logins!Ended, Logins!Fading,
         Logins!Entitled, Logins!Told
<1>2. LoginsInv /\ UNCHANGED Logins!vars => UNCHANGED Logins!Store!vars
  BY DEF Logins!vars, Logins!Store!vars, Logins!history, Logins!Ended,
         Logins!Fading, Logins!Entitled, Logins!Told, Logins!IsExpired
<1>3. LoginsInv /\ LoginsInv' /\ Logins!Next =>
          [Logins!Store!Next]_(Logins!Store!vars)
  <2> SUFFICES ASSUME LoginsInv, LoginsInv', Logins!Next
               PROVE  [Logins!Store!Next]_(Logins!Store!vars)
    OBVIOUS
  <2>1. CASE \/ Logins!Tick
             \/ \E s \in Sessions :
                    Logins!Verify(s) \/ Logins!Insert(s)
                        \/ Logins!Answer(s) \/ Logins!LoginFails(s)
    BY <2>1, LoginRefines DEF Logins!Store!Next
  <2>2. CASE Logins!Purge
    BY <2>2, PurgeStutters
  <2>3. ASSUME NEW r \in Requests,
               \/ \E s \in Sessions : Logins!Send(r, s)
               \/ Logins!Authenticate(r) \/ Logins!End(r) \/ Logins!Logout(r)
        PROVE  Logins!Store!Next
    BY <2>3, SendRefines, AuthenticateRefines, EndRefines, LogoutRefines
       DEF Logins!Store!Next
  <2> QED
    BY <2>1, <2>2, <2>3 DEF Logins!Next
<1>4. LoginsInv /\ LoginsInv' /\ [Logins!Next]_(Logins!vars) =>
          [Logins!Store!Next]_(Logins!Store!vars)
  BY <1>2, <1>3
<1> QED
  BY <1>1, <1>4, LoginsInvariant, PTL
     DEF Logins!Spec, Logins!ImplementsSessionStore, Logins!Store!Spec

-----------------------------------------------------------------------------
(* The theorems.                                                            *)

\* A listed source has the vectors of all its fragments, vectors without a row
\* belong to a request at work or to a clean-up that failed, and an audited
\* removal removed everything for good, once (index.ts:241-248, 407-420).
THEOREM RowsAndVectorsAgree == Spec => []VectorsAgree
PROOF
<1>1. KnowledgeInv => VectorsAgree
  BY DEF KnowledgeInv, VectorsAgree
<1> QED
  BY <1>1, KnowledgeInvariant, PartsRun, CloudAssumption, PTL
     DEF CloudAssumption

\* The credential stored is the one last supplied unless a save was overtaken,
\* and "connected" is shown for a row the provider has accepted unless it was
\* written during the test (integrations.ts:143-186, 202-243).
THEOREM CredentialsAndVerdictsAgree == Spec => []IntegrationsAgree
PROOF
<1>1. ConnectionsInv => IntegrationsAgree
  BY DEF ConnectionsInv, IntegrationsAgree
<1> QED
  BY <1>1, ConnectionsInvariant, PartsRun, CloudAssumption, PTL
     DEF CloudAssumption

\* The key shown for an email is that of its account, its owner has a company,
\* and no setup overwrites settings that were saved, however setups of one email
\* and saves of one company overlap (auth.ts:62-100, index.ts:326-345).
THEOREM OwnersKeepTheirs == Spec => []OwnersAgree
PROOF
<1>1. OwnersInv => OwnersAgree
  BY DEF OwnersInv, OwnersAgree
<1> QED
  BY <1>1, OwnersInvariant, PartsRun, CloudAssumption, PTL
     DEF CloudAssumption

\* The sessions implement the same SessionStore as those of the panel, though
\* the expiry is set in milliseconds and compared in whole seconds
\* (auth.ts:112-134, index.ts:555-557).
THEOREM CloudImplementsSessionStore == Spec => ImplementsSessionStore
PROOF
  BY LoginsImplementStore, PartsRun, CloudAssumption, PTL
     DEF CloudAssumption, ImplementsSessionStore

\* Every variable of every part keeps its type.
THEOREM CloudTyped == Spec => []TypesOK
PROOF
<1>1. KnowledgeInv /\ ConnectionsInv /\ OwnersInv /\ LoginsInv => TypesOK
  BY DEF KnowledgeInv, ConnectionsInv, OwnersInv, LoginsInv, TypesOK
<1> QED
  BY <1>1, KnowledgeInvariant, ConnectionsInvariant, OwnersInvariant,
     LoginsInvariant, PartsRun, CloudAssumption, PTL
     DEF CloudAssumption
===============================================================================
