------------------------------ MODULE PanelProofs -----------------------------
(***************************************************************************)
(* Theorems about the panel of Service, for any sources, saves, texts,     *)
(* sessions, requests, lifetimes and lengths of the clock.                 *)
(***************************************************************************)
EXTENDS Service, TLAPS

\* A behaviour of Service is one of each of its parts: a step of one is a
\* stutter of the others.
LEMMA PartsRun ==
    Spec => /\ Files!Spec
            /\ Settings!Spec
            /\ Logins!Spec
            /\ Replies!Spec
            /\ Knowledge!Spec
            /\ Seeds!Spec
            /\ Rows!Spec
PROOF
<1> DEFINE vars == <<fVars, aVars, sVars, rVars, kVars, dVars, tVars, part>>
<1>1. Init => /\ Files!Init
              /\ Settings!Init
              /\ Logins!Init
              /\ Replies!Init
              /\ Knowledge!Init
              /\ Seeds!Init
              /\ Rows!Init
  BY DEF Init
<1> USE DEF NextFiles, NextSettings, NextSessions, NextReplies, NextKnowledge,
            NextSeed, NextTenants
<1>2. [Next]_vars => [Files!Next]_(Files!vars)
  BY DEF Next, fVars, Files!vars, Files!requestVars, Files!historyVars
<1>3. [Next]_vars => [Settings!Next]_(Settings!vars)
  BY DEF Next, aVars, Settings!vars, Settings!rows, Settings!locals,
         Settings!history
<1>4. [Next]_vars => [Logins!Next]_(Logins!vars)
  BY DEF Next, sVars, Logins!vars, Logins!logins, Logins!requests,
         Logins!history
<1>5. [Next]_vars => [Replies!Next]_(Replies!vars)
  BY DEF Next, rVars, Replies!vars, Replies!environment, Replies!text
<1>6. [Next]_vars => [Knowledge!Next]_(Knowledge!vars)
  BY DEF Next, kVars, Knowledge!vars
<1>7. [Next]_vars => [Seeds!Next]_(Seeds!vars)
  BY DEF Next, dVars, Seeds!vars, Seeds!rowVars, Seeds!startVars, Seeds!history
<1>8. [Next]_vars => [Rows!Next]_(Rows!vars)
  BY DEF Next, tVars, Rows!vars, Rows!request
<1> QED
  BY <1>1, <1>2, <1>3, <1>4, <1>5, <1>6, <1>7, <1>8, PTL
     DEF Spec, Files!Spec, Settings!Spec, Logins!Spec, Replies!Spec,
         Knowledge!Spec, Seeds!Spec, Rows!Spec

-----------------------------------------------------------------------------
(* The knowledge library of the panel: KnowledgeFiles.                      *)

\* The upload of s can commit no row any more.
IsOver(s) == fUpload[s] \in {"raised", "ended"}

\* A row, and whatever a request works on, is of an upload that is over, so
\* that what a removal deletes never comes back; while an upload is between
\* its two steps its file is there; an upload that cleans up has a row only if
\* its commit was uncertain; a document about to be read has its row, or the
\* row was removed.
WorkIsOnOld ==
    /\ \A s \in fRows \union fRemoved : IsOver(s)
    /\ \A r \in FileRequests : fTarget[r] # NoSource => IsOver(fTarget[r])
    /\ \A s \in Sources : fUpload[s] = "saved" => s \in fFiles
    /\ \A s \in fRows : fUpload[s] = "raised" => s \in fUncertain
    /\ fRows \intersect fRemoved = {}
    /\ \A r \in FileRequests :
        /\ fPc[r] = "unlink" => fTarget[r] \in fRemoved
        /\ fPc[r] = "content" => fTarget[r] \in fRows \union fRemoved

FilesInv == Files!ConstantsOK /\ Files!TypeOK /\ WorkIsOnOld /\ Files!FilesAgree

(* Types, and what is known of uploads that are over.                       *)

\* Every step keeps the types.
LEMMA FilesTypeStep ==
    ASSUME Files!ConstantsOK, Files!TypeOK, [Files!Next]_(Files!vars)
    PROVE  Files!TypeOK'
PROOF
<1>1. ASSUME NEW s \in Sources, Files!Upload(s) PROVE Files!TypeOK'
  BY <1>1
     DEF Files!Upload, Files!SaveFile, Files!SaveRaises, Files!AfterSave,
         Files!AddRow, Files!AddRowRaises, Files!UndoSave, Files!CutUpload,
         Files!Advance, Files!RemoveFile, Files!TypeOK, Files!requestVars,
         Files!historyVars
<1>2. ASSUME NEW r \in FileRequests, NEW s \in Sources,
             Files!SelectRow(r, s) \/ Files!GetRow(r, s)
      PROVE  Files!TypeOK'
  BY <1>2
     DEF Files!SelectRow, Files!GetRow, Files!Take, Files!LeaveFile,
         Files!ConstantsOK, Files!TypeOK, Files!historyVars
<1>3. ASSUME NEW r \in FileRequests, fPc[r] # "idle"
      PROVE  fTarget[r] \in Sources
  BY <1>3 DEF Files!TypeOK
<1>4. ASSUME NEW r \in FileRequests, Files!DeleteRow(r) PROVE Files!TypeOK'
  BY <1>3, <1>4 DEF Files!DeleteRow, Files!TypeOK
<1>5. ASSUME NEW r \in FileRequests,
             Files!Unlink(r) \/ Files!CutDelete(r) \/ Files!ServeFile(r)
      PROVE  Files!TypeOK'
  BY <1>3, <1>5
     DEF Files!Unlink, Files!CutDelete, Files!ServeFile, Files!End,
         Files!RemoveFile, Files!TypeOK, Files!historyVars
<1>6. ASSUME UNCHANGED Files!vars PROVE Files!TypeOK'
  BY <1>6 DEF Files!vars, Files!requestVars, Files!historyVars, Files!TypeOK
<1> QED
  BY <1>1, <1>2, <1>4, <1>5, <1>6 DEF Files!Next, Files!Serve

\* Every step keeps to what is known of uploads that are over.
LEMMA FilesWorkStep ==
    ASSUME Files!ConstantsOK, Files!TypeOK, WorkIsOnOld,
           [Files!Next]_(Files!vars)
    PROVE  WorkIsOnOld'
PROOF
<1>1. ASSUME NEW s \in Sources, Files!Upload(s) PROVE WorkIsOnOld'
  BY <1>1
     DEF Files!Upload, Files!SaveFile, Files!SaveRaises, Files!AfterSave,
         Files!AddRow, Files!AddRowRaises, Files!UndoSave, Files!CutUpload,
         Files!Advance, Files!RemoveFile, Files!TypeOK, WorkIsOnOld, IsOver,
         Files!ConstantsOK, Files!requestVars, Files!historyVars
<1>2. ASSUME NEW r \in FileRequests, NEW s \in Sources,
             Files!SelectRow(r, s) \/ Files!GetRow(r, s)
      PROVE  WorkIsOnOld'
  BY <1>2
     DEF Files!SelectRow, Files!GetRow, Files!Take, Files!LeaveFile,
         Files!ConstantsOK, Files!TypeOK, WorkIsOnOld, IsOver, Files!historyVars
<1>3. ASSUME NEW r \in FileRequests, fPc[r] # "idle"
      PROVE  fTarget[r] \in Sources /\ IsOver(fTarget[r])
  BY <1>3 DEF Files!TypeOK, WorkIsOnOld, Files!ConstantsOK
<1>4. ASSUME NEW r \in FileRequests, Files!DeleteRow(r) PROVE WorkIsOnOld'
  BY <1>3, <1>4 DEF Files!DeleteRow, Files!TypeOK, WorkIsOnOld, IsOver
<1>5. ASSUME NEW r \in FileRequests,
             Files!Unlink(r) \/ Files!CutDelete(r) \/ Files!ServeFile(r)
      PROVE  WorkIsOnOld'
  BY <1>3, <1>5
     DEF Files!Unlink, Files!CutDelete, Files!ServeFile, Files!End,
         Files!RemoveFile, Files!TypeOK, WorkIsOnOld, IsOver, Files!historyVars
<1>6. ASSUME UNCHANGED Files!vars PROVE WorkIsOnOld'
  BY <1>6
     DEF Files!vars, Files!requestVars, Files!historyVars, WorkIsOnOld, IsOver
<1> QED
  BY <1>1, <1>2, <1>4, <1>5, <1>6 DEF Files!Next, Files!Serve

(* Rows, files and what readers find.                                       *)

\* Every step keeps rows and files in agreement: an upload has its file while
\* it may commit, and a removal deletes the file of no row.
LEMMA FilesStep ==
    ASSUME FilesInv, [Files!Next]_(Files!vars)
    PROVE  Files!FilesAgree'
PROOF
<1> USE DEF Files!FilesAgree, Files!RowHasFile, Files!OrphanOnlyByCut,
            Files!BrokenOnlyByRemoval
<1>1. ASSUME NEW s \in Sources, Files!Upload(s) PROVE Files!FilesAgree'
  BY <1>1
     DEF Files!Upload, Files!SaveFile, Files!SaveRaises, Files!AfterSave,
         Files!AddRow, Files!AddRowRaises, Files!UndoSave, Files!CutUpload,
         Files!Advance, Files!RemoveFile, Files!TypeOK, WorkIsOnOld, IsOver,
         FilesInv, Files!requestVars, Files!historyVars
<1>2. ASSUME NEW r \in FileRequests, NEW s \in Sources,
             Files!SelectRow(r, s) \/ Files!GetRow(r, s)
      PROVE  Files!FilesAgree'
  BY <1>2
     DEF Files!SelectRow, Files!GetRow, Files!Take, Files!LeaveFile,
         Files!TypeOK, FilesInv, Files!historyVars
<1>3. ASSUME NEW r \in FileRequests, Files!DeleteRow(r) PROVE Files!FilesAgree'
  BY <1>3 DEF Files!DeleteRow, Files!TypeOK, FilesInv
<1>4. ASSUME NEW r \in FileRequests, Files!Unlink(r) PROVE Files!FilesAgree'
  BY <1>4
     DEF Files!Unlink, Files!End, Files!RemoveFile, Files!TypeOK, WorkIsOnOld,
         FilesInv, Files!historyVars
<1>5. ASSUME NEW r \in FileRequests, Files!CutDelete(r) PROVE Files!FilesAgree'
  BY <1>5 DEF Files!CutDelete, Files!End, Files!TypeOK, FilesInv
<1>6. ASSUME NEW r \in FileRequests, Files!ServeFile(r) PROVE Files!FilesAgree'
  BY <1>6 DEF Files!ServeFile, Files!End, Files!TypeOK, WorkIsOnOld, FilesInv
<1>7. ASSUME UNCHANGED Files!vars PROVE Files!FilesAgree'
  BY <1>7 DEF Files!vars, Files!requestVars, Files!historyVars, FilesInv
<1> QED
  BY <1>1, <1>2, <1>3, <1>4, <1>5, <1>6, <1>7 DEF Files!Next, Files!Serve

\* The invariant of the files holds from the start and in every step.
LEMMA FilesInvariant ==
    Files!ConstantsOK /\ Files!Spec => []FilesInv
PROOF
<1>1. Files!ConstantsOK /\ Files!Init => FilesInv
  BY DEF Files!Init, FilesInv, Files!TypeOK, WorkIsOnOld, IsOver,
         Files!FilesAgree, Files!RowHasFile, Files!OrphanOnlyByCut,
         Files!BrokenOnlyByRemoval, Files!ConstantsOK
<1>2. FilesInv /\ [Files!Next]_(Files!vars) => FilesInv'
  BY FilesTypeStep, FilesWorkStep, FilesStep DEF FilesInv, Files!ConstantsOK
<1> QED
  BY <1>1, <1>2, PTL DEF Files!Spec

-----------------------------------------------------------------------------
(* The settings of the panel: AdminSettings.                                *)

Holding == {"read", "loadedConfiguration"}

\* A save has a form from its start and, between its read and its end, a
\* configuration to write; the row is never deleted; and a save that overlaps
\* no other runs alone from its start on.
FormsAreKnown ==
    /\ \A s \in Saves : aPc[s] # "new" => aForm[s] \in Settings!Forms
    /\ \A s \in Saves : aPc[s] \in Holding =>
        aCurrent[s] \in Settings!Configurations
    /\ \A s \in Saves : aLoaded[s] # None => aConfiguration # None
    /\ aLatest \notin aOverlapped => Settings!Running \subseteq {aLatest}

\* What the latest save has done by each of its steps, if it overlaps no other.
LatestIsStored ==
    \A s \in Saves \ aOverlapped : aLatest = s =>
        /\ aPc[s] = "loadedProfile" => aBase[s] = aProfile
        /\ aPc[s] \in Holding \union {"savedProfile", "saved"} =>
            aProfile = aForm[s].text
        /\ aPc[s] \in Holding =>
            /\ aCurrent[s].model = aForm[s].text
            /\ Settings!Gives(s) => aCurrent[s].key = s
        /\ aPc[s] = "loadedConfiguration" => aLoaded[s] = aConfiguration
        /\ aPc[s] = "saved" =>
            /\ aConfiguration.model = aForm[s].text
            /\ Settings!Gives(s) => aConfiguration.key = s

\* The key a save will write is its own or, while no saves have overlapped,
\* the one stored, which is the last one given.
KeyIsGiven ==
    aOverlapped = {} =>
        /\ aGiven = IF aConfiguration = None THEN NoKey ELSE aConfiguration.key
        /\ \A s \in Saves : aPc[s] \in Holding =>
            aCurrent[s].key = IF Settings!Gives(s) THEN s ELSE aGiven

KnownKeys == {NoKey} \union {s \in Saves : aPc[s] # "new" /\ Settings!Gives(s)}

\* Saves have overlapped and two of their keys end alike.
Collision ==
    /\ aOverlapped # {}
    /\ \E s, t \in Saves :
        /\ s # t
        /\ aPc[s] # "new" /\ Settings!Gives(s)
        /\ aPc[t] # "new" /\ Settings!Gives(t)
        /\ aForm[s].hint = aForm[t].hint

Matches(row) == row.hint = Settings!HintOf(row.key)

\* Every key that is stored or held was given by a form; and until there is a
\* collision every hint stored or held is that of the key beside it.
HintsMatch ==
    /\ aConfiguration # None => aConfiguration.key \in KnownKeys
    /\ \A s \in Saves : aPc[s] \in Holding => aCurrent[s].key \in KnownKeys
    /\ \A s \in Saves : aLoaded[s] # None => aLoaded[s].key \in KnownKeys
    /\ \/ Collision
       \/ /\ aConfiguration # None => Matches(aConfiguration)
          /\ \A s \in Saves : aPc[s] \in Holding => Matches(aCurrent[s])
          /\ \A s \in Saves : aLoaded[s] # None => Matches(aLoaded[s])

SettingsInv ==
    /\ Settings!ConstantsOK
    /\ Settings!TypeOK
    /\ FormsAreKnown
    /\ LatestIsStored
    /\ KeyIsGiven
    /\ HintsMatch

(* The steps.                                                               *)

\* What a step of s leaves to the others, and what the last transaction holds.
LEMMA UpdateFacts ==
    ASSUME Settings!ConstantsOK, Settings!TypeOK, FormsAreKnown,
           NEW s \in Saves, Settings!Update(s)
    PROVE  /\ aConfiguration \in Settings!Configurations
           /\ aCurrent[s] \in Settings!Configurations
           /\ aLoaded[s] \in Settings!Configurations
           /\ aConfiguration' \in Settings!Configurations
           /\ aConfiguration' # None
           /\ aConfiguration'.model =
                Settings!Column(aConfiguration.model, aCurrent[s].model,
                    aLoaded[s].model)
           /\ aConfiguration'.key =
                Settings!Column(aConfiguration.key, aCurrent[s].key,
                    aLoaded[s].key)
           /\ aConfiguration'.hint =
                Settings!Column(aConfiguration.hint, aCurrent[s].hint,
                    aLoaded[s].hint)
PROOF
<1>1. /\ aLoaded[s] # None
      /\ aConfiguration' = Settings!Written(aConfiguration, aCurrent[s],
          aLoaded[s])
  BY DEF Settings!Update
<1>2. aConfiguration \in Settings!Configurations
      /\ aLoaded[s] \in Settings!Configurations
  BY <1>1 DEF Settings!TypeOK, FormsAreKnown
<1>3. aCurrent[s] \in Settings!Configurations
  BY DEF Settings!Update, FormsAreKnown, Holding
<1>4. DOMAIN aConfiguration = {"model", "key", "hint"}
  BY <1>2 DEF Settings!Configurations
<1>5. /\ aConfiguration'.model =
            Settings!Column(aConfiguration.model, aCurrent[s].model,
                aLoaded[s].model)
      /\ aConfiguration'.key =
            Settings!Column(aConfiguration.key, aCurrent[s].key, aLoaded[s].key)
      /\ aConfiguration'.hint =
            Settings!Column(aConfiguration.hint, aCurrent[s].hint,
                aLoaded[s].hint)
  BY <1>1, <1>4 DEF Settings!Written
<1>6. aConfiguration' \in Settings!Configurations
  <2> DEFINE m == Settings!Column(aConfiguration.model, aCurrent[s].model,
          aLoaded[s].model)
             k == Settings!Column(aConfiguration.key, aCurrent[s].key,
                 aLoaded[s].key)
             h == Settings!Column(aConfiguration.hint, aCurrent[s].hint,
                 aLoaded[s].hint)
  <2>1. m \in Texts /\ k \in Saves \union {NoKey} /\ h \in Hints \union {NoKey}
    BY <1>2, <1>3 DEF Settings!Column, Settings!Configurations
  <2>2. aConfiguration' = [model |-> m, key |-> k, hint |-> h]
    BY <1>1, <1>4 DEF Settings!Written
  <2> HIDE DEF m, k, h
  <2> QED
    BY <2>1, <2>2 DEF Settings!Configurations
<1> QED
  BY <1>2, <1>3, <1>5, <1>6 DEF Settings!ConstantsOK

\* Every step keeps the types and what is known of forms.
LEMMA SettingsTypeStep ==
    ASSUME Settings!ConstantsOK, Settings!TypeOK, FormsAreKnown,
           [Settings!Next]_(Settings!vars)
    PROVE  Settings!TypeOK' /\ FormsAreKnown'
PROOF
<1> USE DEF Settings!TypeOK, FormsAreKnown, Holding, Settings!Goto,
            Settings!Steps, Settings!Ended, Settings!Running
<1>1. ASSUME NEW s \in Saves, NEW asked \in Settings!Forms,
             Settings!Start(s, asked)
      PROVE  Settings!TypeOK' /\ FormsAreKnown'
  BY <1>1 DEF Settings!Start, Settings!rows
<1>2. ASSUME NEW s \in Saves,
             Settings!LoadProfile(s) \/ Settings!CommitProfile(s)
      PROVE  Settings!TypeOK' /\ FormsAreKnown'
  <2>1. aForm[s] \in Settings!Forms /\ aProfile \in Texts
    BY <1>2 DEF Settings!LoadProfile, Settings!CommitProfile
  <2> QED
    BY <1>2, <2>1
       DEF Settings!LoadProfile, Settings!CommitProfile, Settings!Column,
           Settings!Wanted, Settings!rows, Settings!history, Settings!Forms
<1>3. ASSUME NEW s \in Saves, Settings!ReadConfiguration(s)
      PROVE  Settings!TypeOK' /\ FormsAreKnown'
  <2> DEFINE kept == Settings!Kept(aConfiguration)
             pair == IF Settings!Gives(s) THEN Settings!Encrypted(s,
                 kept) ELSE kept
             c == [model |-> aForm[s].text, key |-> pair.key,
                 hint |-> pair.hint]
  <2>1. aForm[s] \in Settings!Forms
    BY <1>3 DEF Settings!ReadConfiguration
  <2>2. c \in Settings!Configurations
    BY <2>1
       DEF Settings!Kept, Settings!Encrypted, Settings!Gives, Settings!Forms,
           Settings!Configurations
  <2>3. aCurrent' = [aCurrent EXCEPT ![s] = c]
        /\ aPc' = [aPc EXCEPT ![s] = "read"]
    BY <1>3 DEF Settings!ReadConfiguration
  <2> HIDE DEF c
  <2> QED
    BY <1>3, <2>2, <2>3
       DEF Settings!ReadConfiguration, Settings!rows, Settings!history
<1>4. ASSUME NEW s \in Saves, Settings!LoadConfiguration(s)
      PROVE  Settings!TypeOK' /\ FormsAreKnown'
  BY <1>4 DEF Settings!LoadConfiguration, Settings!rows, Settings!history
<1>5. ASSUME NEW s \in Saves, Settings!Answer(s),
             aConfiguration' \in Settings!Configurations,
             aPc[s] = "loadedConfiguration"
      PROVE  Settings!TypeOK' /\ FormsAreKnown'
  BY <1>5 DEF Settings!Answer, Settings!End, Settings!ConstantsOK
<1>6. ASSUME NEW s \in Saves, Settings!Insert(s)
      PROVE  Settings!TypeOK' /\ FormsAreKnown'
  BY <1>5, <1>6 DEF Settings!Insert
<1>7. ASSUME NEW s \in Saves, Settings!Update(s)
      PROVE  Settings!TypeOK' /\ FormsAreKnown'
  BY <1>5, <1>7, UpdateFacts DEF Settings!Update
<1>8. ASSUME NEW s \in Saves, Settings!Fail(s)
      PROVE  Settings!TypeOK' /\ FormsAreKnown'
  BY <1>8 DEF Settings!Fail, Settings!End
<1>9. ASSUME UNCHANGED Settings!vars PROVE Settings!TypeOK' /\ FormsAreKnown'
  BY <1>9 DEF Settings!vars, Settings!rows, Settings!locals, Settings!history
<1> QED
  BY <1>1, <1>2, <1>3, <1>4, <1>6, <1>7, <1>8, <1>9
     DEF Settings!Next, Settings!Save

\* Every step keeps what the latest save has done.
LEMMA LatestStep ==
    ASSUME Settings!ConstantsOK, Settings!TypeOK, FormsAreKnown, LatestIsStored,
           [Settings!Next]_(Settings!vars)
    PROVE  LatestIsStored'
PROOF
<1> USE DEF Settings!TypeOK, FormsAreKnown, LatestIsStored, Holding,
            Settings!Goto, Settings!Running, Settings!Gives, Settings!Ended
<1>1. ASSUME NEW s \in Saves, NEW asked \in Settings!Forms,
             Settings!Start(s, asked)
      PROVE  LatestIsStored'
  BY <1>1 DEF Settings!Start, Settings!rows
<1>2. ASSUME NEW s \in Saves, Settings!LoadProfile(s) PROVE LatestIsStored'
  BY <1>2 DEF Settings!LoadProfile, Settings!rows, Settings!history
<1>3. ASSUME NEW s \in Saves, Settings!CommitProfile(s) PROVE LatestIsStored'
  BY <1>3
     DEF Settings!CommitProfile, Settings!Column, Settings!Wanted,
         Settings!history
<1>4. ASSUME NEW s \in Saves, Settings!ReadConfiguration(s)
      PROVE  LatestIsStored'
  <2>1. /\ aCurrent'[s].model = aForm[s].text
        /\ Settings!Gives(s) => aCurrent'[s].key = s
    BY <1>4 DEF Settings!ReadConfiguration, Settings!Encrypted
  <2> QED
    BY <1>4, <2>1
       DEF Settings!ReadConfiguration, Settings!rows, Settings!history
<1>5. ASSUME NEW s \in Saves, Settings!LoadConfiguration(s)
      PROVE  LatestIsStored'
  BY <1>5 DEF Settings!LoadConfiguration, Settings!rows, Settings!history
<1>6. ASSUME NEW s \in Saves, Settings!Answer(s),
             aPc[s] = "loadedConfiguration",
             aLatest = s /\ s \notin aOverlapped =>
                /\ aConfiguration'.model = aCurrent[s].model
                /\ aConfiguration'.key = aCurrent[s].key
      PROVE  LatestIsStored'
  BY <1>6 DEF Settings!Answer, Settings!End
<1>7. ASSUME NEW s \in Saves, Settings!Insert(s) PROVE LatestIsStored'
  BY <1>6, <1>7 DEF Settings!Insert
<1>8. ASSUME NEW s \in Saves, Settings!Update(s) PROVE LatestIsStored'
  <2>1. aLatest = s /\ s \notin aOverlapped => aLoaded[s] = aConfiguration
    BY <1>8 DEF Settings!Update
  <2> QED
    BY <1>6, <1>8, <2>1, UpdateFacts DEF Settings!Update, Settings!Column
<1>9. ASSUME NEW s \in Saves, Settings!Fail(s) PROVE LatestIsStored'
  BY <1>9 DEF Settings!Fail, Settings!End
<1>10. ASSUME UNCHANGED Settings!vars PROVE LatestIsStored'
  BY <1>10 DEF Settings!vars, Settings!rows, Settings!locals, Settings!history
<1> QED
  BY <1>1, <1>2, <1>3, <1>4, <1>5, <1>7, <1>8, <1>9, <1>10
     DEF Settings!Next, Settings!Save

\* Every step keeps what is known of the last key given.
LEMMA KeyStep ==
    ASSUME Settings!ConstantsOK, Settings!TypeOK, FormsAreKnown, LatestIsStored,
           KeyIsGiven,
           [Settings!Next]_(Settings!vars)
    PROVE  KeyIsGiven'
PROOF
<1> USE DEF Settings!TypeOK, FormsAreKnown, KeyIsGiven, Holding, Settings!Goto,
            Settings!Running, Settings!Gives, Settings!Ended
<1>1. ASSUME NEW s \in Saves, NEW asked \in Settings!Forms,
             Settings!Start(s, asked)
      PROVE  KeyIsGiven'
  BY <1>1 DEF Settings!Start, Settings!rows
<1>2. ASSUME NEW s \in Saves,
             Settings!LoadProfile(s) \/ Settings!CommitProfile(s)
      PROVE  KeyIsGiven'
  BY <1>2
     DEF Settings!LoadProfile, Settings!CommitProfile, Settings!rows,
         Settings!history
<1>3. ASSUME NEW s \in Saves, Settings!ReadConfiguration(s) PROVE KeyIsGiven'
  <2>1. aOverlapped = {} =>
            aCurrent'[s].key = IF Settings!Gives(s) THEN s ELSE aGiven
    BY <1>3 DEF Settings!ReadConfiguration, Settings!Encrypted, Settings!Kept
  <2> QED
    BY <1>3, <2>1
       DEF Settings!ReadConfiguration, Settings!rows, Settings!history
<1>4. ASSUME NEW s \in Saves, Settings!LoadConfiguration(s) PROVE KeyIsGiven'
  BY <1>4 DEF Settings!LoadConfiguration, Settings!rows, Settings!history
<1>5. ASSUME NEW s \in Saves, Settings!Answer(s),
             aPc[s] = "loadedConfiguration",
             aConfiguration' # None,
             aOverlapped = {} => aConfiguration'.key = aCurrent[s].key
      PROVE  KeyIsGiven'
  <2>1. ASSUME aOverlapped = {}, NEW z \in Saves PROVE aPc'[z] \notin Holding
    BY <1>5, <2>1 DEF Settings!Answer, Settings!End
  <2> QED
    BY <1>5, <2>1 DEF Settings!Answer, Settings!End
<1>6. ASSUME NEW s \in Saves, Settings!Insert(s) PROVE KeyIsGiven'
  BY <1>5, <1>6 DEF Settings!Insert, Settings!ConstantsOK
<1>7. ASSUME NEW s \in Saves, Settings!Update(s) PROVE KeyIsGiven'
  <2>1. aOverlapped = {} => aLoaded[s] = aConfiguration
    BY <1>7 DEF Settings!Update, LatestIsStored
  <2> QED
    BY <1>5, <1>7, <2>1, UpdateFacts DEF Settings!Update, Settings!Column
<1>8. ASSUME NEW s \in Saves, Settings!Fail(s) PROVE KeyIsGiven'
  BY <1>8 DEF Settings!Fail, Settings!End
<1>9. ASSUME UNCHANGED Settings!vars PROVE KeyIsGiven'
  BY <1>9 DEF Settings!vars, Settings!rows, Settings!locals, Settings!history
<1> QED
  BY <1>1, <1>2, <1>3, <1>4, <1>6, <1>7, <1>8, <1>9
     DEF Settings!Next, Settings!Save

\* A key that was given keeps its hint, and a collision lasts.
LEMMA KnownStep ==
    ASSUME Settings!TypeOK, [Settings!Next]_(Settings!vars)
    PROVE  /\ \A k \in KnownKeys : k \in KnownKeys'
                /\ Settings!HintOf(k)' = Settings!HintOf(k)
           /\ Collision => Collision'
PROOF
<1> DEFINE Lasts ==
        /\ aOverlapped \subseteq aOverlapped'
        /\ \A s \in Saves : aPc[s] # "new" =>
            aPc'[s] # "new" /\ aForm'[s] = aForm[s]
<1>1. Lasts
  <2> USE DEF Settings!TypeOK, Settings!Goto
  <2>1. ASSUME NEW s \in Saves, NEW asked \in Settings!Forms,
               Settings!Start(s, asked) PROVE Lasts
    BY <2>1 DEF Settings!Start, Settings!rows
  <2>2. ASSUME NEW s \in Saves,
               Settings!LoadProfile(s) \/ Settings!CommitProfile(s) PROVE Lasts
    BY <2>2
       DEF Settings!LoadProfile, Settings!CommitProfile, Settings!rows,
           Settings!history
  <2>3. ASSUME NEW s \in Saves,
               Settings!ReadConfiguration(s) \/ Settings!LoadConfiguration(s)
        PROVE  Lasts
    BY <2>3
       DEF Settings!ReadConfiguration, Settings!LoadConfiguration,
           Settings!rows, Settings!history
  <2>4. ASSUME NEW s \in Saves,
               Settings!Insert(s) \/ Settings!Update(s)
                   \/ Settings!Fail(s) PROVE Lasts
    BY <2>4
       DEF Settings!Insert, Settings!Update, Settings!Answer, Settings!Fail,
           Settings!End, Settings!Ended
  <2>5. ASSUME UNCHANGED Settings!vars PROVE Lasts
    BY <2>5 DEF Settings!vars, Settings!locals, Settings!history
  <2> QED
    BY <2>1, <2>2, <2>3, <2>4, <2>5 DEF Settings!Next, Settings!Save
<1>2. \A k \in KnownKeys : k \in KnownKeys'
      /\ Settings!HintOf(k)' = Settings!HintOf(k)
  BY <1>1 DEF KnownKeys, Settings!HintOf, Settings!Gives
<1>3. Collision => Collision'
  BY <1>1 DEF Collision, Settings!Gives
<1> QED
  BY <1>2, <1>3

\* Without a collision no two keys that were given have the same hint, unless
\* no saves have overlapped.
LEMMA HintsAreDistinct ==
    ASSUME Settings!ConstantsOK, Settings!TypeOK, FormsAreKnown, ~Collision,
           aOverlapped # {},
           NEW j \in KnownKeys, NEW k \in KnownKeys
    PROVE  Settings!HintOf(j) = Settings!HintOf(k) <=> j = k
PROOF
  BY DEF Collision, KnownKeys, Settings!HintOf, Settings!Gives, Settings!Forms,
         FormsAreKnown, Settings!ConstantsOK

\* The columns of key and hint are written both or neither.
LEMMA UpdateMatches ==
    ASSUME Settings!ConstantsOK, Settings!TypeOK, FormsAreKnown, LatestIsStored,
           HintsMatch,
           NEW s \in Saves, Settings!Update(s)
    PROVE  /\ aConfiguration'.key \in KnownKeys
           /\ Collision \/ aConfiguration'.hint =
               Settings!HintOf(aConfiguration'.key)
PROOF
<1>1. /\ aPc[s] = "loadedConfiguration" /\ aLoaded[s] # None
      /\ aConfiguration # None
  BY DEF Settings!Update, FormsAreKnown
<1>2. /\ aConfiguration.key \in KnownKeys
      /\ aCurrent[s].key \in KnownKeys
      /\ aLoaded[s].key \in KnownKeys
  BY <1>1 DEF HintsMatch, Holding
<1>3. aConfiguration'.key \in KnownKeys
  BY <1>2, UpdateFacts DEF Settings!Column
<1>4. CASE ~Collision
  <2>1. /\ aConfiguration.hint = Settings!HintOf(aConfiguration.key)
        /\ aCurrent[s].hint = Settings!HintOf(aCurrent[s].key)
        /\ aLoaded[s].hint = Settings!HintOf(aLoaded[s].key)
    BY <1>1, <1>4 DEF HintsMatch, Holding, Matches
  <2>2. CASE aOverlapped = {}
    <3>1. aLoaded[s] = aConfiguration
      BY <1>1, <2>2
         DEF LatestIsStored, FormsAreKnown, Settings!Running, Settings!Ended
    <3> QED
      BY <1>3, <2>1, <3>1, UpdateFacts DEF Settings!Column
  <2>3. CASE aOverlapped # {}
    <3>1. aCurrent[s].hint = aLoaded[s].hint <=> aCurrent[s].key =
              aLoaded[s].key
      BY <1>2, <1>4, <2>1, <2>3, HintsAreDistinct
    <3> QED
      BY <1>3, <2>1, <3>1, UpdateFacts DEF Settings!Column
  <2> QED
    BY <2>2, <2>3
<1> QED
  BY <1>3, <1>4

\* Every step keeps hints beside their keys until there is a collision.
LEMMA HintStep ==
    ASSUME Settings!ConstantsOK, Settings!TypeOK, FormsAreKnown, LatestIsStored,
           HintsMatch,
           [Settings!Next]_(Settings!vars)
    PROVE  HintsMatch'
PROOF
<1>1. \A k \in KnownKeys : k \in KnownKeys'
      /\ Settings!HintOf(k)' = Settings!HintOf(k)
  BY KnownStep
<1>2. Collision => Collision'
  BY KnownStep
<1> DEFINE HintNow(k) == IF k = NoKey THEN NoKey ELSE aForm'[k].hint
           Fits(row) == /\ row.key \in KnownKeys
                        /\ Collision \/ row.hint = Settings!HintOf(row.key)
           FitsNow(row) == /\ row.key \in KnownKeys'
                           /\ Collision' \/ row.hint = HintNow(row.key)
<1>3. /\ aConfiguration # None => Fits(aConfiguration)
      /\ \A s \in Saves : aPc[s] \in Holding => Fits(aCurrent[s])
      /\ \A s \in Saves : aLoaded[s] # None => Fits(aLoaded[s])
  BY DEF HintsMatch, Matches
<1>4. \A row : Fits(row) => FitsNow(row)
  BY <1>1, <1>2 DEF Settings!HintOf
<1> DEFINE AllFit ==
        /\ aConfiguration' # None => FitsNow(aConfiguration')
        /\ \A s \in Saves : aPc'[s] \in Holding => FitsNow(aCurrent'[s])
        /\ \A s \in Saves : aLoaded'[s] # None => FitsNow(aLoaded'[s])
<1>5. SUFFICES AllFit
  BY DEF HintsMatch, Matches, Holding, Settings!HintOf
<1>6. ASSUME NEW s \in Saves, Settings!ReadConfiguration(s)
      PROVE  FitsNow(aCurrent'[s])
  <2>1. Settings!Gives(s) => /\ aCurrent'[s].key = s
                             /\ aCurrent'[s].hint = Settings!HintOf(s)
    BY <1>6
       DEF Settings!ReadConfiguration, Settings!Encrypted, Settings!HintOf,
           Settings!ConstantsOK, Settings!TypeOK
  <2>2. ~Settings!Gives(s) => /\ aCurrent'[s].key = Settings!Kept(aConfiguration).key
                              /\ aCurrent'[s].hint =
                                  Settings!Kept(aConfiguration).hint
    BY <1>6 DEF Settings!ReadConfiguration, Settings!TypeOK
  <2>3. Settings!Gives(s) => s \in KnownKeys
    BY <1>6 DEF Settings!ReadConfiguration, KnownKeys
  <2>4. aConfiguration = None => /\ Settings!Kept(aConfiguration).key \in KnownKeys
                                 /\ Settings!Kept(aConfiguration).hint =
                                     Settings!HintOf(NoKey)
                                 /\ Settings!Kept(aConfiguration).key = NoKey
    BY DEF Settings!Kept, KnownKeys, Settings!HintOf
  <2>5. aConfiguration # None => /\ Settings!Kept(aConfiguration).key = aConfiguration.key
                                 /\ Settings!Kept(aConfiguration).hint =
                                     aConfiguration.hint
    BY DEF Settings!Kept
  <2>6. Fits(aCurrent'[s])
    BY <1>3, <2>1, <2>2, <2>3, <2>4, <2>5
  <2> QED
    BY <1>4, <2>6
<1>7. ASSUME NEW s \in Saves, Settings!Update(s) PROVE FitsNow(aConfiguration')
  <2>1. Fits(aConfiguration')
    BY <1>7, UpdateMatches
  <2> QED
    BY <1>4, <2>1
<1> HIDE DEF Fits, FitsNow
<1> USE DEF Settings!TypeOK, Holding, Settings!Goto, Settings!Ended
<1>8. ASSUME NEW s \in Saves, NEW asked \in Settings!Forms,
             Settings!Start(s, asked) PROVE AllFit
  BY <1>3, <1>4, <1>8 DEF Settings!Start, Settings!rows
<1>9. ASSUME NEW s \in Saves,
             Settings!LoadProfile(s) \/ Settings!CommitProfile(s) PROVE AllFit
  BY <1>3, <1>4, <1>9
     DEF Settings!LoadProfile, Settings!CommitProfile, Settings!rows,
         Settings!history
<1>10. ASSUME NEW s \in Saves, Settings!ReadConfiguration(s) PROVE AllFit
  BY <1>3, <1>4, <1>6, <1>10
     DEF Settings!ReadConfiguration, Settings!rows, Settings!history
<1>11. ASSUME NEW s \in Saves, Settings!LoadConfiguration(s) PROVE AllFit
  BY <1>3, <1>4, <1>11
     DEF Settings!LoadConfiguration, Settings!rows, Settings!history
<1>12. ASSUME NEW s \in Saves, Settings!Insert(s) PROVE AllFit
  BY <1>3, <1>4, <1>12 DEF Settings!Insert, Settings!Answer, Settings!End
<1>13. ASSUME NEW s \in Saves, Settings!Update(s) PROVE AllFit
  BY <1>3, <1>4, <1>7, <1>13 DEF Settings!Update, Settings!Answer, Settings!End
<1>14. ASSUME NEW s \in Saves, Settings!Fail(s) PROVE AllFit
  BY <1>3, <1>4, <1>14 DEF Settings!Fail, Settings!End
<1>15. ASSUME UNCHANGED Settings!vars PROVE AllFit
  BY <1>3, <1>4, <1>15
     DEF Settings!vars, Settings!rows, Settings!locals, Settings!history
<1> QED
  BY <1>8, <1>9, <1>10, <1>11, <1>12, <1>13, <1>14, <1>15
     DEF Settings!Next, Settings!Save

\* So does that of the settings.
LEMMA SettingsInvariant ==
    Settings!ConstantsOK /\ Settings!Spec => []SettingsInv
PROOF
<1>1. Settings!ConstantsOK /\ Settings!Init => SettingsInv
  BY DEF Settings!Init, Settings!ConstantsOK, SettingsInv, Settings!TypeOK,
         FormsAreKnown, LatestIsStored, KeyIsGiven, HintsMatch, Holding,
         Settings!Running, Settings!Steps
<1>2. SettingsInv /\ [Settings!Next]_(Settings!vars) => SettingsInv'
  BY SettingsTypeStep, LatestStep, KeyStep, HintStep
  DEF SettingsInv, Settings!ConstantsOK, Settings!Configurations
<1> QED
  BY <1>1, <1>2, PTL DEF Settings!Spec

\* What the invariant is for.
LEMMA SettingsImplied ==
    SettingsInv =>
        /\ Settings!SavedIsStored
        /\ Settings!KeyLostOnlyByOverlap
        /\ Settings!HintIsOfKey
PROOF
  BY DEF SettingsInv, LatestIsStored, KeyIsGiven, HintsMatch, Matches,
         Collision, Settings!SavedIsStored, Settings!KeyLostOnlyByOverlap,
         Settings!HintIsOfKey

-----------------------------------------------------------------------------
(* The sessions of the panel: PanelSessions.                                *)

\* A request carries the cookie of an open session; what a logout has deleted
\* was open and never comes back; and the row of an open session is there until
\* it has expired or was deleted, whatever other logins purge.
RowsAreOpen ==
    /\ \A r \in SessionRequests : sToken[r] # NoSession =>
        sLogin[sToken[r]] = "open"
    /\ \A s \in sSignedOut : sLogin[s] = "open" /\ s \notin sRows
    /\ \A s \in Sessions : sLogin[s] = "open" =>
        s \in sRows \/ s \in sSignedOut \/ sExpires[s] <= sNow
    /\ \A s \in Sessions : sLogin[s] = "verified" =>
        sExpires[s] - TTL \in 0..sNow

SessionsInv == Logins!ConstantsOK /\ Logins!TypeOK /\ RowsAreOpen

\* A request that is not idle carries a session.
LEMMA TokenIsSession ==
    ASSUME SessionsInv, NEW r \in SessionRequests, sPc[r] # "idle"
    PROVE  sToken[r] \in Sessions /\ sLogin[sToken[r]] = "open"
PROOF
  BY DEF SessionsInv, Logins!TypeOK, RowsAreOpen

\* Logins and the clock keep the invariant: a purge takes rows that have
\* expired by a time that has passed.
LEMMA LoginStep ==
    ASSUME SessionsInv,
           Logins!Tick \/ (\E s \in Sessions : Logins!Verify(s)
               \/ Logins!Create(s) \/ Logins!CreateFails(s))
    PROVE  SessionsInv'
PROOF
<1> USE DEF SessionsInv, Logins!ConstantsOK
<1>1. CASE Logins!Tick
  BY <1>1
     DEF Logins!Tick, Logins!TypeOK, RowsAreOpen, Logins!logins,
         Logins!requests, Logins!history
<1>2. ASSUME NEW s \in Sessions, Logins!Verify(s) PROVE SessionsInv'
  BY <1>2
     DEF Logins!Verify, Logins!TypeOK, RowsAreOpen, Logins!requests,
         Logins!history
<1>3. ASSUME NEW s \in Sessions, Logins!Create(s) PROVE SessionsInv'
  <2>1. PICK time \in (sExpires[s] - TTL)..sNow :
            sRows' = (sRows \ Logins!Expired(time)) \union {s}
    BY <1>3 DEF Logins!Create
  <2>2. PICK outcome \in {"open", "failed"} :
            sLogin' = [sLogin EXCEPT ![s] = outcome]
    BY <1>3 DEF Logins!Create
  <2>3. sLogin[s] = "verified"
        /\ UNCHANGED <<sNow, sExpires, Logins!requests, Logins!history>>
    BY <1>3 DEF Logins!Create
  <2>4. Logins!ConstantsOK /\ sExpires \in [Sessions -> Nat] /\ sNow \in Nat
    BY DEF Logins!TypeOK
  <2>5. Logins!TypeOK'
    BY <2>1, <2>2, <2>3
       DEF Logins!TypeOK, Logins!Expired, Logins!requests, Logins!history
  <2>6. ASSUME NEW z \in Sessions, z \in sRows, z \notin sRows'
        PROVE  sExpires[z] <= sNow
    BY <2>1, <2>4, <2>6 DEF Logins!Expired, Logins!TypeOK
  <2>7. RowsAreOpen'
    BY <2>1, <2>2, <2>3, <2>4, <2>6
       DEF Logins!TypeOK, RowsAreOpen, Logins!Expired, Logins!requests,
           Logins!history
  <2> QED
    BY <2>5, <2>7
<1>4. ASSUME NEW s \in Sessions, Logins!CreateFails(s) PROVE SessionsInv'
  BY <1>4
     DEF Logins!CreateFails, Logins!TypeOK, RowsAreOpen, Logins!requests,
         Logins!history
<1> QED
  BY <1>1, <1>2, <1>3, <1>4

\* Requests keep it too.
LEMMA RequestStep ==
    ASSUME SessionsInv, NEW r \in SessionRequests,
           \/ \E s \in Sessions : Logins!Send(r, s)
           \/ Logins!Authorise(r) \/ Logins!Refuse(r) \/ Logins!End(r)
               \/ Logins!DeleteSession(r)
    PROVE  SessionsInv'
PROOF
<1> USE DEF SessionsInv, Logins!ConstantsOK
<1>1. ASSUME NEW s \in Sessions, Logins!Send(r, s) PROVE SessionsInv'
  BY <1>1 DEF Logins!Send, Logins!TypeOK, RowsAreOpen, Logins!logins
<1>2. CASE Logins!Authorise(r) \/ Logins!Refuse(r)
  BY <1>2
     DEF Logins!Authorise, Logins!Refuse, Logins!TypeOK, RowsAreOpen,
         Logins!logins, Logins!history
<1>3. CASE Logins!End(r)
  BY <1>3
     DEF Logins!End, Logins!Leave, Logins!TypeOK, RowsAreOpen, Logins!logins
<1>4. CASE Logins!DeleteSession(r)
  <2>1. sToken[r] \in Sessions /\ sLogin[sToken[r]] = "open"
    BY <1>4, TokenIsSession DEF Logins!DeleteSession
  <2> QED
    BY <1>4, <2>1
       DEF Logins!DeleteSession, Logins!WithoutRow, Logins!TypeOK, RowsAreOpen,
           Logins!logins
<1> QED
  BY <1>1, <1>2, <1>3, <1>4

\* The invariant of the refinement.
LEMMA SessionsInvariant == Logins!ConstantsOK /\ Logins!Spec => []SessionsInv
PROOF
<1>1. Logins!ConstantsOK /\ Logins!Init => SessionsInv
  BY DEF Logins!Init, SessionsInv, Logins!ConstantsOK, Logins!TypeOK,
         RowsAreOpen
<1>2. SessionsInv /\ UNCHANGED Logins!vars => SessionsInv'
  BY DEF Logins!vars, Logins!logins, Logins!requests, Logins!history,
         SessionsInv, Logins!ConstantsOK, Logins!TypeOK, RowsAreOpen
<1>3. SessionsInv /\ [Logins!Next]_(Logins!vars) => SessionsInv'
  BY <1>2, LoginStep, RequestStep DEF Logins!Next
<1> QED
  BY <1>1, <1>3, PTL DEF Logins!Spec

(* The refinement.                                                          *)

\* The clock and the logins only make sessions end.
LEMMA LoginRefines ==
    ASSUME SessionsInv,
           Logins!Tick \/ (\E s \in Sessions : Logins!Verify(s)
               \/ Logins!Create(s) \/ Logins!CreateFails(s))
    PROVE  Logins!Store!Fade
PROOF
<1>1. \A r \in SessionRequests : sPc[r] # "idle" =>
        sToken[r] \in Sessions /\ sLogin[sToken[r]] = "open"
  BY TokenIsSession
<1>2. /\ UNCHANGED <<sPc, sToken, sAsked, sLate, sSignedOut>>
      /\ \A s \in Sessions : sLogin[s] = "open" => sExpires'[s] = sExpires[s]
  BY DEF Logins!Tick, Logins!Verify, Logins!Create, Logins!CreateFails,
         Logins!logins, Logins!requests, Logins!history, SessionsInv,
         Logins!TypeOK
<1>3. Logins!Entitled' = Logins!Entitled
  BY <1>1, <1>2 DEF Logins!Entitled
<1>4. Logins!Answer' = Logins!Answer
  BY <1>2 DEF Logins!Answer
<1>5. Logins!Ended \subseteq Logins!Ended'
  <2>1. CASE Logins!Tick
    BY <1>2, <2>1
       DEF Logins!Tick, Logins!Ended, SessionsInv, Logins!TypeOK, Logins!logins
  <2>2. ASSUME NEW s \in Sessions,
               Logins!Verify(s) \/ Logins!Create(s) \/ Logins!CreateFails(s)
        PROVE  Logins!Ended \subseteq Logins!Ended'
    <3>1. \A z \in Sessions : sLogin[z] # "new" =>
            sLogin'[z] # "new" /\ sExpires'[z] = sExpires[z]
      BY <2>2
         DEF Logins!Verify, Logins!Create, Logins!CreateFails, SessionsInv,
             Logins!TypeOK, Logins!logins
    <3>2. sNow' = sNow
      BY <2>2 DEF Logins!Verify, Logins!Create, Logins!CreateFails
    <3> QED
      BY <1>2, <3>1, <3>2 DEF Logins!Ended
  <2> QED
    BY <2>1, <2>2
<1>6. Logins!Ended' \subseteq Sessions
  BY <1>2 DEF Logins!Ended, SessionsInv, Logins!TypeOK
<1> QED
  BY <1>2, <1>3, <1>4, <1>5, <1>6 DEF Logins!Store!Fade

\* A request asks with the cookie it carries.
LEMMA SendRefines ==
    ASSUME SessionsInv, NEW r \in SessionRequests, NEW s \in Sessions,
           Logins!Send(r, s)
    PROVE  Logins!Store!Ask(r, s)
PROOF
<1>1. r \notin sLate
  BY DEF Logins!Send, SessionsInv, Logins!ConstantsOK, Logins!TypeOK
<1>2. Logins!Ended' = Logins!Ended
  BY DEF Logins!Send, Logins!Ended, Logins!logins
<1>3. s \in Logins!Ended <=> s \in sSignedOut \/ sExpires[s] <= sNow
  BY DEF Logins!Send, Logins!Ended
<1>4. /\ sPc' = [sPc EXCEPT ![r] = "asked"] /\ sPc[r] = "idle"
      /\ sToken' = [sToken EXCEPT ![r] = s]
      /\ sAsked' = [sAsked EXCEPT ![r] = sNow]
      /\ sExpires' = sExpires
      /\ sLate' = IF s \in sSignedOut THEN sLate \union {r} ELSE sLate
  BY DEF Logins!Send, Logins!logins
<1>5. r \in Logins!Entitled' <=> s \notin Logins!Ended
  BY <1>1, <1>3, <1>4 DEF Logins!Entitled, SessionsInv, Logins!TypeOK
<1>6. \A q \in SessionRequests \ {r} : q \in Logins!Entitled' <=> q \in
          Logins!Entitled
  BY <1>4 DEF Logins!Entitled, SessionsInv, Logins!TypeOK
<1>7. r \notin Logins!Entitled
  BY <1>4 DEF Logins!Entitled
<1>8. Logins!Entitled' = IF s \in
          Logins!Ended THEN Logins!Entitled ELSE Logins!Entitled \union {r}
  BY <1>5, <1>6, <1>7 DEF Logins!Entitled
<1>9. Logins!Answer[r] = "none"
      /\ Logins!Answer' = [Logins!Answer EXCEPT ![r] = "asked"]
  BY <1>4 DEF Logins!Answer, SessionsInv, Logins!TypeOK
<1> QED
  BY <1>2, <1>4, <1>8, <1>9 DEF Logins!Store!Ask

\* The lookup finds only sessions that had not ended when the request was
\* sent.
LEMMA AuthoriseRefines ==
    ASSUME SessionsInv, NEW r \in SessionRequests, Logins!Authorise(r)
    PROVE  Logins!Store!Authorise(r)
PROOF
<1>1. sToken[r] \in Sessions
  BY TokenIsSession DEF Logins!Authorise
<1>2. r \in Logins!Entitled
  BY <1>1
     DEF Logins!Authorise, Logins!Valid, Logins!Entitled, SessionsInv,
         Logins!TypeOK, RowsAreOpen
<1>3. UNCHANGED <<Logins!Ended, Logins!Entitled, sToken>>
  BY DEF Logins!Authorise, Logins!Ended, Logins!Entitled, SessionsInv,
         Logins!TypeOK, Logins!logins, Logins!history
<1>4. Logins!Answer[r] = "asked"
      /\ Logins!Answer' = [Logins!Answer EXCEPT ![r] = "authorised"]
  BY DEF Logins!Authorise, Logins!Answer, SessionsInv, Logins!TypeOK
<1> QED
  BY <1>2, <1>3, <1>4 DEF Logins!Store!Authorise

\* It misses only sessions that have ended.
LEMMA RefuseRefines ==
    ASSUME SessionsInv, NEW r \in SessionRequests, Logins!Refuse(r)
    PROVE  Logins!Store!Refuse(r)
PROOF
<1>1. sToken[r] \in Sessions /\ sLogin[sToken[r]] = "open"
  BY TokenIsSession DEF Logins!Refuse
<1>2. sToken[r] \in Logins!Ended
  BY <1>1
     DEF Logins!Refuse, Logins!Valid, Logins!Ended, SessionsInv,
         Logins!ConstantsOK, Logins!TypeOK, RowsAreOpen
<1>3. UNCHANGED <<Logins!Ended, Logins!Entitled, sToken>>
  BY DEF Logins!Refuse, Logins!Ended, Logins!Entitled, SessionsInv,
         Logins!TypeOK, Logins!logins, Logins!history
<1>4. Logins!Answer[r] = "asked"
      /\ Logins!Answer' = [Logins!Answer EXCEPT ![r] = "refused"]
  BY DEF Logins!Refuse, Logins!Answer, SessionsInv, Logins!TypeOK
<1> QED
  BY <1>2, <1>3, <1>4 DEF Logins!Store!Refuse

\* A request that is over leaves nothing behind.
LEMMA EndRefines ==
    ASSUME SessionsInv, NEW r \in SessionRequests, Logins!End(r)
    PROVE  Logins!Store!Leave(r)
PROOF
<1>1. /\ sPc' = [sPc EXCEPT ![r] = "idle"] /\ sPc[r] # "idle"
      /\ sToken' = [sToken EXCEPT ![r] = NoSession]
      /\ sAsked' = [sAsked EXCEPT ![r] = 0]
      /\ sLate' = sLate \ {r}
      /\ UNCHANGED <<sNow, sLogin, sExpires, sSignedOut>>
  BY DEF Logins!End, Logins!Leave, Logins!logins
<1>2. Logins!Entitled' = Logins!Entitled \ {r}
  BY <1>1 DEF Logins!Entitled, SessionsInv, Logins!TypeOK
<1>3. Logins!Answer[r] # "none"
      /\ Logins!Answer' = [Logins!Answer EXCEPT ![r] = "none"]
  BY <1>1 DEF Logins!Answer, SessionsInv, Logins!TypeOK
<1>4. Logins!Ended' = Logins!Ended
  BY <1>1 DEF Logins!Ended
<1> QED
  BY <1>1, <1>2, <1>3, <1>4 DEF Logins!Store!Leave

\* A logout ends the session it was authorised by.
LEMMA DeleteRefines ==
    ASSUME SessionsInv, NEW r \in SessionRequests, Logins!DeleteSession(r)
    PROVE  Logins!Store!Fade
PROOF
<1>1. sToken[r] \in Sessions
  BY TokenIsSession DEF Logins!DeleteSession
<1>2. Logins!Ended \subseteq Logins!Ended' /\ Logins!Ended' \subseteq Sessions
  BY <1>1
     DEF Logins!DeleteSession, Logins!Ended, SessionsInv, Logins!TypeOK,
         Logins!logins
<1>3. UNCHANGED <<Logins!Entitled, Logins!Answer, sToken>>
  BY DEF Logins!DeleteSession, Logins!Entitled, Logins!Answer, SessionsInv,
         Logins!TypeOK, Logins!logins
<1> QED
  BY <1>2, <1>3 DEF Logins!Store!Fade

\* Every step is one of the store or leaves it alone.
LEMMA LoginsImplementStore ==
    Logins!ConstantsOK /\ Logins!Spec => Logins!ImplementsSessionStore
PROOF
<1>1. Logins!ConstantsOK /\ Logins!Init => Logins!Store!Init
  BY DEF Logins!Init, Logins!Store!Init, Logins!Ended, Logins!Entitled,
         Logins!Answer
<1>2. SessionsInv /\ UNCHANGED Logins!vars => UNCHANGED Logins!Store!vars
  BY DEF Logins!vars, Logins!Store!vars, Logins!logins, Logins!requests,
         Logins!history, Logins!Ended, Logins!Entitled, Logins!Answer
<1>3. SessionsInv /\ Logins!Next => Logins!Store!Next
  <2> SUFFICES ASSUME SessionsInv, Logins!Next PROVE Logins!Store!Next
    OBVIOUS
  <2>1. CASE Logins!Tick \/ (\E s \in Sessions : Logins!Verify(s)
        \/ Logins!Create(s) \/ Logins!CreateFails(s))
    BY <2>1, LoginRefines DEF Logins!Store!Next
  <2>2. ASSUME NEW r \in SessionRequests,
               \/ \E s \in Sessions : Logins!Send(r, s)
               \/ Logins!Authorise(r) \/ Logins!Refuse(r) \/ Logins!End(r)
                   \/ Logins!DeleteSession(r)
        PROVE  Logins!Store!Next
    BY <2>2, SendRefines, AuthoriseRefines, RefuseRefines, EndRefines,
       DeleteRefines
    DEF Logins!Store!Next
  <2> QED
    BY <2>1, <2>2 DEF Logins!Next
<1>4. SessionsInv /\ [Logins!Next]_(Logins!vars) =>
          [Logins!Store!Next]_(Logins!Store!vars)
  BY <1>2, <1>3
<1> QED
  BY <1>1, <1>4, SessionsInvariant, PTL
     DEF Logins!Spec, Logins!ImplementsSessionStore, Logins!Store!Spec

-----------------------------------------------------------------------------
(* The theorems.                                                            *)

\* A row of the knowledge library names a file that is there, and a file
\* without a row or a document that cannot be read has the cause FilesAgree
\* names, however uploads, removals and downloads are interleaved or cut off
\* (main.py:376-387, 396-400, 413-417).
THEOREM RowsAndFilesAgree == Spec => []FilesAgree
PROOF
<1>1. FilesInv => FilesAgree
  BY DEF FilesInv, FilesAgree
<1> QED
  BY <1>1, FilesInvariant, PartsRun, ServiceAssumption, PTL
     DEF ServiceAssumption

\* The latest save that overlaps no other is stored whole, a key is lost only by
\* overlapping saves, and the hint shown is that of the key stored unless saves
\* overlapped and two keys end alike (main.py:272-299, repositories.py:221-232).
THEOREM SettingsAreSaved == Spec => []SettingsAgree
PROOF
<1>1. SettingsInv => SettingsAgree
  BY SettingsImplied DEF SettingsAgree
<1> QED
  BY <1>1, SettingsInvariant, PartsRun, ServiceAssumption, PTL
     DEF ServiceAssumption

\* A request is authorised only by a session that had not ended when it was
\* sent, and refused only when its session has ended, whatever logins, purges,
\* lookups and logouts happen between its steps (repositories.py:59-103).
THEOREM PanelImplementsSessionStore == Spec => ImplementsSessionStore
PROOF
  BY LoginsImplementStore, PartsRun, ServiceAssumption, PTL
     DEF ServiceAssumption, ImplementsSessionStore
===============================================================================
