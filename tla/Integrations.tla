---------------------------- MODULE Integrations ----------------------------
(***************************************************************************)
(* The integrations of one tenant of the Cloudflare deployment: a row of   *)
(* D1 with the WhatsApp and AI settings, their encrypted credentials and   *)
(* the verdict of the last connection test of each. A save reads the row   *)
(* for the credentials its form left empty and writes the whole row; a     *)
(* test reads the row, asks the provider and writes its verdict into the   *)
(* row of that time. Requests are interleaved at their awaits.             *)
(*                                                                         *)
(* A save stands for the plain settings it wrote and, per target, for the  *)
(* credential it supplied: the three credentials of WhatsApp are one here, *)
(* being cleared together.                                                 *)
(***************************************************************************)
EXTENDS Integers, FiniteSets

CONSTANTS
    Saves,      \* PUT requests on the integrations, each made once
    Tests,      \* concurrent connection tests
    NoSave      \* who wrote what nobody has written

ConstantsOK == NoSave \notin Saves

Targets == {"whatsapp", "ai"}
Writers == Saves \union {NoSave}

\* What a form asks for: per target a credential to set, keep or clear, and
\* whether the AI provider is Workers AI, which needs none.
Forms == [credential : [Targets -> {"set", "keep", "clear"}], local : BOOLEAN]

\* A row, and a row that does not exist.
Rows == [writer : Writers, local : BOOLEAN, credential : [Targets -> Writers]]
NoRow == [writer |-> NoSave, local |-> FALSE,
          credential |-> [x \in Targets |-> NoSave]]

VARIABLES
    row,        \* the settings and credentials stored
    verdict,    \* the status column of each target
    save,       \* how far each save is
    loaded,     \* the row it has read
    test,       \* how far each connection test is
    target,     \* what it tests
    seen,       \* the row it has read
    \* --- history
    intended,   \* whose credential the last write that set or cleared it meant
    overtaken,  \* targets whose credential was kept by a save that another
                \* one had overtaken since it read the row
    accepted,   \* targets the provider has accepted the stored row for
    crossed     \* targets under test when the row was last written

saveVars == <<save, loaded>>
testVars == <<test, target, seen>>
historyVars == <<intended, overtaken, accepted, crossed>>
vars == <<row, verdict, saveVars, testVars, historyVars>>

TypeOK ==
    /\ row \in Rows
    /\ verdict \in [Targets -> {"pending", "connected", "error"}]
    /\ row = NoRow => verdict = [x \in Targets |-> "pending"]
    /\ save \in [Saves -> {"new", "loaded", "ended"}]
    /\ loaded \in [Saves -> Rows]
    /\ test \in [Tests -> {"idle", "asking", "good", "bad"}]
    /\ target \in [Tests -> Targets]
    /\ seen \in [Tests -> Rows]
    /\ \A t \in Tests : (seen[t] = NoRow) <=> (test[t] = "idle")
    /\ intended \in [Targets -> Writers]
    /\ overtaken \subseteq Targets
    /\ accepted \subseteq Targets
    /\ crossed \subseteq Targets

Init ==
    /\ row = NoRow
    /\ verdict = [x \in Targets |-> "pending"]
    /\ save = [s \in Saves |-> "new"]
    /\ loaded = [s \in Saves |-> NoRow]
    /\ test = [t \in Tests |-> "idle"]
    /\ target = [t \in Tests |-> "ai"]
    /\ seen = [t \in Tests |-> NoRow]
    /\ intended = [x \in Targets |-> NoSave]
    /\ overtaken = {}
    /\ accepted = {}
    /\ crossed = {}

-----------------------------------------------------------------------------
(* saveIntegrations.                                                        *)

Load(s) ==
    /\ save[s] = "new"
    /\ loaded' = [loaded EXCEPT ![s] = row]
    /\ save' = [save EXCEPT ![s] = "loaded"]
    /\ UNCHANGED <<row, verdict, testVars, historyVars>>

\* Mutant: a credential the form left empty is cleared.
ForgetsKept(s, x, asked) == IF asked = "set" THEN s ELSE NoSave

\* encryptedValue.
Credential(s, x, asked) ==
    CASE asked = "set"   -> s
      [] asked = "keep"  -> loaded[s].credential[x]
      [] asked = "clear" -> NoSave

\* Mutant: an existing row keeps its verdicts.
KeepVerdicts == verdict

Reset == [x \in Targets |-> "pending"]

\* History: what the form meant, and whether a concurrent request was crossed.
Witness(s, form) ==
    LET keeps(x) == form.credential[x] = "keep" IN
    /\ intended' = [x \in Targets |->
            CASE form.credential[x] = "set"   -> s
              [] form.credential[x] = "keep"  -> intended[x]
              [] form.credential[x] = "clear" -> NoSave]
    /\ overtaken' = {x \in Targets : keeps(x) /\
            (x \in overtaken \/ loaded[s].writer # row.writer)}
    /\ crossed' = {target[t] : t \in {u \in Tests : test[u] # "idle"}}
    /\ accepted' = {}

Finish(s) ==
    /\ save' = [save EXCEPT ![s] = "ended"]
    /\ loaded' = [loaded EXCEPT ![s] = NoRow]

\* The upsert of D1. What follows, the audit event and the answer (which may
\* be 400 although the row is written), leaves the row alone.
Write(s, form) ==
    /\ save[s] = "loaded"
    /\ row' = [writer |-> s, local |-> form.local,
               credential |-> [x \in Targets |-> Credential(s, x, form.credential[x])]]
    /\ verdict' = Reset
    /\ Witness(s, form)
    /\ Finish(s)
    /\ UNCHANGED testVars

\* Encrypting or the upsert throws with nothing written, or the invocation
\* ends.
CutSave(s) ==
    /\ save[s] = "loaded"
    /\ Finish(s)
    /\ UNCHANGED <<row, verdict, testVars, historyVars>>

-----------------------------------------------------------------------------
(* testIntegration. Without a row it throws before it marks anything.       *)

Goto(t, step) ==
    /\ test' = [test EXCEPT ![t] = step]
    /\ UNCHANGED <<target, seen>>

\* The request has ended.
Leave(t) ==
    /\ test' = [test EXCEPT ![t] = "idle"]
    /\ target' = [target EXCEPT ![t] = "ai"]
    /\ seen' = [seen EXCEPT ![t] = NoRow]

\* Mutant: the test goes on without a row.
SavedOrNot == TRUE

HasRow == row # NoRow

Ask(t, x) ==
    /\ test[t] = "idle"
    /\ HasRow
    /\ target' = [target EXCEPT ![t] = x]
    /\ seen' = [seen EXCEPT ![t] = row]
    /\ test' = [test EXCEPT ![t] = "asking"]
    /\ UNCHANGED <<row, verdict, saveVars, historyVars>>

CanAsk(r, x) == r.credential[x] # NoSave \/ (x = "ai" /\ r.local)

ProviderAccepts(t) ==
    /\ test[t] = "asking"
    /\ CanAsk(seen[t], target[t])
    /\ accepted' = IF seen[t] = row THEN accepted \union {target[t]} ELSE accepted
    /\ Goto(t, "good")
    /\ UNCHANGED <<row, verdict, saveVars, intended, overtaken, crossed>>

\* The credential or the phone number id is missing, cannot be decrypted, is
\* rejected, or the call throws.
ProviderRejects(t) ==
    /\ test[t] = "asking"
    /\ Goto(t, "bad")
    /\ UNCHANGED <<row, verdict, saveVars, historyVars>>

MarkStatus(x, status) == verdict' = [verdict EXCEPT ![x] = status]

MarkConnected(t) ==
    /\ test[t] = "good"
    /\ MarkStatus(target[t], "connected")
    /\ Leave(t)
    /\ UNCHANGED <<row, saveVars, historyVars>>

\* markStatus throws, carried out or not, and the catch clause marks an error.
MarkThrows(t) ==
    /\ test[t] = "good"
    /\ MarkStatus(target[t], "connected") \/ UNCHANGED verdict
    /\ Goto(t, "bad")
    /\ UNCHANGED <<row, saveVars, historyVars>>

MarkError(t) ==
    /\ test[t] = "bad"
    /\ MarkStatus(target[t], "error")
    /\ Leave(t)
    /\ UNCHANGED <<row, saveVars, historyVars>>

\* The last markStatus throws, or the invocation ends.
EndTest(t) ==
    /\ test[t] # "idle"
    /\ Leave(t)
    /\ UNCHANGED <<row, verdict, saveVars, historyVars>>

-----------------------------------------------------------------------------
Save(s) ==
    \/ Load(s)
    \/ \E form \in Forms : Write(s, form)
    \/ CutSave(s)

Test(t) ==
    \/ \E x \in Targets : Ask(t, x)
    \/ ProviderAccepts(t)
    \/ ProviderRejects(t)
    \/ MarkConnected(t)
    \/ MarkThrows(t)
    \/ MarkError(t)
    \/ EndTest(t)

Next == (\E s \in Saves : Save(s)) \/ (\E t \in Tests : Test(t))

Spec == Init /\ [][Next]_vars

-----------------------------------------------------------------------------
(* Properties.                                                              *)

\* "connected" is shown for settings and a credential the provider has
\* accepted, unless the row was last written during a test of that target
\* (integrations.ts:202-243).
ConnectedWasAccepted ==
    \A x \in Targets \ crossed :
        verdict[x] = "connected" => x \in accepted

\* The credential stored for a target is the one last supplied, and none if it
\* was last cleared, whatever was saved since without naming it: only a save
\* that another one has overtaken loses or revives one, until the next that
\* names it (integrations.ts:143-186).
CredentialLostOnlyByOverlap ==
    \A x \in Targets \ overtaken : row.credential[x] = intended[x]
=============================================================================
