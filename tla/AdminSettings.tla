---------------------------- MODULE AdminSettings ----------------------------
(***************************************************************************)
(* Saving a company's settings in the FastAPI panel. One PUT writes the    *)
(* profile in one transaction, reads the AI configuration in another,      *)
(* encrypts the key the form gives or keeps the one it has read, and       *)
(* writes the configuration in a third.                                    *)
(*                                                                         *)
(* The two writing transactions load the row and assign every column;      *)
(* SQLAlchemy then updates only the columns whose value differs from the   *)
(* one loaded (READ COMMITTED: the load takes no lock). The columns of a   *)
(* row that behave alike are one: profile stands for all those of tenants  *)
(* that the form sets, model for provider and model. The two are never     *)
(* compared, so that one text of a form stands for both.                   *)
(*                                                                         *)
(* A form stands for its save, and the key it gives, encrypted, for the    *)
(* save too: no two encryptions are equal. Their last four characters may  *)
(* be.                                                                     *)
(***************************************************************************)
EXTENDS Integers, FiniteSets

CONSTANTS
    Saves,      \* the requests
    Texts,      \* values of the columns
    Hints,      \* values of key_last_four
    NoKey,      \* the NULL of both columns of the key
    None        \* no configuration, and what a save does not hold yet

Configurations ==
    [model : Texts, key : Saves \union {NoKey}, hint : Hints \union {NoKey}]

ConstantsOK ==
    /\ NoKey \notin Saves \union Hints
    /\ None \notin Configurations
    /\ Texts # {}
    /\ Hints # {}

\* hint is NoKey in a form without a key.
Forms == [text : Texts, hint : Hints \union {NoKey}]

VARIABLES
    profile,        \* the row of tenants
    configuration,  \* the row of tenant_ai_configurations, or None
    pc,             \* how far each save is
    form,           \* what each asks for
    base,           \* the profile its first transaction loads
    current,        \* the configuration it reads, with the key it will write
    loaded,         \* the configuration its last transaction loads
    latest,         \* history: the save that started last
    given,          \* history: the key the last committed form with one gave
    overlapped      \* history: saves that ran while another did

rows == <<profile, configuration>>
locals == <<form, base, current, loaded>>
history == <<latest, given, overlapped>>
vars == <<rows, pc, locals, history>>

Steps == {"new", "started", "loadedProfile", "savedProfile", "read",
          "loadedConfiguration", "saved", "failed"}
Ended == {"saved", "failed"}

TypeOK ==
    /\ profile \in Texts
    /\ configuration \in Configurations \union {None}
    /\ pc \in [Saves -> Steps]
    /\ form \in [Saves -> Forms \union {None}]
    /\ base \in [Saves -> Texts \union {None}]
    /\ current \in [Saves -> Configurations \union {None}]
    /\ loaded \in [Saves -> Configurations \union {None}]
    /\ latest \in Saves \union {NoKey}
    /\ given \in Saves \union {NoKey}
    /\ overlapped \subseteq Saves

Gives(s) == form[s].hint # NoKey

HintOf(key) == IF key = NoKey THEN NoKey ELSE form[key].hint

Init ==
    /\ profile \in Texts
    /\ configuration = None
    /\ pc = [s \in Saves |-> "new"]
    /\ form = [s \in Saves |-> None]
    /\ base = [s \in Saves |-> None]
    /\ current = [s \in Saves |-> None]
    /\ loaded = [s \in Saves |-> None]
    /\ latest = NoKey
    /\ given = NoKey
    /\ overlapped = {}

Goto(s, step) == pc' = [pc EXCEPT ![s] = step]

Running == {s \in Saves : pc[s] \notin {"new"} \union Ended}

\* What a column holds after it is assigned: it is written if the value wanted
\* is not the one loaded.
Column(value, wanted, old) == IF wanted = old THEN value ELSE wanted

Written(row, wanted, old) ==
    [c \in DOMAIN row |-> Column(row[c], wanted[c], old[c])]

-----------------------------------------------------------------------------
\* The PUT is admitted and finds the company.
Start(s, asked) ==
    /\ pc[s] = "new"
    /\ Goto(s, "started")
    /\ form' = [form EXCEPT ![s] = asked]
    /\ latest' = s
    /\ overlapped' = IF Running = {} THEN overlapped
                     ELSE overlapped \union Running \union {s}
    /\ UNCHANGED <<rows, base, current, loaded, given>>

\* update_profile: the row is loaded.
LoadProfile(s) ==
    /\ pc[s] = "started"
    /\ base' = [base EXCEPT ![s] = profile]
    /\ Goto(s, "loadedProfile")
    /\ UNCHANGED <<rows, form, current, loaded, history>>

\* Mutant: the profile of an earlier load is kept.
Loaded(s) == base[s]

Wanted(s) == form[s].text

\* update_profile commits.
CommitProfile(s) ==
    /\ pc[s] = "loadedProfile"
    /\ profile' = Column(profile, Wanted(s), base[s])
    /\ base' = [base EXCEPT ![s] = None]
    /\ Goto(s, "savedProfile")
    /\ UNCHANGED <<configuration, form, current, loaded, history>>

\* Mutant: a save that gives no key clears the one there is.
Forgets(row) == [key |-> NoKey, hint |-> NoKey]

\* The key to keep.
Kept(row) == IF row = None THEN [key |-> NoKey, hint |-> NoKey]
             ELSE [key |-> row.key, hint |-> row.hint]

\* Mutant: the last four characters are not updated.
KeepsHint(s, kept) == [key |-> s, hint |-> kept.hint]

\* encrypt and api_key[-4:].
Encrypted(s, kept) == [key |-> s, hint |-> form[s].hint]

\* The configuration is read and the key is kept or encrypted.
ReadConfiguration(s) ==
    /\ pc[s] = "savedProfile"
    /\ LET kept == Kept(configuration)
           pair == IF Gives(s) THEN Encrypted(s, kept) ELSE kept IN
        current' = [current EXCEPT ![s] =
            [model |-> form[s].text, key |-> pair.key, hint |-> pair.hint]]
    /\ Goto(s, "read")
    /\ UNCHANGED <<rows, form, base, loaded, history>>

\* save: the row is loaded.
LoadConfiguration(s) ==
    /\ pc[s] = "read"
    /\ loaded' = [loaded EXCEPT ![s] = configuration]
    /\ Goto(s, "loadedConfiguration")
    /\ UNCHANGED <<rows, form, base, current, history>>

\* A save is over and what it held is gone; its form stays for the properties.
End(s, outcome) ==
    /\ Goto(s, outcome)
    /\ base' = [base EXCEPT ![s] = None]
    /\ current' = [current EXCEPT ![s] = None]
    /\ loaded' = [loaded EXCEPT ![s] = None]
    /\ UNCHANGED <<profile, form, latest, overlapped>>

\* The last transaction is committed; the answer may be lost.
Answer(s) ==
    /\ \E outcome \in Ended : End(s, outcome)
    /\ given' = IF Gives(s) THEN s ELSE given

\* save commits a new row.
Insert(s) ==
    /\ pc[s] = "loadedConfiguration"
    /\ loaded[s] = None
    /\ configuration = None
    /\ configuration' = current[s]
    /\ Answer(s)

\* save commits changes of the row.
Update(s) ==
    /\ pc[s] = "loadedConfiguration"
    /\ loaded[s] # None
    /\ configuration' = Written(configuration, current[s], loaded[s])
    /\ Answer(s)

\* A statement raises, as the INSERT does when the row exists by now, or no
\* TENANT_SECRET_KEY is set (503). What was committed stays.
Fail(s) ==
    /\ s \in Running
    /\ End(s, "failed")
    /\ UNCHANGED <<configuration, given>>

Save(s) ==
    \/ \E asked \in Forms : Start(s, asked)
    \/ LoadProfile(s)
    \/ CommitProfile(s)
    \/ ReadConfiguration(s)
    \/ LoadConfiguration(s)
    \/ Insert(s)
    \/ Update(s)
    \/ Fail(s)

Next == \E s \in Saves : Save(s)

Spec == Init /\ [][Next]_vars

-----------------------------------------------------------------------------
(* Properties.                                                              *)

\* A save that was answered "saved", overlapped no other and is the latest has
\* left exactly its form in both rows, although they are separate transactions
\* that write only what they see as changed (main.py:272-299).
SavedIsStored ==
    \A s \in Saves :
        pc[s] = "saved" /\ latest = s /\ s \notin overlapped =>
            /\ profile = form[s].text
            /\ configuration.model = form[s].text
            /\ Gives(s) => configuration.key = s

\* The key stored is the last one that was given, unless saves overlapped: one
\* that keeps the key it has read may write it over a newer one
\* (main.py:283-296).
KeyLostOnlyByOverlap ==
    overlapped = {} /\ configuration # None => configuration.key = given

\* The hint shown is the one of the key stored. Key and hint are written as
\* two columns, each only when it changed, and still they come apart only if
\* saves overlap and two keys have the same last four characters
\* (repositories.py:221-232).
HintIsOfKey ==
    configuration # None /\ configuration.hint # HintOf(configuration.key) =>
        /\ overlapped # {}
        /\ \E s, t \in Saves :
            /\ s # t
            /\ pc[s] # "new" /\ Gives(s)
            /\ pc[t] # "new" /\ Gives(t)
            /\ form[s].hint = form[t].hint
=============================================================================
