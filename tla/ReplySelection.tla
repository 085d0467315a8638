---------------------------- MODULE ReplySelection ----------------------------
(***************************************************************************)
(* How the agent chooses its reply to one message: the company is loaded,  *)
(* its AI configuration is read and its key decrypted, the message is      *)
(* classified by the model or by the keyword rules, a model's decision     *)
(* passes the guardrail, and the strategy of the intent composes a reply.  *)
(* MessageProcessing abstracts all of this to its step ComposeReply.       *)
(*                                                                         *)
(* A text is the keyword groups and the service names it contains. Names   *)
(* are distinct up to case. Confidences are percentages.                   *)
(***************************************************************************)
EXTENDS Integers, Sequences, FiniteSets

CONSTANTS
    Names,          \* names of services
    LowerCase,      \* those without a capital letter
    Invented,       \* a name of no service
    NoService,      \* the None of result.service
    Minimum,        \* llm_minimum_confidence
    Confidences     \* the ones the model may answer with

ConstantsOK ==
    /\ LowerCase \subseteq Names
    /\ Invented \notin Names /\ NoService \notin Names \union {Invented}
    /\ Minimum \in 0..100 /\ Confidences \subseteq 0..100

VARIABLES
    catalogue,  \* tenant.services, in the order of the dict
    stored,     \* the encrypted_api_key of the company
    global,     \* whether the service has a key of its own
    words,      \* the keyword groups in the text
    mentioned,  \* the service names in it, in any case
    pc,         \* "unclosed": the model's client could not be closed
    key,        \* the key the classifier uses
    result,     \* the IntentResult
    searched,   \* the service slots are looked for
    reply

text == <<words, mentioned>>
environment == <<stored, global>>
vars == <<catalogue, environment, text, pc, key, result, searched, reply>>

Intents == {"book", "faq", "pay", "human", "unknown"}
Results == [intent : Intents, service : Names \union {NoService},
            confidence : 0..100, human : BOOLEAN,
            source : {"rules", "openai", "rules_fallback"}]
\* An unreadable key was encrypted with another TENANT_SECRET_KEY, or there is
\* none now.
StoredKeys == {"none", "readable", "unreadable"}
Replies == {"slots", "noSlots", "answer", "link", "handoff", "uncertain", "greeting"}
Catalogues ==
    UNION {{s \in [1..n -> Names] : \A i, j \in 1..n : s[i] = s[j] => i = j} :
            n \in 0..Cardinality(Names)}
Services == {catalogue[i] : i \in DOMAIN catalogue}

TypeOK ==
    /\ catalogue \in Catalogues
    /\ stored \in StoredKeys /\ global \in BOOLEAN
    /\ words \subseteq Intents \ {"unknown"}
    /\ mentioned \subseteq Names
    /\ pc \in {"create", "configure", "model", "strategy", "done", "failed", "unclosed"}
    /\ key \in {"none", "global", "readable", "unreadable"}
    /\ result \in Results
    /\ searched \in Names \union {NoService}
    /\ reply \in Replies \union {"none"}

NoResult == [intent |-> "unknown", service |-> NoService, confidence |-> 0,
             human |-> FALSE, source |-> "rules"]

Init ==
    /\ catalogue \in Catalogues
    /\ stored \in StoredKeys /\ global \in BOOLEAN
    /\ words \in SUBSET (Intents \ {"unknown"})
    /\ mentioned \in SUBSET Names
    /\ pc = "create"
    /\ key = "none"
    /\ result = NoResult
    /\ searched = NoService
    /\ reply = "none"

-----------------------------------------------------------------------------
(* The keyword rules.                                                       *)

FirstOf(names) ==
    IF \E i \in DOMAIN catalogue : catalogue[i] \in names
    THEN catalogue[CHOOSE i \in DOMAIN catalogue :
            /\ catalogue[i] \in names
            /\ \A j \in 1..(i - 1) : catalogue[j] \notin names]
    ELSE NoService

\* Mutant: bookings are looked for before requests for a person.
BookFirst == <<"book", "human", "pay", "faq">>

Priority == <<"human", "book", "pay", "faq">>

Confidence == [human |-> 99, book |-> 96, pay |-> 93, faq |-> 88, unknown |-> 40]

\* The first group in order of priority; the text is in lower case and a
\* service's name is not.
RulesIntent ==
    IF words = {} THEN "unknown"
    ELSE Priority[CHOOSE i \in 1..4 : Priority[i] \in words /\
                    \A j \in 1..(i - 1) : Priority[j] \notin words]

Rules(source) ==
    [intent |-> RulesIntent, service |-> FirstOf(mentioned \intersect LowerCase),
     confidence |-> Confidence[RulesIntent], human |-> RulesIntent = "human",
     source |-> source]

-----------------------------------------------------------------------------
(* The model.                                                               *)

\* Mutant: the service of the model is taken as it is.
AnyService(candidate) == candidate

Canonical(candidate) == IF candidate \in Services THEN candidate ELSE NoService

\* Mutant: the two conditions are conjoined.
UnsureAndHuman(r) == r.human /\ r.confidence < Minimum

NeedsHuman(r) == r.human \/ r.confidence < Minimum

Guarded(r) ==
    IF NeedsHuman(r) THEN [r EXCEPT !.intent = "human", !.human = TRUE] ELSE r

-----------------------------------------------------------------------------
\* Somebody saves a key in the panel, which encrypts it with the key of now.
SaveKey ==
    /\ stored' = "readable"
    /\ UNCHANGED <<catalogue, global, text, pc, key, result, searched, reply>>

Goto(step) == pc' = step /\ UNCHANGED <<catalogue, environment, text>>

\* ChatbotAgentFactory.create: the company, with its services, is loaded.
Create ==
    /\ pc = "create"
    /\ Goto("configure")
    /\ UNCHANGED <<key, result, searched, reply>>

\* The company is gone, or a statement raises: the execution fails.
CreateThrows ==
    /\ pc \in {"create", "configure"}
    /\ Goto("failed")
    /\ UNCHANGED <<key, result, searched, reply>>

Decrypts(k) == k = "readable"

\* The configuration is read; its key goes before the service's own.
UseStoredKey ==
    /\ pc = "configure"
    /\ stored # "none"
    /\ key' = stored
    /\ Goto(IF Decrypts(stored) THEN "model" ELSE "failed")
    /\ UNCHANGED <<result, searched, reply>>

UseGlobalKey ==
    /\ pc = "configure"
    /\ stored = "none"
    /\ global
    /\ key' = "global"
    /\ Goto("model")
    /\ UNCHANGED <<result, searched, reply>>

UseRules ==
    /\ pc = "configure"
    /\ stored = "none"
    /\ ~global
    /\ result' = Rules("rules")
    /\ Goto("strategy")
    /\ UNCHANGED <<key, searched, reply>>

\* The model's structured answer, canonical and guarded.
Classify ==
    /\ pc = "model"
    /\ \E intent \in Intents, candidate \in Names \union {Invented, NoService},
          confidence \in Confidences, human \in BOOLEAN :
        result' = Guarded(
            [intent |-> intent, service |-> Canonical(candidate),
             confidence |-> confidence, human |-> human, source |-> "openai"])
    /\ Goto("strategy")
    /\ UNCHANGED <<key, searched, reply>>

\* Mutant: an exception of the model leaves classify.
Raise == Goto("failed") /\ UNCHANGED result

FallBack == result' = Rules("rules_fallback") /\ Goto("strategy")

\* The model does not answer, or not in the schema.
ModelThrows ==
    /\ pc = "model"
    /\ FallBack
    /\ UNCHANGED <<key, searched, reply>>

\* classifier.close() in the finally raises: what classify returned is lost,
\* by the model or by the rules, and the execution fails.
CloseThrows ==
    /\ pc = "model"
    /\ Goto("unclosed")
    /\ UNCHANGED <<key, result, searched, reply>>

-----------------------------------------------------------------------------
(* The strategies.                                                          *)

Answer(r) == reply' = r /\ Goto("done") /\ UNCHANGED <<key, result>>

\* The service of the result, or the first of the company.
Wanted == IF result.service # NoService THEN result.service ELSE catalogue[1]

Book ==
    /\ pc = "strategy" /\ result.intent = "book"
    /\ result.service # NoService \/ catalogue # <<>>
    /\ searched' = Wanted
    /\ \E r \in {"slots", "noSlots"} : Answer(r)

\* next(iter(tenant.services)) of a company without services raises.
BookNothing ==
    /\ pc = "strategy" /\ result.intent = "book"
    /\ result.service = NoService /\ catalogue = <<>>
    /\ Goto("failed")
    /\ UNCHANGED <<key, result, searched, reply>>

\* A strategy of the other intents; one for "unknown" is the agent's fallback.
Respond ==
    /\ pc = "strategy" /\ result.intent # "book"
    /\ Answer(CASE result.intent = "faq" -> "answer"
                [] result.intent = "pay" -> "link"
                [] result.intent = "human" -> "handoff"
                [] result.intent = "unknown" ->
                     IF result.human THEN "uncertain" ELSE "greeting")
    /\ UNCHANGED searched

Next ==
    \/ SaveKey
    \/ Create
    \/ CreateThrows
    \/ UseStoredKey
    \/ UseGlobalKey
    \/ UseRules
    \/ Classify
    \/ ModelThrows
    \/ CloseThrows
    \/ Book
    \/ BookNothing
    \/ Respond

Spec == Init /\ [][Next]_vars

-----------------------------------------------------------------------------
(* Properties.                                                              *)

\* Neither slots nor a payment link are offered on a decision that asks for a
\* person, whoever took it, or on one of the model below the minimum
\* confidence; the confidences of the rules are fixed and not compared with it
\* (tenant_ai.py:53-55, strategies.py).
ActsOnlyWhenSure ==
    reply \in {"slots", "noSlots", "link"} =>
        /\ ~result.human
        /\ result.source = "openai" => result.confidence >= Minimum

\* Slots are looked for a service of the company, whatever the model answers
\* (openai_adapter.py:112-116, strategies.py:28).
BooksOwnService ==
    pc = "done" /\ result.intent = "book" => searched \in Services

\* A text that asks for a person and is classified by the rules is handed to
\* one, also if it speaks of appointments or payments (adapters.py:97-101).
PersonWhenAsked ==
    pc = "done" /\ result.source # "openai" /\ "human" \in words =>
        reply = "handoff"

\* Once a key is read, a message goes without a reply for three reasons only:
\* the key of the company cannot be decrypted, a booking meets a company
\* without services, or the model's client cannot be closed. No failure of the
\* model itself is one (tenant_ai.py:36-55).
RepliesWhateverTheModel ==
    pc = "failed" /\ key \in {"global", "readable"} =>
        result.intent = "book" /\ catalogue = <<>>
=============================================================================
