----------------------------- MODULE ServiceProofs ----------------------------
(***************************************************************************)
(* Theorems about the other parts of Service, for any services, texts,     *)
(* sources, companies, processes that start, rows and connections.         *)
(***************************************************************************)
EXTENDS PanelProofs, WellFoundedInduction, SequenceTheorems

-----------------------------------------------------------------------------
(* The choice of a reply: ReplySelection.                                   *)

\* What holds of the result of either classifier.
Decided ==
    /\ rResult.human => rResult.intent = "human"
    /\ rResult.source = "openai" /\ rResult.intent # "human" =>
        rResult.confidence >= Minimum
    /\ rResult.source # "openai" /\ "human" \in rWords =>
        rResult.intent = "human"
    /\ rResult.service \in Replies!Services \union {NoService}

\* No key is used before the configuration is read; a model is asked with a key
\* that decrypts; a strategy composes from a decided result, and the reply is
\* that of its intent.
ReplyIsOfIntent ==
    /\ rPc \in {"create", "configure"} => rKey = "none"
    /\ rPc # "done" => rReply = "none"
    /\ rPc \in {"strategy", "done"} => Decided
    /\ rPc = "done" =>
        /\ rReply \in {"slots", "noSlots"} => rResult.intent = "book"
        /\ rReply = "link" => rResult.intent = "pay"
        /\ rResult.intent = "human" => rReply = "handoff"
        /\ rResult.intent = "book" => rSearched \in Replies!Services
    /\ Replies!RepliesWhateverTheModel

ReplyInv == Replies!ConstantsOK /\ Replies!TypeOK /\ ReplyIsOfIntent

(* The keyword rules.                                                       *)

\* A set of numbers has a least one.
LEMMA LeastPosition ==
    ASSUME NEW S \in SUBSET Nat, S # {}
    PROVE  \E i \in S : \A j \in S : i <= j
PROOF
<1> DEFINE R == {ss \in Nat \X Nat : ss[1] < ss[2]}
<1>1. IsWellFoundedOn(R, Nat)
  BY NatLessThanWellFounded, Zenon DEF OpToRel
<1>2. \E i \in S : \A j \in S : ~(<<j, i>> \in R)
  <2> HIDE DEF R
  <2> QED
    BY <1>1, WFMin
<1>3. \A i, j \in Nat : <<j, i>> \in R <=> j < i
  OBVIOUS
<1> HIDE DEF R
<1>4. PICK i \in S : \A j \in S : ~(<<j, i>> \in R)
  BY <1>2
<1>5. ASSUME NEW j \in S
      PROVE  i <= j
  <2>1. i \in Nat /\ j \in Nat
    OBVIOUS
  <2>2. ~(j < i)
    BY <1>3, <1>4, <2>1
  <2> QED
    BY <2>1, <2>2
<1> QED
  BY <1>5

\* The catalogue is a sequence of names.
LEMMA CatalogueIsSequence ==
    ASSUME Replies!TypeOK
    PROVE  \E n \in Nat : rCatalogue \in [1..n -> Names]
PROOF
  BY DEF Replies!TypeOK, Replies!Catalogues

\* The rules name a service of the company or none.
LEMMA FirstIsOfCompany ==
    ASSUME Replies!TypeOK, NEW names
    PROVE  Replies!FirstOf(names) \in Replies!Services \union {NoService}
PROOF
<1>1. PICK n \in Nat : rCatalogue \in [1..n -> Names]
  BY CatalogueIsSequence
<1>2. SUFFICES ASSUME \E i \in DOMAIN rCatalogue : rCatalogue[i] \in names
               PROVE  Replies!FirstOf(names) \in Replies!Services
  BY DEF Replies!FirstOf
<1> DEFINE S == {i \in 1..n : rCatalogue[i] \in names}
<1>3. PICK i \in S : \A j \in S : i <= j
  <2>1. S # {} /\ S \in SUBSET Nat
    BY <1>1, <1>2
  <2> QED
    BY <2>1, LeastPosition
<1>4. /\ i \in DOMAIN rCatalogue
      /\ rCatalogue[i] \in names
      /\ \A j \in 1..(i - 1) : rCatalogue[j] \notin names
  BY <1>1, <1>3
<1>5. Replies!FirstOf(names) = rCatalogue[CHOOSE k \in DOMAIN rCatalogue :
            /\ rCatalogue[k] \in names
            /\ \A j \in 1..(k - 1) : rCatalogue[j] \notin names]
  BY <1>2 DEF Replies!FirstOf
<1> QED
  BY <1>4, <1>5 DEF Replies!Services

\* The rules find an intent, that of a person before every other.
LEMMA RulesDecide ==
    ASSUME Replies!TypeOK
    PROVE  /\ Replies!RulesIntent \in Replies!Intents
           /\ "human" \in rWords => Replies!RulesIntent = "human"
PROOF
<1>1. rWords \subseteq {"human", "book", "pay", "faq"}
  BY DEF Replies!TypeOK, Replies!Intents
<1>2. CASE rWords = {}
  BY <1>2 DEF Replies!RulesIntent, Replies!Intents
<1>3. CASE "human" \in rWords
  <2>1. \A i \in 1..4 :
            (Replies!Priority[i] \in rWords
                /\ \A j \in 1..(i - 1) : Replies!Priority[j] \notin rWords)
            <=> i = 1
    BY <1>3 DEF Replies!Priority
  <2>2. (CHOOSE i \in 1..4 : Replies!Priority[i] \in rWords /\
            \A j \in 1..(i - 1) : Replies!Priority[j] \notin rWords) = 1
    BY <2>1
  <2> QED
    BY <1>3, <2>2 DEF Replies!RulesIntent, Replies!Intents, Replies!Priority
<1>4. CASE rWords # {} /\ "human" \notin rWords
  <2> Replies!Priority[1] = "human" /\ Replies!Priority[2] = "book"
      /\ Replies!Priority[3] = "pay"
      /\ Replies!Priority[4] = "faq"
    BY DEF Replies!Priority
  <2>1. \E i \in 1..4 : Replies!Priority[i] \in rWords /\
            \A j \in 1..(i - 1) : Replies!Priority[j] \notin rWords
    <3>1. CASE "book" \in rWords
      BY <1>4, <3>1
    <3>2. CASE "book" \notin rWords /\ "pay" \in rWords
      <4>1. Replies!Priority[3] \in rWords
            /\ \A j \in 1..(3 - 1) : Replies!Priority[j] \notin rWords
        BY <1>4, <3>2
      <4> QED
        BY <4>1
    <3>3. CASE "book" \notin rWords /\ "pay" \notin rWords
      <4>1. Replies!Priority[4] \in rWords
            /\ \A j \in 1..(4 - 1) : Replies!Priority[j] \notin rWords
        <5>1. "faq" \in rWords
          BY <1>1, <1>4, <3>3
        <5> QED
          BY <1>4, <3>3, <5>1
      <4> QED
        BY <4>1
    <3> QED
      BY <3>1, <3>2, <3>3
  <2>2. Replies!RulesIntent \in rWords
    BY <1>4, <2>1 DEF Replies!RulesIntent
  <2> QED
    BY <1>1, <1>4, <2>2 DEF Replies!Intents
<1> QED
  BY <1>2, <1>3, <1>4

\* What the rules decide is a result, and human exactly when it says so.
LEMMA RulesAreDecided ==
    ASSUME Replies!ConstantsOK, Replies!TypeOK,
           NEW source \in {"rules", "rules_fallback"}
    PROVE  /\ Replies!Rules(source) \in Replies!Results
           /\ Replies!Rules(source).human =>
               Replies!Rules(source).intent = "human"
           /\ "human" \in rWords => Replies!Rules(source).intent = "human"
           /\ Replies!Rules(source).service \in
               Replies!Services \union {NoService}
           /\ Replies!Rules(source).source = source
PROOF
<1>1. Replies!RulesIntent \in Replies!Intents
      /\ Replies!Confidence[Replies!RulesIntent] \in 0..100
  BY RulesDecide DEF Replies!Intents, Replies!Confidence
<1>2. Replies!FirstOf(rMentioned \intersect LowerCase) \in
          Replies!Services \union {NoService}
  BY FirstIsOfCompany
<1>3. Replies!Services \subseteq Names
  BY CatalogueIsSequence DEF Replies!Services
<1> QED
  BY <1>1, <1>2, <1>3, RulesDecide DEF Replies!Rules, Replies!Results

(* Types.                                                                   *)

\* A message is well formed when it arrives,
LEMMA ReplyTypeInit == Replies!Init /\ Replies!ConstantsOK => Replies!TypeOK
PROOF
  BY DEF Replies!Init, Replies!TypeOK, Replies!NoResult, Replies!Results,
         Replies!Intents, Replies!Replies, Replies!ConstantsOK

\* and in every step of its pipeline.
LEMMA ReplyTypeStep == Replies!ConstantsOK /\ Replies!TypeOK
    /\ [Replies!Next]_(Replies!vars) => Replies!TypeOK'
PROOF
<1> SUFFICES ASSUME Replies!ConstantsOK, Replies!TypeOK,
                    [Replies!Next]_(Replies!vars)
             PROVE  Replies!TypeOK'
  OBVIOUS
<1> USE DEF Replies!TypeOK, Replies!environment, Replies!text, Replies!Goto
<1>1. CASE Replies!SaveKey
  BY <1>1 DEF Replies!SaveKey, Replies!StoredKeys
<1>2. CASE Replies!Create
  BY <1>2 DEF Replies!Create
<1>3. CASE Replies!CreateThrows
  BY <1>3 DEF Replies!CreateThrows
<1>4. CASE Replies!UseStoredKey
  BY <1>4 DEF Replies!UseStoredKey, Replies!StoredKeys, Replies!Decrypts
<1>5. CASE Replies!UseGlobalKey
  BY <1>5 DEF Replies!UseGlobalKey
<1>6. CASE Replies!UseRules
  BY <1>6, RulesAreDecided DEF Replies!UseRules
<1>7. CASE Replies!Classify
  <2>1. rResult' \in Replies!Results
    <3> PICK intent \in Replies!Intents, candidate \in
            Names \union {Invented, NoService},
             confidence \in Confidences, human \in BOOLEAN :
               rResult' = Replies!Guarded([intent |-> intent,
                 service |-> Replies!Canonical(candidate),
                     confidence |-> confidence,
                 human |-> human, source |-> "openai"])
      BY <1>7 DEF Replies!Classify
    <3>1. Replies!Canonical(candidate) \in Names \union {NoService}
      BY CatalogueIsSequence DEF Replies!Canonical, Replies!Services
    <3>2. confidence \in 0..100
      BY DEF Replies!ConstantsOK
    <3> DEFINE answer == [intent |-> intent,
                          service |-> Replies!Canonical(candidate),
                          confidence |-> confidence,
                          human |-> human, source |-> "openai"]
    <3>3. answer \in Replies!Results
      BY <3>1, <3>2 DEF Replies!Results
    <3> HIDE DEF answer
    <3>4. Replies!Guarded(answer) \in Replies!Results
      BY <3>3 DEF Replies!Guarded, Replies!Results, Replies!Intents
    <3>5. rResult' = Replies!Guarded(answer)
      BY DEF answer
    <3> QED
      BY <3>4, <3>5
  <2> QED
    BY <1>7, <2>1 DEF Replies!Classify
<1>8. CASE Replies!ModelThrows
  BY <1>8, RulesAreDecided DEF Replies!ModelThrows, Replies!FallBack
<1>9. CASE Replies!Book
  <2>1. Replies!Wanted \in Names \union {NoService}
    <3>1. rResult.service \in Names \union {NoService}
      BY DEF Replies!Results
    <3>2. PICK n \in Nat : rCatalogue \in [1..n -> Names]
      BY CatalogueIsSequence
    <3>3. rCatalogue # <<>> => rCatalogue[1] \in Names
      BY <3>2
    <3> QED
      BY <1>9, <3>1, <3>3 DEF Replies!Book, Replies!Wanted
  <2> QED
    BY <1>9, <2>1 DEF Replies!Book, Replies!Answer, Replies!Replies
<1>10. CASE Replies!BookNothing
  BY <1>10 DEF Replies!BookNothing
<1>11. CASE Replies!Respond
  <2>1. rResult.intent \in Replies!Intents
    BY DEF Replies!Results
  <2> QED
    BY <1>11, <2>1
       DEF Replies!Respond, Replies!Answer, Replies!Replies, Replies!Intents
<1>12. CASE Replies!CloseThrows
  BY <1>12 DEF Replies!CloseThrows
<1>13. CASE UNCHANGED Replies!vars
  BY <1>13 DEF Replies!vars
<1> QED
  BY <1>1, <1>2, <1>3, <1>4, <1>5, <1>6, <1>7, <1>8, <1>9, <1>10, <1>11, <1>12,
     <1>13
     DEF Replies!Next

(* The reply is that of the intent.                                         *)

\* Nothing is replied at the start,
LEMMA ReplyInit == Replies!Init => ReplyIsOfIntent
PROOF
  BY DEF Replies!Init, ReplyIsOfIntent, Replies!RepliesWhateverTheModel

\* A message is classified in one of three ways, and decided by each.
LEMMA ClassifyDecides ==
    ASSUME Replies!ConstantsOK, Replies!TypeOK,
           Replies!UseRules \/ Replies!Classify \/ Replies!ModelThrows
    PROVE  Decided'
PROOF
<1>1. Replies!Services' = Replies!Services /\ rWords' = rWords
  BY DEF Replies!UseRules, Replies!Classify, Replies!ModelThrows,
         Replies!FallBack, Replies!Goto, Replies!text, Replies!Services
<1>2. CASE Replies!UseRules \/ Replies!ModelThrows
  <2>1. PICK source \in {"rules", "rules_fallback"} : rResult' =
            Replies!Rules(source)
    BY <1>2 DEF Replies!UseRules, Replies!ModelThrows, Replies!FallBack
  <2> QED
    BY <1>1, <2>1, RulesAreDecided DEF Decided
<1>3. CASE Replies!Classify
  <2> PICK intent \in Replies!Intents, candidate \in
          Names \union {Invented, NoService},
           confidence \in Confidences, human \in BOOLEAN :
             rResult' = Replies!Guarded([intent |-> intent,
               service |-> Replies!Canonical(candidate),
                   confidence |-> confidence,
               human |-> human, source |-> "openai"])
    BY <1>3 DEF Replies!Classify
  <2>1. Replies!Canonical(candidate) \in Replies!Services \union {NoService}
    BY DEF Replies!Canonical
  <2>2. confidence \in Int /\ Minimum \in Int
    BY DEF Replies!ConstantsOK
  <2> QED
    BY <1>1, <2>1, <2>2 DEF Replies!Guarded, Replies!NeedsHuman, Decided
<1> QED
  BY <1>2, <1>3

\* and each step of the pipeline keeps the reply that of its intent.
LEMMA ReplyStep ==
    Replies!ConstantsOK /\ Replies!TypeOK /\ ReplyIsOfIntent
        /\ [Replies!Next]_(Replies!vars) => ReplyIsOfIntent'
PROOF
<1> SUFFICES ASSUME Replies!ConstantsOK, Replies!TypeOK, ReplyIsOfIntent,
                    [Replies!Next]_(Replies!vars)
             PROVE  ReplyIsOfIntent'
  OBVIOUS
<1> USE DEF ReplyIsOfIntent, Replies!RepliesWhateverTheModel, Decided,
            Replies!Services, Replies!environment, Replies!text, Replies!Goto
<1>1. CASE Replies!SaveKey
  BY <1>1 DEF Replies!SaveKey
<1>2. CASE Replies!Create
  BY <1>2 DEF Replies!Create
<1>3. CASE Replies!CreateThrows
  BY <1>3 DEF Replies!CreateThrows
<1>4. CASE Replies!UseStoredKey
  BY <1>4
     DEF Replies!UseStoredKey, Replies!Decrypts, Replies!TypeOK,
         Replies!StoredKeys
<1>5. CASE Replies!UseGlobalKey
  BY <1>5 DEF Replies!UseGlobalKey
<1>6. CASE Replies!UseRules
  BY <1>6, ClassifyDecides DEF Replies!UseRules
<1>7. CASE Replies!Classify
  BY <1>7, ClassifyDecides DEF Replies!Classify
<1>8. CASE Replies!ModelThrows
  BY <1>8, ClassifyDecides DEF Replies!ModelThrows, Replies!FallBack
<1>9. CASE Replies!Book
  <2>1. rCatalogue # <<>> => rCatalogue[1] \in Replies!Services
    <3>1. PICK n \in Nat : rCatalogue \in [1..n -> Names]
      BY CatalogueIsSequence
    <3> QED
      BY <3>1
  <2> QED
    BY <1>9, <2>1 DEF Replies!Book, Replies!Wanted, Replies!Answer
<1>10. CASE Replies!BookNothing
  BY <1>10 DEF Replies!BookNothing
<1>11. CASE Replies!Respond
  <2>1. rResult.intent \in Replies!Intents
    BY DEF Replies!TypeOK, Replies!Results
  <2> QED
    BY <1>11, <2>1 DEF Replies!Respond, Replies!Answer, Replies!Intents
<1>12. CASE Replies!CloseThrows
  BY <1>12 DEF Replies!CloseThrows
<1>13. CASE UNCHANGED Replies!vars
  BY <1>13 DEF Replies!vars
<1> QED
  BY <1>1, <1>2, <1>3, <1>4, <1>5, <1>6, <1>7, <1>8, <1>9, <1>10, <1>11, <1>12,
     <1>13
     DEF Replies!Next

\* The invariant of the pipeline.
LEMMA ReplyInvariant ==
    Replies!ConstantsOK /\ Replies!Spec => []ReplyInv
PROOF
<1>1. Replies!ConstantsOK /\ Replies!Init => ReplyInv
  BY ReplyTypeInit, ReplyInit DEF ReplyInv
<1>2. ReplyInv /\ [Replies!Next]_(Replies!vars) => ReplyInv'
  <2>1. Replies!ConstantsOK => Replies!ConstantsOK'
    BY DEF Replies!ConstantsOK
  <2> QED
    BY <2>1, ReplyTypeStep, ReplyStep DEF ReplyInv
<1> QED
  BY <1>1, <1>2, PTL DEF Replies!Spec

\* What the invariant is for.
LEMMA ReplyImplied ==
    ReplyInv =>
        /\ Replies!ActsOnlyWhenSure
        /\ Replies!BooksOwnService
        /\ Replies!PersonWhenAsked
        /\ Replies!RepliesWhateverTheModel
PROOF
  BY DEF ReplyInv, ReplyIsOfIntent, Decided, Replies!ActsOnlyWhenSure,
         Replies!BooksOwnService, Replies!PersonWhenAsked,
         Replies!RepliesWhateverTheModel, Replies!TypeOK

-----------------------------------------------------------------------------
(* The knowledge a company is loaded with: CompanyKnowledge.                *)

KnowledgeTypes == Knowledge!ConstantsOK /\ Knowledge!TypeOK

\* The base knowledge in front of the panel's is a sequence of sources.
LEMMA SourceAdded ==
    ASSUME NEW s \in Seq(Knowledge!Source), NEW e \in Knowledge!Source
    PROVE  <<e>> \o s \in Seq(Knowledge!Source) /\ Len(<<e>> \o s) = Len(s) + 1
PROOF
<1>1. <<e>> \in Seq(Knowledge!Source) /\ Len(<<e>>) = 1
  OBVIOUS
<1>2. Len(s) \in Nat
  OBVIOUS
<1> QED
  BY <1>1, <1>2, ConcatProperties

\* A source less.
LEMMA SourceRemoved ==
    ASSUME NEW s \in Seq(Knowledge!Source), NEW i \in DOMAIN s
    PROVE  Knowledge!RemoveAt(s, i) \in Seq(Knowledge!Source)
           /\ Len(Knowledge!RemoveAt(s, i)) = Len(s) - 1
PROOF
<1>1. Len(s) \in Nat /\ i \in 1..Len(s)
  OBVIOUS
<1> DEFINE before == SubSeq(s, 1, i - 1)
           after == SubSeq(s, i + 1, Len(s))
<1>2. before \in Seq(Knowledge!Source) /\ Len(before) = i - 1
  <2>1. \A j \in 1..(i - 1) : s[j] \in Knowledge!Source
    BY <1>1
  <2> QED
    BY <1>1, <2>1, SubSeqProperties
<1>3. after \in Seq(Knowledge!Source) /\ Len(after) = Len(s) - i
  <2>1. \A j \in (i + 1)..Len(s) : s[j] \in Knowledge!Source
    BY <1>1
  <2> QED
    BY <1>1, <2>1, SubSeqProperties
<1>4. Knowledge!RemoveAt(s, i) = before \o after
  BY DEF Knowledge!RemoveAt
<1> HIDE DEF before, after
<1>5. /\ before \o after \in Seq(Knowledge!Source)
      /\ Len(before \o after) = Len(before) + Len(after)
  BY <1>2, <1>3, ConcatProperties
<1>6. (i - 1) + (Len(s) - i) = Len(s) - 1
  BY <1>1
<1> QED
  BY <1>2, <1>3, <1>4, <1>5, <1>6

\* The types of the retrieval hold at the start,
LEMMA KnowledgeInit == Knowledge!Init /\ Knowledge!ConstantsOK =>
    Knowledge!TypeOK
PROOF
  BY DEF Knowledge!Init, Knowledge!TypeOK, Knowledge!ConstantsOK

\* and in every step of it.
LEMMA KnowledgeTypeStep == Knowledge!ConstantsOK /\ Knowledge!TypeOK
    /\ [Knowledge!Next]_(Knowledge!vars) => Knowledge!TypeOK'
PROOF
<1> SUFFICES ASSUME Knowledge!ConstantsOK, Knowledge!TypeOK,
                    [Knowledge!Next]_(Knowledge!vars)
             PROVE  Knowledge!TypeOK'
  OBVIOUS
<1>1. Len(kSources) \in Nat /\ kStored \in Nat /\ MaxSources \in Nat
  BY DEF Knowledge!TypeOK, Knowledge!ConstantsOK
<1>2. ASSUME NEW source \in Knowledge!Source, Knowledge!Add(source)
      PROVE  Knowledge!TypeOK'
  BY <1>1, <1>2, SourceAdded DEF Knowledge!TypeOK, Knowledge!Add
<1>3. ASSUME NEW i \in DOMAIN kSources, Knowledge!Delete(i)
      PROVE  Knowledge!TypeOK'
  BY <1>1, <1>3, SourceRemoved DEF Knowledge!TypeOK, Knowledge!Delete
<1>4. CASE Knowledge!AddStored
  BY <1>1, <1>4 DEF Knowledge!TypeOK, Knowledge!AddStored
<1>5. CASE Knowledge!DeleteStored
  BY <1>1, <1>5 DEF Knowledge!TypeOK, Knowledge!DeleteStored
<1>6. CASE UNCHANGED Knowledge!vars
  BY <1>6 DEF Knowledge!vars, Knowledge!TypeOK
<1> QED
  BY <1>2, <1>3, <1>4, <1>5, <1>6 DEF Knowledge!Next

\* The types of the retrieval.
LEMMA KnowledgeInvariant ==
    Knowledge!ConstantsOK /\ Knowledge!Spec => []KnowledgeTypes
PROOF
<1>1. Knowledge!ConstantsOK /\ Knowledge!Init => KnowledgeTypes
  BY KnowledgeInit DEF KnowledgeTypes
<1>2. KnowledgeTypes /\ [Knowledge!Next]_(Knowledge!vars) => KnowledgeTypes'
  <2>1. Knowledge!ConstantsOK => Knowledge!ConstantsOK'
    BY DEF Knowledge!ConstantsOK
  <2> QED
    BY <2>1, KnowledgeTypeStep DEF KnowledgeTypes
<1> QED
  BY <1>1, <1>2, PTL DEF Knowledge!Spec

-----------------------------------------------------------------------------
(* The load as a loop: CompanyKnowledge's Load.                             *)

\* Induction over the turns of a loop.
LEMMA LoopInduction ==
    ASSUME NEW m \in Nat, NEW P, 0 \in P,
           \A n \in 1..m : n - 1 \in P => n \in P
    PROVE  \A n \in 0..m : n \in P
PROOF
<1> DEFINE Bad == (0..m) \ P
<1>1. SUFFICES ASSUME Bad # {} PROVE FALSE
  OBVIOUS
<1>2. PICK k \in Bad : \A j \in Bad : k <= j
  <2>1. Bad \in SUBSET Nat
    OBVIOUS
  <2> HIDE DEF Bad
  <2> QED
    BY <1>1, <2>1, LeastPosition
<1>3. k \in 1..m /\ k - 1 \in 0..m /\ ~(k <= k - 1)
  OBVIOUS
<1>4. k - 1 \in P
  BY <1>2, <1>3
<1> QED
  BY <1>3, <1>4

\* A function can be defined by recursion over the turns of a loop.
LEMMA LoopExists ==
    ASSUME NEW S, NEW base \in S, NEW m \in Nat,
           NEW turn \in [1..m -> [S -> S]]
    PROVE  \E f \in [0..m -> S] :
               /\ f[0] = base
               /\ \A n \in 1..m : f[n] = turn[n][f[n - 1]]
PROOF
<1> DEFINE Upto(k, f) == f[0] = base /\ \A n \in 1..k : f[n] = turn[n][f[n - 1]]
           P == {k \in 0..m : \E f \in [0..k -> S] : Upto(k, f)}
<1>1. 0 \in P
  <2>1. [n \in 0..0 |-> base] \in [0..0 -> S] /\ Upto(0, [n \in 0..0 |-> base])
    OBVIOUS
  <2>2. 0 \in 0..m
    OBVIOUS
  <2> HIDE DEF Upto
  <2> QED
    BY <2>1, <2>2
<1>2. ASSUME NEW k \in 1..m, k - 1 \in P PROVE k \in P
  <2>1. PICK f \in [0..(k - 1) -> S] : Upto(k - 1, f)
    BY <1>2
  <2> DEFINE g == [n \in 0..k |-> IF n = k THEN turn[k][f[k - 1]] ELSE f[n]]
  <2>2. f[k - 1] \in S /\ turn[k][f[k - 1]] \in S
    BY <2>1
  <2>3. g \in [0..k -> S]
    BY <2>1, <2>2
  <2>4. g[0] = base
    BY <2>1
  <2>5. ASSUME NEW n \in 1..k PROVE g[n] = turn[n][g[n - 1]]
    <3>1. g[n - 1] = f[n - 1] /\ k \in 0..k
      OBVIOUS
    <3>2. CASE n = k
      BY <3>1, <3>2
    <3>3. CASE n # k
      <4>1. n \in 1..(k - 1) /\ n \in 0..k
        BY <3>3
      <4> QED
        BY <2>1, <3>1, <3>3, <4>1
    <3> QED
      BY <3>2, <3>3
  <2>6. Upto(k, g) /\ k \in 0..m
    <3> HIDE DEF g
    <3> QED
      BY <2>4, <2>5
  <2> HIDE DEF Upto, g
  <2> QED
    BY <2>3, <2>6
<1>3. m \in P
  <2> HIDE DEF P
  <2>1. \A n \in 0..m : n \in P
    BY <1>1, <1>2, LoopInduction
  <2> QED
    BY <2>1
<1> QED
  BY <1>3

\* How many sources are read.
Read == Len(Knowledge!ReadSources)

\* What an entry holds, and what is loaded after some turns.
Entries == [source : Nat, length : Nat]
Loads == [order : Seq(Titles),
          value : UNION {[ts -> Entries] : ts \in SUBSET Titles},
          remaining : Nat]

\* The sources read are the newest.
LEMMA ReadAreNewest ==
    ASSUME KnowledgeTypes
    PROVE  /\ Read \in Nat /\ Read <= Len(kSources) /\ Len(kSources) \in Nat
           /\ Read = Knowledge!Least(Newest, Len(kSources))
           /\ \A i \in 1..Len(kSources) : kSources[i] \in Knowledge!Source
           /\ \A i \in 1..Read : Knowledge!ReadSources[i] = kSources[i]
           /\ Budget \in Nat
PROOF
<1>1. /\ Len(kSources) \in Nat /\ Newest \in Nat /\ Budget \in Nat
      /\ kSources \in Seq(Knowledge!Source)
  BY DEF KnowledgeTypes, Knowledge!TypeOK, Knowledge!ConstantsOK
<1> DEFINE w == Knowledge!Least(Newest, Len(kSources))
<1>2. w \in Nat /\ w <= Len(kSources)
  BY <1>1 DEF Knowledge!Least
<1>3. \A i \in 1..Len(kSources) : kSources[i] \in Knowledge!Source
  BY <1>1
<1> HIDE DEF w
<1>4. /\ Len(SubSeq(kSources, 1, w)) = w
      /\ \A i \in 1..w : SubSeq(kSources, 1, w)[i] = kSources[i]
  <2>1. \A i \in 1..w : kSources[i] \in Knowledge!Source
    BY <1>1, <1>2, <1>3
  <2> QED
    BY <1>1, <1>2, <2>1
<1>5. Knowledge!ReadSources = SubSeq(kSources, 1, w)
  BY DEF Knowledge!ReadSources, w
<1> QED
  BY <1>1, <1>2, <1>3, <1>4, <1>5 DEF Read, w

\* Lengths are positive numbers, titles are titles.
LEMMA SourceFields ==
    ASSUME KnowledgeTypes, NEW i \in 1..Len(kSources)
    PROVE  /\ kSources[i].title \in Titles
           /\ kSources[i].length \in Nat /\ kSources[i].length > 0
PROOF
<1>1. kSources[i] \in Knowledge!Source
  BY ReadAreNewest
<1>2. kSources[i].title \in Titles /\ kSources[i].length \in Lengths
  BY <1>1 DEF Knowledge!Source
<1>3. Lengths \subseteq Nat \ {0}
  BY DEF KnowledgeTypes, Knowledge!ConstantsOK
<1>4. kSources[i].length \in Nat /\ kSources[i].length # 0
  BY <1>2, <1>3
<1> QED
  BY <1>2, <1>4

\* The sum of the lengths.
LEMMA TotalIsSum ==
    ASSUME KnowledgeTypes
    PROVE  /\ Knowledge!Total \in [0..Len(kSources) -> Nat]
           /\ Knowledge!Total[0] = 0
           /\ \A n \in 1..Len(kSources) :
                  Knowledge!Total[n] = Knowledge!Total[n - 1] + kSources[n].length
PROOF
<1> DEFINE m == Len(kSources)
           S == Nat
           turn == [n \in 1..m |-> [x \in S |-> x + kSources[n].length]]
           Def(f) == [n \in 0..m |-> IF n = 0 THEN 0 ELSE f[n - 1] + kSources[n].length]
<1>1. m \in Nat
  BY ReadAreNewest
<1>2. 0 \in S /\ turn \in [1..m -> [S -> S]]
  BY SourceFields
<1>3. PICK f \in [0..m -> S] :
         f[0] = 0 /\ \A n \in 1..m : f[n] = turn[n][f[n - 1]]
  <2> HIDE DEF turn, m, S
  <2> QED
    BY <1>1, <1>2, LoopExists
<1>4. \A n \in 1..m : f[n] = f[n - 1] + kSources[n].length
  <2> TAKE n \in 1..m
  <2>1. n - 1 \in 0..m
    BY <1>1
  <2> QED
    BY <1>3, <2>1
<1>5. f = Def(f)
  BY <1>1, <1>3, <1>4
<1>6. Knowledge!Total = CHOOSE h : h = Def(h)
  BY DEF Knowledge!Total
<1>7. Knowledge!Total = Def(Knowledge!Total)
  <2> HIDE DEF Def
  <2> QED
    BY <1>5, <1>6, Zenon
<1> DEFINE total == Knowledge!Total
<1>8. total = [n \in 0..m |-> IF n = 0 THEN 0 ELSE total[n - 1] + kSources[n].length]
  BY <1>7
<1> HIDE DEF total
<1>9. /\ DOMAIN total = 0..m
      /\ total[0] = 0
      /\ \A n \in 1..m : total[n] = total[n - 1] + kSources[n].length
  <2> HIDE DEF m
  <2>1. 0 \in 0..m /\ \A n \in 1..m : n \in 0..m /\ n # 0
    BY <1>1
  <2> QED
    BY <1>8, <2>1
<1> DEFINE P == {n \in 0..m : total[n] \in Nat}
<1>10. 0 \in P
  BY <1>1, <1>9
<1>11. ASSUME NEW n \in 1..m, n - 1 \in P PROVE n \in P
  <2>1. total[n - 1] \in Nat /\ n \in 0..m
    BY <1>11
  <2>2. kSources[n].length \in Nat
    BY SourceFields
  <2> QED
    BY <1>9, <2>1, <2>2
<1>12. \A n \in 0..m : n \in P
  <2> HIDE DEF P, m
  <2> QED
    BY <1>1, <1>10, <1>11, LoopInduction
<1>13. total \in [0..m -> Nat]
  BY <1>8, <1>12
<1> QED
  BY <1>9, <1>13 DEF total

\* The title of a source.
Title(i) == kSources[i].title

\* What a turn writes.
Taken(l, n) == Knowledge!Least(kSources[n].length, l.remaining)

OrderAfter(l, n) ==
    IF Knowledge!Contains(l.order, Title(n)) THEN l.order
    ELSE Append(l.order, Title(n))

ValueAfter(l, n) ==
    [t \in DOMAIN l.value \union {Title(n)} |->
        IF t = Title(n) THEN [source |-> n, length |-> Taken(l, n)] ELSE l.value[t]]

\* A turn assigns a title or leaves what is loaded.
LEMMA TurnAssigns ==
    ASSUME KnowledgeTypes, NEW l \in Loads, NEW n \in 1..Read
    PROVE  /\ Knowledge!TakeSource(l, n) =
                  IF Taken(l, n) = 0 THEN l
                  ELSE [order |-> OrderAfter(l, n), value |-> ValueAfter(l, n),
                        remaining |-> l.remaining - Taken(l, n)]
           /\ Knowledge!TakeSource(l, n) \in Loads
PROOF
<1> DEFINE entry == [source |-> n, length |-> Taken(l, n)]
<1>1. /\ n \in Nat /\ n \in 1..Len(kSources)
      /\ Title(n) \in Titles /\ kSources[n].length \in Nat
      /\ Knowledge!ReadSources[n] = kSources[n]
  BY ReadAreNewest, SourceFields DEF Title
<1>2. /\ l.order \in Seq(Titles) /\ l.remaining \in Nat
      /\ DOMAIN l.value \in SUBSET Titles
      /\ l.value \in [DOMAIN l.value -> Entries]
      /\ l = [order |-> l.order, value |-> l.value, remaining |-> l.remaining]
  BY DEF Loads
<1>3. /\ Taken(l, n) \in Nat /\ Taken(l, n) <= l.remaining
      /\ l.remaining - Taken(l, n) \in Nat
  BY <1>1, <1>2 DEF Knowledge!Least, Taken
<1>4. entry \in Entries
  BY <1>1, <1>3 DEF Entries
<1>5. OrderAfter(l, n) \in Seq(Titles)
  BY <1>1, <1>2 DEF OrderAfter
<1>6. ValueAfter(l, n) \in UNION {[ts -> Entries] : ts \in SUBSET Titles}
  <2> DEFINE ts == DOMAIN l.value \union {Title(n)}
  <2>1. ts \in SUBSET Titles
    BY <1>1, <1>2
  <2>2. ValueAfter(l, n) \in [ts -> Entries]
    BY <1>2, <1>4 DEF ValueAfter
  <2> QED
    BY <2>1, <2>2
<1>7. Knowledge!TakeSource(l, n) =
          IF Taken(l, n) = 0 THEN l
          ELSE [order |-> OrderAfter(l, n), value |-> ValueAfter(l, n),
                remaining |-> l.remaining - Taken(l, n)]
  <2>1. Knowledge!TakeSource(l, n) =
            IF Taken(l, n) = 0 THEN l ELSE Knowledge!Assign(l, Title(n), entry)
    BY <1>1 DEF Knowledge!TakeSource, Knowledge!Excerpt, Taken, Title
  <2>2. Knowledge!Assign(l, Title(n), entry) =
            [l EXCEPT !.order = OrderAfter(l, n), !.value = ValueAfter(l, n),
                      !.remaining = l.remaining - entry.length]
    BY DEF Knowledge!Assign, OrderAfter, ValueAfter
  <2>3. entry.length = Taken(l, n)
    OBVIOUS
  <2> HIDE DEF entry
  <2> QED
    BY <1>2, <2>1, <2>2, <2>3
<1> QED
  BY <1>3, <1>5, <1>6, <1>7 DEF Loads

\* Loaded is the loop.
LEMMA LoadedIsLoop ==
    ASSUME KnowledgeTypes
    PROVE  /\ Knowledge!Loaded[0] = Knowledge!OwnEntries
           /\ \A n \in 1..Read :
                  Knowledge!Loaded[n] = Knowledge!TakeSource(Knowledge!Loaded[n - 1], n)
           /\ Knowledge!OwnEntries \in Loads
PROOF
<1> DEFINE S == Loads
           m == Read
           base == Knowledge!OwnEntries
           turn == [n \in 1..m |-> [l \in S |-> Knowledge!TakeSource(l, n)]]
           Def(f) == [n \in 0..m |->
                        IF n = 0 THEN base ELSE Knowledge!TakeSource(f[n - 1], n)]
<1>1. m \in Nat
  BY ReadAreNewest
<1>2. base \in S
  <2>1. Own \in Seq(Titles) /\ Budget \in Nat
    BY DEF KnowledgeTypes, Knowledge!ConstantsOK
  <2>2. Knowledge!ToSet(Own) \in SUBSET Titles
    BY <2>1 DEF Knowledge!ToSet
  <2> DEFINE value == [t \in Knowledge!ToSet(Own) |-> [source |-> 0, length |-> 0]]
  <2>3. value \in [Knowledge!ToSet(Own) -> Entries]
    BY DEF Entries
  <2>4. value \in UNION {[ts -> Entries] : ts \in SUBSET Titles}
    BY <2>2, <2>3
  <2> HIDE DEF value
  <2>5. base = [order |-> Own, value |-> value, remaining |-> Budget]
    BY DEF Knowledge!OwnEntries, value
  <2> QED
    BY <2>1, <2>4, <2>5 DEF Loads
<1>3. turn \in [1..m -> [S -> S]]
  BY TurnAssigns
<1>4. PICK f \in [0..m -> S] :
         f[0] = base /\ \A n \in 1..m : f[n] = turn[n][f[n - 1]]
  <2> HIDE DEF turn, m, S, base
  <2> QED
    BY <1>1, <1>2, <1>3, LoopExists
<1>5. \A n \in 1..m : f[n] = Knowledge!TakeSource(f[n - 1], n)
  <2> TAKE n \in 1..m
  <2>1. n - 1 \in 0..m
    BY <1>1
  <2> HIDE DEF S, m
  <2> QED
    BY <1>4, <2>1
<1>6. f = Def(f)
  <2> HIDE DEF S, m, base
  <2> QED
    BY <1>1, <1>4, <1>5
<1>7. Knowledge!Loaded = CHOOSE h : h = Def(h)
  BY DEF Knowledge!Loaded, Read
<1>8. Knowledge!Loaded = Def(Knowledge!Loaded)
  <2> HIDE DEF Def
  <2> QED
    BY <1>6, <1>7, Zenon
<1> DEFINE loaded == Knowledge!Loaded
<1>9. loaded = [n \in 0..m |->
                  IF n = 0 THEN base ELSE Knowledge!TakeSource(loaded[n - 1], n)]
  BY <1>8
<1> HIDE DEF loaded, m, base
<1>10. 0 \in 0..m /\ \A n \in 1..m : n \in 0..m /\ n # 0
  BY <1>1
<1>11. /\ loaded[0] = base
       /\ \A n \in 1..m : loaded[n] = Knowledge!TakeSource(loaded[n - 1], n)
  BY <1>9, <1>10
<1> QED
  BY <1>2, <1>11 DEF loaded, m, base

\* The budget that is left.
LEMMA LeftIsRest ==
    ASSUME KnowledgeTypes
    PROVE  /\ Knowledge!Left(0) = Budget
           /\ \A n \in 0..Len(kSources) : Knowledge!Left(n) \in Nat
           /\ \A n \in 1..Len(kSources) :
                /\ Knowledge!Room(n) \in Nat
                /\ Knowledge!Room(n) =
                       Knowledge!Least(kSources[n].length, Knowledge!Left(n - 1))
                /\ Knowledge!Left(n) = Knowledge!Left(n - 1) - Knowledge!Room(n)
PROOF
<1>1. Budget \in Nat /\ Len(kSources) \in Nat
  BY ReadAreNewest
<1>2. \A n \in 0..Len(kSources) : Knowledge!Total[n] \in Nat
  BY TotalIsSum
<1>3. \A n \in 0..Len(kSources) : Knowledge!Left(n) \in Nat
  BY <1>1, <1>2 DEF Knowledge!Left
<1>4. Knowledge!Left(0) = Budget
  BY <1>1, TotalIsSum DEF Knowledge!Left
<1>5. ASSUME NEW n \in 1..Len(kSources)
      PROVE  /\ Knowledge!Room(n) \in Nat
             /\ Knowledge!Left(n) = Knowledge!Left(n - 1) - Knowledge!Room(n)
  <2>1. /\ n - 1 \in 0..Len(kSources) /\ n \in 0..Len(kSources)
        /\ Knowledge!Total[n] = Knowledge!Total[n - 1] + kSources[n].length
        /\ kSources[n].length \in Nat
    BY <1>1, TotalIsSum, SourceFields
  <2>2. Knowledge!Total[n] \in Nat /\ Knowledge!Total[n - 1] \in Nat
    BY <1>2, <2>1
  <2> DEFINE before == Knowledge!Total[n - 1]
             length == kSources[n].length
             left == IF before < Budget THEN Budget - before ELSE 0
             room == IF length < left THEN length ELSE left
             after == IF before + length < Budget
                      THEN Budget - (before + length) ELSE 0
  <2>3. /\ Knowledge!Left(n - 1) = left /\ Knowledge!Left(n) = after
        /\ Knowledge!Room(n) = room
    BY <2>1 DEF Knowledge!Left, Knowledge!Room, Knowledge!Least
  <2>4. before \in Nat /\ length \in Nat
    BY <2>1, <2>2
  <2> HIDE DEF before, length
  <2>5. room \in Nat /\ after = left - room
    BY <1>1, <2>4
  <2> QED
    BY <2>3, <2>5
<1> QED
  BY <1>3, <1>4, <1>5 DEF Knowledge!Room

\* What a title is known by after n turns: the company's own entry, as long as
\* there was room for none of its sources, or else the oldest of those.
ValueIs(n, t, entry) ==
    \/ /\ entry.source = 0
       /\ t \in Knowledge!ToSet(Own)
       /\ \A i \in 1..n : Title(i) = t => Knowledge!Room(i) = 0
    \/ /\ entry.source \in 1..n /\ Title(entry.source) = t
       /\ Knowledge!Room(entry.source) > 0
       /\ entry.length = Knowledge!Room(entry.source)
       /\ \A i \in 1..n : Title(i) = t /\ Knowledge!Room(i) > 0 => i <= entry.source

\* The order after n turns: the own entries, then titles of sources, each after
\* those that have a newer source.
OrderIs(n, order) ==
    /\ Len(Own) <= Len(order)
    /\ \A p \in 1..Len(Own) : order[p] = Own[p]
    /\ \A p \in (Len(Own) + 1)..Len(order) :
        /\ order[p] \notin Knowledge!ToSet(Own)
        /\ \E j \in 1..n : Title(j) = order[p]
    /\ \A q \in 1..Len(order), p \in (Len(Own) + 1)..Len(order), i \in 1..n :
        p < q /\ Title(i) = order[q] /\ Knowledge!Room(i) > 0 =>
            \E j \in 1..i : Title(j) = order[p]

\* The invariant of the loop.
KnownAfter(n, l) ==
    /\ l.remaining = Knowledge!Left(n)
    /\ DOMAIN l.value = {l.order[p] : p \in 1..Len(l.order)}
    /\ OrderIs(n, l.order)
    /\ \A i \in 1..n : Knowledge!Room(i) > 0 => Title(i) \in DOMAIN l.value
    /\ \A t \in DOMAIN l.value : ValueIs(n, t, l.value[t])

\* The own entries are known before the first turn.
LEMMA FirstKnown ==
    ASSUME KnowledgeTypes
    PROVE  KnownAfter(0, Knowledge!OwnEntries)
PROOF
<1> DEFINE l == Knowledge!OwnEntries
<1>1. Own \in Seq(Titles)
  BY DEF KnowledgeTypes, Knowledge!ConstantsOK
<1>2. /\ l.order = Own /\ l.remaining = Budget
      /\ DOMAIN l.value = Knowledge!ToSet(Own)
      /\ \A t \in Knowledge!ToSet(Own) : l.value[t].source = 0
  BY DEF Knowledge!OwnEntries
<1>3. Len(Own) \in Nat /\ DOMAIN Own = 1..Len(Own)
  BY <1>1
<1>4. Knowledge!ToSet(Own) = {Own[p] : p \in 1..Len(Own)}
  BY <1>3 DEF Knowledge!ToSet
<1>5. OrderIs(0, l.order)
  BY <1>2, <1>3 DEF OrderIs
<1>6. \A t \in DOMAIN l.value : ValueIs(0, t, l.value[t])
  BY <1>2 DEF ValueIs
<1> HIDE DEF l
<1> QED
  BY <1>2, <1>4, <1>5, <1>6, LeftIsRest DEF KnownAfter, l

\* A turn without room changes nothing.
LEMMA EmptyTurn ==
    ASSUME KnowledgeTypes, NEW n \in 1..Read, NEW l \in Loads,
           KnownAfter(n - 1, l), Knowledge!Room(n) = 0
    PROVE  KnownAfter(n, l)
PROOF
<1>1. /\ n \in Nat /\ n - 1 \in Nat /\ n \in 1..Len(kSources)
      /\ \A i \in 1..n : i = n \/ i \in 1..(n - 1)
      /\ 1..(n - 1) \subseteq 1..n
  BY ReadAreNewest
<1>2. Knowledge!Left(n) = Knowledge!Left(n - 1)
  BY <1>1, LeftIsRest
<1>3. OrderIs(n, l.order)
  <2>1. OrderIs(n - 1, l.order)
    BY DEF KnownAfter
  <2> QED
    BY <1>1, <2>1, SMTT(30) DEF OrderIs
<1>4. \A t \in DOMAIN l.value : ValueIs(n, t, l.value[t])
  <2> TAKE t \in DOMAIN l.value
  <2>1. ValueIs(n - 1, t, l.value[t])
    BY DEF KnownAfter
  <2> QED
    BY <1>1, <2>1 DEF ValueIs
<1>5. \A i \in 1..n : Knowledge!Room(i) > 0 => Title(i) \in DOMAIN l.value
  BY <1>1 DEF KnownAfter
<1> QED
  BY <1>2, <1>3, <1>4, <1>5 DEF KnownAfter

\* A turn with room makes its title known by its source, and appends a title
\* that was not known.
LEMMA FullTurn ==
    ASSUME KnowledgeTypes, NEW n \in 1..Read, NEW l \in Loads,
           KnownAfter(n - 1, l), Knowledge!Room(n) > 0,
           Taken(l, n) = Knowledge!Room(n)
    PROVE  KnownAfter(n, [order |-> OrderAfter(l, n), value |-> ValueAfter(l, n),
                          remaining |-> l.remaining - Taken(l, n)])
PROOF
<1> DEFINE order == OrderAfter(l, n)
           value == ValueAfter(l, n)
<1>1. /\ n \in Nat /\ n - 1 \in Nat /\ n \in 1..Len(kSources)
      /\ \A i \in 1..n : i = n \/ i \in 1..(n - 1)
      /\ 1..(n - 1) \subseteq 1..n
      /\ Title(n) \in Titles
  BY ReadAreNewest, SourceFields DEF Title
<1>2. /\ l.remaining - Taken(l, n) = Knowledge!Left(n)
  BY <1>1, LeftIsRest DEF KnownAfter
<1>3. /\ l.order \in Seq(Titles) /\ Len(l.order) \in Nat
      /\ Own \in Seq(Titles) /\ Len(Own) \in Nat /\ Len(Own) <= Len(l.order)
  BY DEF Loads, KnowledgeTypes, Knowledge!ConstantsOK, KnownAfter, OrderIs
<1>4. DOMAIN value = DOMAIN l.value \union {Title(n)}
  BY DEF ValueAfter
<1>5. DOMAIN l.value = {l.order[p] : p \in 1..Len(l.order)}
  BY DEF KnownAfter
<1>6. /\ DOMAIN value = {order[p] : p \in 1..Len(order)}
      /\ OrderIs(n, order)
  <2>0. OrderIs(n - 1, l.order)
    BY DEF KnownAfter
  <2>1. CASE Title(n) \in DOMAIN l.value
    <3>1. order = l.order
      BY <1>5, <2>1 DEF OrderAfter, Knowledge!Contains
    <3> HIDE DEF order
    <3>2. ASSUME NEW q \in 1..Len(order), NEW p \in (Len(Own) + 1)..Len(order),
                 NEW i \in 1..n, p < q, Title(i) = order[q], Knowledge!Room(i) > 0
          PROVE  \E j \in 1..i : Title(j) = order[p]
      <4>1. \E j \in 1..(n - 1) : Title(j) = order[p]
        BY <2>0, <3>1 DEF OrderIs
      <4>2. CASE i = n
        BY <1>1, <4>1, <4>2
      <4>3. CASE i \in 1..(n - 1)
        <5>1. Title(i) = l.order[q] /\ Knowledge!Room(i) > 0 /\ p < q
          BY <3>1, <3>2
        <5>2. q \in 1..Len(l.order) /\ p \in (Len(Own) + 1)..Len(l.order)
          BY <3>1, <3>2
        <5> QED
          BY <2>0, <3>1, <4>3, <5>1, <5>2 DEF OrderIs
      <4> QED
        BY <1>1, <4>2, <4>3
    <3>3. DOMAIN value = {order[p] : p \in 1..Len(order)}
      BY <1>4, <1>5, <2>1, <3>1
    <3> QED
      BY <1>1, <2>0, <3>1, <3>2, <3>3 DEF OrderIs
  <2>2. CASE Title(n) \notin DOMAIN l.value
    <3>1. order = Append(l.order, Title(n))
      BY <1>5, <2>2 DEF OrderAfter, Knowledge!Contains
    <3> DEFINE k == Len(l.order)
    <3>2. /\ Len(order) = k + 1
          /\ \A p \in 1..k : order[p] = l.order[p]
          /\ order[k + 1] = Title(n)
      BY <1>1, <1>3, <3>1
    <3> HIDE DEF order, k
    <3>3. DOMAIN value = {order[p] : p \in 1..Len(order)}
      <4>1. 1..Len(order) = 1..k \union {k + 1} /\ k \in Nat
        BY <1>3, <3>2 DEF k
      <4>2. DOMAIN l.value = {order[p] : p \in 1..k}
        BY <1>5, <3>2 DEF k
      <4> QED
        BY <1>4, <3>2, <4>1, <4>2
    <3>4. ASSUME NEW p \in (Len(Own) + 1)..Len(order)
          PROVE  /\ order[p] \notin Knowledge!ToSet(Own)
                 /\ \E j \in 1..n : Title(j) = order[p]
                 /\ p \in 1..k => \E j \in 1..(n - 1) : Title(j) = order[p]
      <4>1. CASE p = k + 1
        <5>1. Title(n) \notin Knowledge!ToSet(Own)
          <6> SUFFICES ASSUME NEW x \in DOMAIN Own, Own[x] = Title(n) PROVE FALSE
            BY DEF Knowledge!ToSet
          <6>1. x \in 1..Len(Own) /\ x \in 1..Len(l.order)
            BY <1>3
          <6>2. l.order[x] = Title(n)
            BY <2>0, <6>1 DEF OrderIs
          <6> QED
            BY <1>5, <2>2, <6>1, <6>2
        <5> QED
          BY <1>1, <1>3, <3>2, <4>1, <5>1 DEF k
      <4>2. CASE p # k + 1
        <5>1. p \in (Len(Own) + 1)..k /\ p \in 1..k
          BY <1>3, <3>2, <4>2 DEF k
        <5> QED
          BY <1>1, <2>0, <3>2, <5>1 DEF OrderIs, k
      <4> QED
        BY <4>1, <4>2
    <3>5. ASSUME NEW q \in 1..Len(order), NEW p \in (Len(Own) + 1)..Len(order),
                 NEW i \in 1..n, p < q, Title(i) = order[q], Knowledge!Room(i) > 0
          PROVE  \E j \in 1..i : Title(j) = order[p]
      <4>1. p \in 1..k
        BY <1>3, <3>2, <3>5 DEF k
      <4>2. CASE i = n
        BY <1>1, <3>4, <4>1, <4>2
      <4>3. CASE i \in 1..(n - 1)
        <5>1. Title(i) \in DOMAIN l.value
          BY <3>5, <4>3 DEF KnownAfter
        <5>2. q \in 1..k
          BY <1>3, <2>2, <3>2, <3>5, <5>1 DEF k
        <5>3. p \in (Len(Own) + 1)..k
          BY <1>3, <4>1 DEF k
        <5>4. Title(i) = l.order[q] /\ l.order[p] = order[p]
          BY <3>2, <3>5, <4>1, <5>2
        <5>5. q \in 1..Len(l.order) /\ p \in (Len(Own) + 1)..Len(l.order)
          BY <5>2, <5>3 DEF k
        <5>6. Knowledge!Room(i) > 0 /\ p < q
          BY <3>5
        <5>7. \E j \in 1..i : Title(j) = l.order[p]
          BY <2>0, <4>3, <5>4, <5>5, <5>6 DEF OrderIs
        <5> QED
          BY <5>4, <5>7
      <4> QED
        BY <1>1, <4>2, <4>3
    <3>6. /\ Len(Own) <= Len(order)
          /\ \A p \in 1..Len(Own) : order[p] = Own[p]
      BY <1>3, <2>0, <3>2, SMTT(30) DEF OrderIs, k
    <3> QED
      BY <3>3, <3>4, <3>5, <3>6 DEF OrderIs
  <2> QED
    BY <2>1, <2>2
<1>7. \A i \in 1..n : Knowledge!Room(i) > 0 => Title(i) \in DOMAIN value
  BY <1>1, <1>4 DEF KnownAfter
<1>8. \A t \in DOMAIN value : ValueIs(n, t, value[t])
  <2> TAKE t \in DOMAIN value
  <2>1. CASE t = Title(n)
    <3>1. value[t].source = n /\ value[t].length = Knowledge!Room(n)
      BY <2>1 DEF ValueAfter
    <3> QED
      BY <1>1, <2>1, <3>1 DEF ValueIs
  <2>2. CASE t # Title(n)
    <3>1. value[t] = l.value[t] /\ t \in DOMAIN l.value
      BY <1>4, <2>2 DEF ValueAfter
    <3>2. ValueIs(n - 1, t, l.value[t])
      BY <3>1 DEF KnownAfter
    <3> QED
      BY <1>1, <2>2, <3>1, <3>2 DEF ValueIs
  <2> QED
    BY <2>1, <2>2
<1> HIDE DEF order, value
<1> QED
  BY <1>2, <1>6, <1>7, <1>8 DEF KnownAfter, order, value

\* The loop keeps its invariant to its end.
LEMMA LoopInvariant ==
    ASSUME KnowledgeTypes
    PROVE  Knowledge!Load \in Loads /\ KnownAfter(Read, Knowledge!Load)
PROOF
<1> DEFINE loaded == Knowledge!Loaded
           P == {n \in 0..Read : loaded[n] \in Loads /\ KnownAfter(n, loaded[n])}
<1>1. Read \in Nat
  BY ReadAreNewest
<1>2. 0 \in P
  BY <1>1, LoadedIsLoop, FirstKnown
<1>3. ASSUME NEW n \in 1..Read, n - 1 \in P PROVE n \in P
  <2> DEFINE l == loaded[n - 1]
  <2>1. l \in Loads /\ KnownAfter(n - 1, l) /\ n \in 0..Read
    BY <1>3
  <2>2. loaded[n] = Knowledge!TakeSource(l, n)
    BY LoadedIsLoop
  <2> HIDE DEF l
  <2>3. Taken(l, n) = Knowledge!Room(n) /\ Knowledge!Room(n) \in Nat
    <3>1. n \in 1..Len(kSources)
      BY ReadAreNewest
    <3> QED
      BY <2>1, <3>1, LeftIsRest DEF KnownAfter, Taken
  <2>4. Knowledge!TakeSource(l, n) \in Loads
    BY <2>1, TurnAssigns
  <2>5. KnownAfter(n, Knowledge!TakeSource(l, n))
    <3>1. CASE Knowledge!Room(n) = 0
      <4>1. Knowledge!TakeSource(l, n) = l
        BY <2>1, <2>3, <3>1, TurnAssigns
      <4> QED
        BY <2>1, <3>1, <4>1, EmptyTurn
    <3>2. CASE Knowledge!Room(n) > 0
      <4>1. Knowledge!TakeSource(l, n) =
              [order |-> OrderAfter(l, n), value |-> ValueAfter(l, n),
               remaining |-> l.remaining - Taken(l, n)]
        BY <2>1, <2>3, <3>2, TurnAssigns
      <4> QED
        BY <2>1, <2>3, <3>2, <4>1, FullTurn
    <3> QED
      BY <2>3, <3>1, <3>2
  <2> QED
    BY <2>1, <2>2, <2>4, <2>5
<1>4. Read \in P
  <2> HIDE DEF P
  <2>1. \A n \in 0..Read : n \in P
    BY <1>1, <1>2, <1>3, LoopInduction
  <2> QED
    BY <1>1, <2>1
<1> QED
  BY <1>4 DEF Knowledge!Load, Read

\* What is loaded is exact.
LEMMA LoadExact == KnowledgeTypes => Knowledge!LoadIsExact
PROOF
<1> SUFFICES ASSUME KnowledgeTypes PROVE Knowledge!LoadIsExact
  OBVIOUS
<1> DEFINE l == Knowledge!Load
<1>1. l \in Loads /\ KnownAfter(Read, l)
  BY LoopInvariant
<1>2. Knowledge!Window = 1..Read
  BY ReadAreNewest DEF Knowledge!Window
<1> HIDE DEF l
<1>3. l.remaining >= 0
  BY <1>1 DEF Loads
<1>4. ASSUME NEW i \in 1..Read, Knowledge!Room(i) > 0
      PROVE  /\ Title(i) \in DOMAIN l.value
             /\ l.value[Title(i)].source \in Knowledge!Namesakes(i)
             /\ \A j \in Knowledge!Namesakes(i) : j <= l.value[Title(i)].source
             /\ l.value[Title(i)].length = Knowledge!Room(l.value[Title(i)].source)
  <2>1. Title(i) \in DOMAIN l.value
    BY <1>1, <1>4 DEF KnownAfter
  <2>2. ValueIs(Read, Title(i), l.value[Title(i)])
    BY <1>1, <2>1 DEF KnownAfter
  <2>3. Knowledge!Namesakes(i) =
            {j \in 1..Read : Title(j) = Title(i) /\ Knowledge!Room(j) > 0}
    BY <1>2 DEF Knowledge!Namesakes, Title
  <2>4. Knowledge!Room(i) # 0
    BY <1>4
  <2> QED
    BY <1>4, <2>1, <2>2, <2>3, <2>4 DEF ValueIs
<1>5. ASSUME NEW t \in DOMAIN l.value, l.value[t].source = 0,
             NEW i \in 1..Read, Title(i) = t
      PROVE  Knowledge!Room(i) = 0
  <2>1. ValueIs(Read, t, l.value[t])
    BY <1>1 DEF KnownAfter
  <2>2. 0 \notin 1..Read
    BY ReadAreNewest
  <2> QED
    BY <1>5, <2>1, <2>2 DEF ValueIs
<1> QED
  BY <1>2, <1>3, <1>4, <1>5 DEF Knowledge!LoadIsExact, Knowledge!Known, Title, l

\* FirstNamed finds the first entry that is named.
LEMMA FirstIsFirst ==
    ASSUME KnowledgeTypes, NEW named,
           NEW q \in 1..Len(Knowledge!Load.order), Knowledge!Load.order[q] \in named
    PROVE  LET order == Knowledge!Load.order
               p     == Knowledge!FirstNamed(named)
           IN  /\ p \in 1..Len(order) /\ order[p] \in named
               /\ \A r \in 1..Len(order) : order[r] \in named => p <= r
PROOF
<1> DEFINE order == Knowledge!Load.order
           S == {r \in 1..Len(order) : order[r] \in named}
<1>1. q \in S /\ S \in SUBSET Nat
  BY LoopInvariant DEF Loads
<1>2. PICK p \in S : \A r \in S : p <= r
  <2> HIDE DEF S
  <2> QED
    BY <1>1, LeastPosition
<1>3. Knowledge!FirstNamed(named) = CHOOSE x \in S : \A y \in S : x <= y
  BY <1>1 DEF Knowledge!FirstNamed, Knowledge!SelectInSeq, Knowledge!Min
<1>4. /\ Knowledge!FirstNamed(named) \in S
      /\ \A r \in S : Knowledge!FirstNamed(named) <= r
  <2> HIDE DEF S
  <2> QED
    BY <1>2, <1>3, Zenon
<1> QED
  BY <1>4

\* A question that names a title is answered from a text of it.
LEMMA FaqAnswers == KnowledgeTypes => Knowledge!FaqAnswersWhatIsNamed
PROOF
<1> SUFFICES ASSUME KnowledgeTypes, NEW named \in SUBSET Titles,
                    NEW u \in named, Knowledge!Known(u)
             PROVE  IF \E t \in named : t \in Knowledge!ToSet(Own)
                    THEN \E t \in named \intersect Knowledge!ToSet(Own) :
                            Knowledge!FaqAnswer(named) = Knowledge!Load.value[t]
                    ELSE /\ kSources[Knowledge!FaqAnswer(named).source].title \in named
                         /\ \A i \in Knowledge!Window :
                              kSources[i].title \in named /\ Knowledge!Room(i) > 0 =>
                                \E j \in 1..i :
                                    kSources[j].title =
                                      kSources[Knowledge!FaqAnswer(named).source].title
  BY DEF Knowledge!FaqAnswersWhatIsNamed
<1> DEFINE l == Knowledge!Load
           p == Knowledge!FirstNamed(named)
           Named(t) == t \in Knowledge!ToSet(Own)
<1>1. l \in Loads /\ KnownAfter(Read, l)
  BY LoopInvariant
<1>2. Knowledge!Window = 1..Read /\ Read \in Nat
  BY ReadAreNewest DEF Knowledge!Window
<1>3. /\ DOMAIN l.value = {l.order[q] : q \in 1..Len(l.order)}
      /\ OrderIs(Read, l.order)
      /\ Len(l.order) \in Nat /\ Len(Own) \in Nat /\ DOMAIN Own = 1..Len(Own)
  BY <1>1 DEF KnownAfter, Loads, KnowledgeTypes, Knowledge!ConstantsOK
<1>4. PICK q \in 1..Len(l.order) : l.order[q] = u
  BY <1>3 DEF Knowledge!Known
<1>5. /\ p \in 1..Len(l.order) /\ l.order[p] \in named
      /\ \A r \in 1..Len(l.order) : l.order[r] \in named => p <= r
  BY <1>4, FirstIsFirst
<1>6. Knowledge!FaqAnswer(named) = l.value[l.order[p]]
  BY DEF Knowledge!FaqAnswer
<1> HIDE DEF l, p
<1>7. CASE \E t \in named : t \in Knowledge!ToSet(Own)
  <2>1. PICK x \in 1..Len(Own) : Own[x] \in named
    BY <1>3, <1>7 DEF Knowledge!ToSet
  <2>2. x \in 1..Len(l.order) /\ l.order[x] = Own[x]
    BY <1>3, <2>1 DEF OrderIs
  <2>3. p <= x
    BY <1>5, <2>1, <2>2
  <2>4. p \in 1..Len(Own)
    BY <1>3, <1>5, <2>1, <2>3
  <2>5. l.order[p] \in Knowledge!ToSet(Own)
    BY <1>3, <2>4 DEF OrderIs, Knowledge!ToSet
  <2> QED
    BY <1>5, <1>6, <1>7, <2>5 DEF l
<1>8. CASE ~ \E t \in named : t \in Knowledge!ToSet(Own)
  <2> DEFINE t == l.order[p]
  <2>1. t \notin Knowledge!ToSet(Own)
    BY <1>5, <1>8
  <2>2. p \in (Len(Own) + 1)..Len(l.order)
    <3>1. p \notin 1..Len(Own)
      BY <1>3, <2>1 DEF OrderIs, Knowledge!ToSet
    <3> QED
      BY <1>3, <1>5, <3>1
  <2>3. t \in DOMAIN l.value
    BY <1>3, <1>5
  <2>4. Title(l.value[t].source) = t
    <3>1. ValueIs(Read, t, l.value[t])
      BY <1>1, <2>3 DEF KnownAfter
    <3> QED
      BY <2>1, <3>1 DEF ValueIs
  <2>5. ASSUME NEW i \in 1..Read, Title(i) \in named, Knowledge!Room(i) > 0
        PROVE  \E j \in 1..i : Title(j) = t
    <3>1. Title(i) \in DOMAIN l.value
      BY <1>1, <2>5 DEF KnownAfter
    <3>2. PICK r \in 1..Len(l.order) : l.order[r] = Title(i)
      BY <1>3, <3>1
    <3>3. p <= r
      BY <1>5, <2>5, <3>2
    <3>4. CASE p = r
      BY <1>2, <3>2, <3>4
    <3>5. CASE p # r
      <4>1. p < r
        BY <1>5, <3>3, <3>5
      <4> QED
        BY <1>3, <2>2, <2>5, <3>2, <4>1 DEF OrderIs
    <3> QED
      BY <3>4, <3>5
  <2>6. Title(Knowledge!FaqAnswer(named).source) = t /\ t \in named
    BY <1>5, <1>6, <2>4
  <2> QED
    BY <1>2, <1>8, <2>5, <2>6 DEF Title
<1> QED
  BY <1>7, <1>8

-----------------------------------------------------------------------------
(* The seed of the database: DatabaseSeed.                                  *)

\* The statements of a first transaction that has flushed its companies, and
\* of one that has read which are missing.
Flushed == {"admin", "account", "members"}
Reading == {"insert"} \union Flushed

\* A start that overlaps no other is the only one that seeds.
SeedsAlone ==
    \A p \in Starters :
        dPc[p] \in Seeds!Seeding /\ p \notin dOverlapped => Seeds!Others(p) = {}

\* What a first transaction knows: the companies it has not found missing are
\* there; those it has flushed are not, and no other transaction has flushed
\* the same; and an account is inserted by one of them, while there is none.
FirstIsKnown ==
    /\ \A p \in Starters :
        /\ dPc[p] \notin Reading \union {"stock"} => dMissing[p] = {}
        /\ dPc[p] \in Reading =>
            Seeds!Tenants \ dMissing[p] \subseteq Seeds!Present
        /\ dPc[p] = "insert" /\ p \notin dOverlapped =>
            dMissing[p] \intersect Seeds!Present = {}
        /\ dPc[p] \in Flushed => dMissing[p] \intersect Seeds!Present = {}
        /\ dNewAdmin[p] => dPc[p] = "members" /\ dAdmin = NoEmail
        /\ dPc[p] \in {"account", "members", "services", "stock", "serving"} =>
            dEmail[p] # NoEmail
        /\ dPc[p] = "account" => p \in dOverlapped \/ dAdmin # dEmail[p]
        /\ dPc[p] = "members" => dNewAdmin[p] \/ dAdmin = dEmail[p]
    /\ \A p, q \in Starters : p # q =>
        /\ dPc[p] \in Flushed /\ dPc[q] \in Flushed =>
            dMissing[p] \intersect dMissing[q] = {}
        /\ ~(dNewAdmin[p] /\ dNewAdmin[q])

\* What the later transactions know: the first one is committed, and so are
\* the services of the companies they are past.
ServicesAreKnown ==
    \A p \in Starters :
        /\ dPc[p] \in {"services", "stock", "serving"} =>
            Seeds!Present = Seeds!Tenants /\ dOwners = Seeds!Tenants
                /\ dAdmin = dEmail[p]
        /\ dPc[p] \in {"services", "stock"} =>
            /\ dAt[p] \in DOMAIN Companies
            /\ \A i \in 1..(dAt[p] - 1) : Companies[i] \in dStocked
        /\ dPc[p] = "stock" =>
            /\ Companies[dAt[p]] \in dStocked \union dMissing[p]
            /\ p \notin dOverlapped => dMissing[p] \intersect dStocked = {}
        /\ dPc[p] = "serving" => dStocked = Seeds!Tenants
        /\ dPc[p] \in {"companies", "insert", "admin", "account", "members"} =>
            dAt[p] = 1

\* RefusedForCause with an administrator of another email, who stays.
RefusedForGood ==
    \A p \in Starters : dPc[p] = "refused" =>
        \/ p \in dOverlapped
        \/ dEmail[p] = NoEmail
        \/ dAdmin # NoEmail /\ dAdmin # dEmail[p]

SeedInv ==
    /\ Seeds!ConstantsOK
    /\ Seeds!TypeOK
    /\ SeedsAlone
    /\ FirstIsKnown
    /\ ServicesAreKnown
    /\ RefusedForGood
    /\ Seeds!EditsSurvive

(* The steps.                                                               *)

\* Companies have names, and a start that seeds has a position among them.
LEMMA CompaniesAreTenants ==
    ASSUME Seeds!ConstantsOK
    PROVE  /\ Len(Companies) \in Nat \ {0}
           /\ DOMAIN Companies = 1..Len(Companies)
           /\ \A i \in 1..Len(Companies) : Companies[i] \in Seeds!Tenants
PROOF
  BY DEF Seeds!ConstantsOK, Seeds!Tenants

\* Every step keeps the types.
LEMMA SeedTypeStep ==
    ASSUME SeedInv, [Seeds!Next]_(Seeds!vars)
    PROVE  Seeds!TypeOK'
PROOF
<1> USE DEF Seeds!TypeOK, SeedInv, Seeds!Goto
<1>1. ASSUME NEW p \in Starters, Seeds!Refuse(p) PROVE Seeds!TypeOK'
  BY <1>1 DEF Seeds!Refuse, Seeds!rowVars, Seeds!history
<1>2. ASSUME NEW p \in Starters, Seeds!Begin(p) PROVE Seeds!TypeOK'
  BY <1>2, CompaniesAreTenants
     DEF Seeds!Begin, Seeds!Seeding, Seeds!Others, Seeds!rowVars
<1>3. ASSUME NEW p \in Starters, Seeds!SelectCompanies(p) PROVE Seeds!TypeOK'
  BY <1>3
     DEF Seeds!SelectCompanies, Seeds!Absent, Seeds!Seeding, Seeds!rowVars,
         Seeds!history
<1>4. ASSUME NEW p \in Starters,
             Seeds!InsertCompanies(p) \/ Seeds!SelectAdmin(p)
                 \/ Seeds!InsertAdmin(p)
      PROVE  Seeds!TypeOK'
  BY <1>1, <1>4
     DEF Seeds!InsertCompanies, Seeds!SelectAdmin, Seeds!InsertAdmin,
         Seeds!AccountOf, Seeds!Seeding, Seeds!rowVars, Seeds!history
<1>5. ASSUME NEW p \in Starters, Seeds!CommitFirst(p) PROVE Seeds!TypeOK'
  BY <1>5 DEF Seeds!CommitFirst, Seeds!Seeding, Seeds!history
<1>6. ASSUME NEW p \in Starters, Seeds!SelectServices(p) PROVE Seeds!TypeOK'
  <2>1. Companies[dAt[p]] \in Seeds!Tenants
    BY <1>6, CompaniesAreTenants DEF Seeds!SelectServices, ServicesAreKnown
  <2> QED
    BY <1>6, <2>1
       DEF Seeds!SelectServices, Seeds!Unstocked, Seeds!Seeding, Seeds!rowVars,
           Seeds!history
<1>7. ASSUME NEW p \in Starters, Seeds!CommitServices(p) PROVE Seeds!TypeOK'
  <2>1. dAt[p] \in 1..Len(Companies)
    BY <1>7, CompaniesAreTenants DEF Seeds!CommitServices, ServicesAreKnown
  <2>2. (dAt[p] + 1) \in 1..(Len(Companies) + 1)
    BY <2>1, CompaniesAreTenants
  <2> QED
    BY <1>1, <1>7, <2>2, SMTT(30)
       DEF Seeds!CommitServices, Seeds!Seeding, Seeds!history
<1>8. ASSUME NEW p \in Starters, Seeds!Stop(p) PROVE Seeds!TypeOK'
  BY <1>8 DEF Seeds!Stop, Seeds!rowVars, Seeds!history
<1>9. ASSUME NEW t \in Seeds!Tenants, Seeds!Edit(t) PROVE Seeds!TypeOK'
  BY <1>9 DEF Seeds!Edit, Seeds!startVars
<1>10. ASSUME UNCHANGED Seeds!vars PROVE Seeds!TypeOK'
  BY <1>10 DEF Seeds!vars, Seeds!rowVars, Seeds!startVars, Seeds!history
<1> QED
  BY <1>2, <1>3, <1>4, <1>5, <1>6, <1>7, <1>8, <1>9, <1>10 DEF Seeds!Next

\* Every step keeps that a start that overlaps no other seeds alone.
LEMMA AloneStep ==
    ASSUME SeedInv, [Seeds!Next]_(Seeds!vars)
    PROVE  SeedsAlone'
PROOF
<1> USE DEF Seeds!TypeOK, SeedInv, SeedsAlone, Seeds!Others, Seeds!Goto
<1>1. ASSUME NEW p \in Starters, Seeds!Begin(p) PROVE SeedsAlone'
  BY <1>1 DEF Seeds!Begin, Seeds!Seeding
<1>2. ASSUME NEW p \in Starters, dOverlapped' = dOverlapped,
             NEW step, dPc' = [dPc EXCEPT ![p] = step],
             step \in Seeds!Seeding => dPc[p] \in Seeds!Seeding
      PROVE  SeedsAlone'
  BY <1>2
<1>3. ASSUME NEW p \in Starters, Seeds!Refuse(p) PROVE SeedsAlone'
  BY <1>3, <1>2 DEF Seeds!Refuse, Seeds!Seeding, Seeds!history
<1>4. ASSUME NEW p \in Starters,
             Seeds!SelectCompanies(p) \/ Seeds!InsertCompanies(p)
      PROVE  SeedsAlone'
  BY <1>2, <1>3, <1>4
     DEF Seeds!SelectCompanies, Seeds!InsertCompanies, Seeds!Seeding,
         Seeds!history
<1>5. ASSUME NEW p \in Starters, Seeds!SelectAdmin(p) \/ Seeds!InsertAdmin(p)
      PROVE  SeedsAlone'
  BY <1>2, <1>3, <1>5
     DEF Seeds!SelectAdmin, Seeds!InsertAdmin, Seeds!AccountOf, Seeds!Seeding,
         Seeds!history
<1>6. ASSUME NEW p \in Starters, Seeds!CommitFirst(p) \/ Seeds!SelectServices(p)
      PROVE  SeedsAlone'
  BY <1>2, <1>6
     DEF Seeds!CommitFirst, Seeds!SelectServices, Seeds!Seeding, Seeds!history
<1>7. ASSUME NEW p \in Starters, Seeds!CommitServices(p) PROVE SeedsAlone'
  BY <1>2, <1>3, <1>7 DEF Seeds!CommitServices, Seeds!Seeding, Seeds!history
<1>8. ASSUME NEW p \in Starters, Seeds!Stop(p) PROVE SeedsAlone'
  BY <1>2, <1>8 DEF Seeds!Stop, Seeds!Seeding, Seeds!history
<1>9. ASSUME NEW t \in Seeds!Tenants, Seeds!Edit(t) PROVE SeedsAlone'
  BY <1>9 DEF Seeds!Edit, Seeds!startVars
<1>10. ASSUME UNCHANGED Seeds!vars PROVE SeedsAlone'
  BY <1>10 DEF Seeds!vars, Seeds!startVars, Seeds!history
<1> QED
  BY <1>1, <1>4, <1>5, <1>6, <1>7, <1>8, <1>9, <1>10 DEF Seeds!Next

\* Every step keeps what first transactions know.
LEMMA FirstStep ==
    ASSUME SeedInv, [Seeds!Next]_(Seeds!vars)
    PROVE  FirstIsKnown'
PROOF
<1> USE DEF Seeds!TypeOK, SeedInv, FirstIsKnown, Flushed, Reading, Seeds!Goto
<1>1. ASSUME NEW p \in Starters, Seeds!Refuse(p) PROVE FirstIsKnown'
  BY <1>1 DEF Seeds!Refuse, Seeds!Present, Seeds!rowVars, Seeds!history
<1>2. ASSUME NEW p \in Starters, Seeds!Begin(p) PROVE FirstIsKnown'
  <2>1. \A q \in Starters : q # p /\ q \notin dOverlapped' =>
            q \notin dOverlapped
    BY <1>2 DEF Seeds!Begin
  <2>2. dMissing[p] = {} /\ ~dNewAdmin[p]
    BY <1>2 DEF Seeds!Begin, Seeds!Seeding
  <2> QED
    BY <1>2, <2>1, <2>2
       DEF Seeds!Begin, Seeds!Present, Seeds!Seeding, Seeds!rowVars
<1>3. ASSUME NEW p \in Starters, Seeds!SelectCompanies(p) PROVE FirstIsKnown'
  BY <1>3
     DEF Seeds!SelectCompanies, Seeds!Absent, Seeds!Present, Seeds!rowVars,
         Seeds!history
<1>4. ASSUME NEW p \in Starters, Seeds!InsertCompanies(p) PROVE FirstIsKnown'
  BY <1>1, <1>4
     DEF Seeds!InsertCompanies, Seeds!Present, Seeds!rowVars, Seeds!history
<1>5. ASSUME NEW p \in Starters, Seeds!SelectAdmin(p) PROVE FirstIsKnown'
  BY <1>1, <1>5
     DEF Seeds!SelectAdmin, Seeds!AccountOf, Seeds!Present, Seeds!rowVars,
         Seeds!history
<1>6. ASSUME NEW p \in Starters, Seeds!InsertAdmin(p) PROVE FirstIsKnown'
  <2>1. CASE Seeds!Refuse(p)
    BY <1>1, <2>1
  <2>2. CASE dAdmin = NoEmail
    <3>1. /\ dPc[p] = "account" /\ dPc' = [dPc EXCEPT ![p] = "members"]
          /\ dNewAdmin' = [dNewAdmin EXCEPT ![p] = TRUE]
          /\ \A q \in Starters \ {p} : ~dNewAdmin[q]
          /\ UNCHANGED <<dProfile, dAdmin, dEmail, dMissing, dOverlapped>>
      BY <1>6, <2>2 DEF Seeds!InsertAdmin, Seeds!rowVars, Seeds!history
    <3>2. Seeds!Present' = Seeds!Present
      BY <3>1 DEF Seeds!Present
    <3> QED
      BY <2>2, <3>1, <3>2
  <2> QED
    BY <1>6, <2>1, <2>2 DEF Seeds!InsertAdmin
<1>7. ASSUME NEW p \in Starters, Seeds!CommitFirst(p) PROVE FirstIsKnown'
  <2>1. /\ \A t \in Seeds!Tenants : t \in Seeds!Present' <=> t \in
            Seeds!Present \union dMissing[p]
        /\ dPc[p] = "members" /\ dEmail[p] # NoEmail
    BY <1>7 DEF Seeds!CommitFirst, Seeds!Written, Seeds!Present
  <2>2. /\ dPc' = [dPc EXCEPT ![p] = "services"] /\ dAdmin' = dEmail[p]
        /\ dMissing' = [dMissing EXCEPT ![p] = {}]
        /\ dNewAdmin' = [dNewAdmin EXCEPT ![p] = FALSE]
        /\ UNCHANGED <<dEmail, dOverlapped>>
    BY <1>7 DEF Seeds!CommitFirst, Seeds!history
  <2>3. \A q \in Starters : dNewAdmin[q] => q = p
    BY <2>1
  <2>4. \A q \in Starters : dPc[q] \in Seeds!Seeding /\ q # p =>
            q \in dOverlapped
    BY <2>1 DEF SeedsAlone, Seeds!Others, Seeds!Seeding
  <2>5. Seeds!Present \subseteq Seeds!Tenants
        /\ Seeds!Present' \subseteq Seeds!Tenants
    BY DEF Seeds!Present
  <2>6. \A q \in Starters \ {p} : dPc[q] \in
            {"members", "services", "stock", "serving"} =>
            dAdmin = dEmail[q] /\ ~dNewAdmin[q]
    BY <2>3 DEF ServicesAreKnown
  <2>7. \A q \in Starters \ {p} : dPc[q] = "members" => dAdmin' = dEmail[q]
    BY <2>1, <2>2, <2>6
  <2> QED
    BY <2>1, <2>2, <2>3, <2>4, <2>5, <2>7 DEF Seeds!Seeding
<1>8. ASSUME NEW p \in Starters, Seeds!SelectServices(p) PROVE FirstIsKnown'
  BY <1>8 DEF Seeds!SelectServices, Seeds!Present, Seeds!rowVars, Seeds!history
<1>9. ASSUME NEW p \in Starters, Seeds!CommitServices(p) PROVE FirstIsKnown'
  BY <1>1, <1>9, SMTT(30)
     DEF Seeds!CommitServices, Seeds!Present, Seeds!history
<1>10. ASSUME NEW p \in Starters, Seeds!Stop(p) PROVE FirstIsKnown'
  BY <1>10 DEF Seeds!Stop, Seeds!Present, Seeds!rowVars, Seeds!history
<1>11. ASSUME NEW t \in Seeds!Tenants, Seeds!Edit(t) PROVE FirstIsKnown'
  BY <1>11 DEF Seeds!Edit, Seeds!Present, Seeds!startVars
<1>12. ASSUME UNCHANGED Seeds!vars PROVE FirstIsKnown'
  BY <1>12
     DEF Seeds!vars, Seeds!Present, Seeds!rowVars, Seeds!startVars,
         Seeds!history
<1> QED
  BY <1>2, <1>3, <1>4, <1>5, <1>6, <1>7, <1>8, <1>9, <1>10, <1>11, <1>12
     DEF Seeds!Next

\* Every step keeps what the transactions of services know.
LEMMA ServicesStep ==
    ASSUME SeedInv, [Seeds!Next]_(Seeds!vars)
    PROVE  ServicesAreKnown'
PROOF
<1> USE DEF Seeds!TypeOK, SeedInv, ServicesAreKnown, Seeds!Goto
<1>1. ASSUME NEW p \in Starters, Seeds!Refuse(p) PROVE ServicesAreKnown'
  BY <1>1 DEF Seeds!Refuse, Seeds!Present, Seeds!rowVars, Seeds!history
<1>2. ASSUME NEW p \in Starters, Seeds!Begin(p) PROVE ServicesAreKnown'
  <2>1. \A q \in Starters : q # p /\ q \notin dOverlapped' =>
            q \notin dOverlapped
    BY <1>2 DEF Seeds!Begin
  <2> QED
    BY <1>2, <2>1 DEF Seeds!Begin, Seeds!Present, Seeds!rowVars
<1>3. ASSUME NEW p \in Starters,
             Seeds!SelectCompanies(p) \/ Seeds!InsertCompanies(p)
                 \/ Seeds!SelectAdmin(p) \/ Seeds!InsertAdmin(p)
      PROVE  ServicesAreKnown'
  BY <1>1, <1>3
     DEF Seeds!SelectCompanies, Seeds!InsertCompanies, Seeds!SelectAdmin,
         Seeds!AccountOf, Seeds!InsertAdmin, Seeds!Present, Seeds!rowVars,
         Seeds!history
<1>4. ASSUME NEW p \in Starters, Seeds!CommitFirst(p) PROVE ServicesAreKnown'
  <2>1. dPc[p] = "members" /\ Seeds!Tenants \ dMissing[p] \subseteq
            Seeds!Present
    BY <1>4 DEF Seeds!CommitFirst, FirstIsKnown, Reading, Flushed
  <2>2. Seeds!Present' = Seeds!Tenants
    BY <1>4, <2>1 DEF Seeds!CommitFirst, Seeds!Written, Seeds!Present
  <2>3. \A q \in Starters \ {p} : dPc[q] \in {"services", "stock", "serving"} =>
            dAdmin' = dEmail[q]
    BY <1>4 DEF Seeds!CommitFirst, FirstIsKnown
  <2>4. dAt[p] = 1 /\ dAt[p] \in DOMAIN Companies
    BY <2>1, CompaniesAreTenants
  <2> QED
    BY <1>4, <2>2, <2>3, <2>4 DEF Seeds!CommitFirst, Seeds!history
<1>5. ASSUME NEW p \in Starters, Seeds!SelectServices(p) PROVE ServicesAreKnown'
  BY <1>5
     DEF Seeds!SelectServices, Seeds!Unstocked, Seeds!Present, Seeds!rowVars,
         Seeds!history
<1>6. ASSUME NEW p \in Starters, Seeds!CommitServices(p) PROVE ServicesAreKnown'
  <2>1. CASE dMissing[p] \intersect dStocked # {}
    BY <1>1, <1>6, <2>1 DEF Seeds!CommitServices
  <2>2. CASE dMissing[p] \intersect dStocked = {}
    <3>1. /\ dPc[p] = "stock"
          /\ dStocked' = dStocked \union dMissing[p]
          /\ dAt' = [dAt EXCEPT ![p] = @ + 1]
          /\ dPc' = [dPc EXCEPT ![p] = IF dAt[p] =
              Len(Companies) THEN "serving" ELSE "services"]
          /\ UNCHANGED <<dProfile, dAdmin, dOwners, dEmail, dOverlapped>>
          /\ dMissing' = [dMissing EXCEPT ![p] = {}]
      BY <1>6, <2>2 DEF Seeds!CommitServices, Seeds!history
    <3>2. dAt[p] \in 1..Len(Companies) /\ Len(Companies) \in Nat
      BY <3>1, CompaniesAreTenants
    <3>3. \A i \in 1..dAt[p] : Companies[i] \in dStocked'
      BY <3>1, <3>2
    <3>4. dAt[p] = Len(Companies) => dStocked' = Seeds!Tenants
      BY <3>1, <3>2, <3>3, CompaniesAreTenants DEF Seeds!Tenants
    <3>5. dAt[p] # Len(Companies) => dAt'[p] \in DOMAIN Companies
      BY <3>1, <3>2, CompaniesAreTenants
    <3>6. \A q \in Starters : dPc[q] = "serving" => dStocked' = Seeds!Tenants
      BY <3>1
    <3>7. \A q \in Starters \ {p} : q \notin dOverlapped => dPc[q] # "stock"
      BY <3>1 DEF SeedsAlone, Seeds!Others, Seeds!Seeding
    <3> QED
      BY <3>1, <3>2, <3>3, <3>4, <3>5, <3>6, <3>7 DEF Seeds!Present
  <2> QED
    BY <2>1, <2>2
<1>7. ASSUME NEW p \in Starters, Seeds!Stop(p) PROVE ServicesAreKnown'
  BY <1>7 DEF Seeds!Stop, Seeds!Present, Seeds!rowVars, Seeds!history
<1>8. ASSUME NEW t \in Seeds!Tenants, Seeds!Edit(t) PROVE ServicesAreKnown'
  BY <1>8 DEF Seeds!Edit, Seeds!Present, Seeds!startVars
<1>9. ASSUME UNCHANGED Seeds!vars PROVE ServicesAreKnown'
  BY <1>9
     DEF Seeds!vars, Seeds!Present, Seeds!rowVars, Seeds!startVars,
         Seeds!history
<1> QED
  BY <1>2, <1>3, <1>4, <1>5, <1>6, <1>7, <1>8, <1>9 DEF Seeds!Next

\* Every step keeps the causes of refusals, and what the panel saved.
LEMMA CauseStep ==
    ASSUME SeedInv, [Seeds!Next]_(Seeds!vars)
    PROVE  RefusedForGood' /\ Seeds!EditsSurvive'
PROOF
<1> USE DEF Seeds!TypeOK, SeedInv, RefusedForGood, Seeds!EditsSurvive,
            Seeds!Goto
<1>1. ASSUME NEW p \in Starters, Seeds!Refuse(p),
             \/ p \in dOverlapped
             \/ dEmail[p] = NoEmail
             \/ dAdmin # NoEmail /\ dAdmin # dEmail[p]
      PROVE  RefusedForGood' /\ Seeds!EditsSurvive'
  BY <1>1 DEF Seeds!Refuse, Seeds!rowVars, Seeds!history
<1>2. ASSUME NEW p \in Starters, Seeds!Begin(p)
      PROVE  RefusedForGood' /\ Seeds!EditsSurvive'
  BY <1>2 DEF Seeds!Begin, Seeds!rowVars
<1>3. ASSUME NEW p \in Starters,
             Seeds!SelectCompanies(p) \/ Seeds!SelectServices(p)
                 \/ Seeds!Stop(p)
      PROVE  RefusedForGood' /\ Seeds!EditsSurvive'
  BY <1>3
     DEF Seeds!SelectCompanies, Seeds!SelectServices, Seeds!Stop, Seeds!rowVars,
         Seeds!history
<1>4. ASSUME NEW p \in Starters, Seeds!InsertCompanies(p)
      PROVE  RefusedForGood' /\ Seeds!EditsSurvive'
  <2>1. dMissing[p] \intersect Seeds!Present # {} => p \in dOverlapped
    BY <1>4 DEF Seeds!InsertCompanies, FirstIsKnown
  <2> QED
    BY <1>1, <1>4, <2>1 DEF Seeds!InsertCompanies, Seeds!rowVars, Seeds!history
<1>5. ASSUME NEW p \in Starters, Seeds!SelectAdmin(p)
      PROVE  RefusedForGood' /\ Seeds!EditsSurvive'
  BY <1>1, <1>5
     DEF Seeds!SelectAdmin, Seeds!AccountOf, Seeds!rowVars, Seeds!history
<1>6. ASSUME NEW p \in Starters, Seeds!InsertAdmin(p)
      PROVE  RefusedForGood' /\ Seeds!EditsSurvive'
  <2>1. p \in dOverlapped \/ dAdmin # dEmail[p]
    BY <1>6 DEF Seeds!InsertAdmin, FirstIsKnown
  <2> QED
    BY <1>1, <1>6, <2>1 DEF Seeds!InsertAdmin, Seeds!rowVars, Seeds!history
<1>7. ASSUME NEW p \in Starters, Seeds!CommitFirst(p)
      PROVE  RefusedForGood' /\ Seeds!EditsSurvive'
  <2>1. \A t \in dEdited : t \in Seeds!Present /\ t \in Seeds!Tenants
    BY DEF Seeds!Present
  <2>2. dMissing[p] \intersect Seeds!Present = {} /\ dPc[p] = "members"
    BY <1>7 DEF Seeds!CommitFirst, FirstIsKnown, Flushed
  <2>3. Seeds!EditsSurvive'
    BY <1>7, <2>1, <2>2 DEF Seeds!CommitFirst, Seeds!Written, Seeds!history
  <2>4. dAdmin # NoEmail => dAdmin' = dAdmin
    BY <1>7, <2>2 DEF Seeds!CommitFirst, FirstIsKnown
  <2>5. dAdmin' # NoEmail /\ dAdmin' = dEmail[p]
    BY <1>7, <2>2 DEF Seeds!CommitFirst, FirstIsKnown
  <2>6. RefusedForGood'
    BY <1>7, <2>4, <2>5 DEF Seeds!CommitFirst, Seeds!history
  <2> QED
    BY <2>3, <2>6
<1>8. ASSUME NEW p \in Starters, Seeds!CommitServices(p)
      PROVE  RefusedForGood' /\ Seeds!EditsSurvive'
  <2>1. dMissing[p] \intersect dStocked # {} => p \in dOverlapped
    BY <1>8 DEF Seeds!CommitServices, ServicesAreKnown
  <2> QED
    BY <1>1, <1>8, <2>1 DEF Seeds!CommitServices, Seeds!history
<1>9. ASSUME NEW t \in Seeds!Tenants, Seeds!Edit(t)
      PROVE  RefusedForGood' /\ Seeds!EditsSurvive'
  BY <1>9 DEF Seeds!Edit, Seeds!startVars
<1>10. ASSUME UNCHANGED Seeds!vars PROVE RefusedForGood' /\ Seeds!EditsSurvive'
  BY <1>10 DEF Seeds!vars, Seeds!rowVars, Seeds!startVars, Seeds!history
<1> QED
  BY <1>2, <1>3, <1>4, <1>5, <1>6, <1>7, <1>8, <1>9, <1>10 DEF Seeds!Next

\* The invariant of the seed.
LEMMA SeedInvariant ==
    Seeds!ConstantsOK /\ Seeds!Spec => []SeedInv
PROOF
<1>1. Seeds!ConstantsOK /\ Seeds!Init => SeedInv
  BY CompaniesAreTenants
     DEF Seeds!Init, SeedInv, Seeds!TypeOK, SeedsAlone, Seeds!Others,
         FirstIsKnown, Flushed, Reading, ServicesAreKnown, RefusedForGood,
         Seeds!EditsSurvive, Seeds!Seeding
<1>2. SeedInv /\ [Seeds!Next]_(Seeds!vars) => SeedInv'
  <2> SUFFICES ASSUME SeedInv, [Seeds!Next]_(Seeds!vars) PROVE SeedInv'
    OBVIOUS
  <2>1. Seeds!ConstantsOK'
    BY DEF SeedInv, Seeds!ConstantsOK, Seeds!Tenants
  <2> QED
    BY <2>1, SeedTypeStep, AloneStep, FirstStep, ServicesStep, CauseStep
       DEF SeedInv
<1> QED
  BY <1>1, <1>2, PTL DEF Seeds!Spec

\* What the invariant is for.
LEMMA SeedImplied ==
    SeedInv =>
        /\ Seeds!ServingIsSeeded
        /\ Seeds!RefusedForCause
        /\ Seeds!EditsSurvive
PROOF
  BY DEF SeedInv, ServicesAreKnown, RefusedForGood, Seeds!ServingIsSeeded,
         Seeds!RefusedForCause

-----------------------------------------------------------------------------
(* The isolation of companies: TenantIsolation.                             *)

\* The inductive invariant; the assumption on the constants is carried along.
TenantInv == Rows!ConstantsOK /\ Rows!TypeOK /\ Rows!SettingIsOfRequest
    /\ Rows!TenantsApart

\* What a query returns or deletes: rows of its own company, and for a session
\* of no company nothing unless the role bypasses the policies.
LEMMA ResultIsOwn ==
    ASSUME TenantInv, NEW c \in Connections, Rows!Bound(c), tOp[c] # "add"
    PROVE  /\ {tOwner[i] : i \in Rows!Result(c)} \subseteq TenantIds
           /\ tAsked[c] # None =>
               {tOwner[i] : i \in Rows!Result(c)} \subseteq {tAsked[c]}
           /\ tAsked[c] = None /\ ~tBypass =>
               {tOwner[i] : i \in Rows!Result(c)} = {}
PROOF
<1>1. tOp[c] \in Rows!Ops /\ (tOp[c] = "all" <=> tAsked[c] = None)
  BY DEF TenantInv, Rows!TypeOK, Rows!SettingIsOfRequest
<1>2. Rows!Result(c) \subseteq Rows!Visible(c)
  BY <1>1 DEF Rows!Result, Rows!Ops
<1>3. \A i \in Rows!Result(c) : tOwner[i] \in TenantIds
  BY <1>2 DEF Rows!Visible, Rows!Rows, TenantInv, Rows!TypeOK
<1>4. ASSUME tAsked[c] # None, NEW i \in Rows!Result(c)
      PROVE  tOwner[i] = tAsked[c]
  BY <1>1, <1>4 DEF Rows!Result, Rows!OfCompany, Rows!Ops
<1>5. ASSUME tAsked[c] = None, ~tBypass PROVE Rows!Result(c) = {}
  <2>1. tPc[c] = "open" /\ tSetting[c] = None
    BY <1>1, <1>5 DEF Rows!Bound, TenantInv, Rows!SettingIsOfRequest
  <2>2. Rows!Visible(c) = {}
    BY <1>5, <2>1 DEF Rows!Visible, Rows!Rows
  <2> QED
    BY <1>2, <2>2
<1> QED
  BY <1>3, <1>4, <1>5

\* Every statement of an operation keeps the companies apart.
LEMMA TenantStep ==
    ASSUME TenantInv, [Rows!Next]_(Rows!vars)
    PROVE  TenantInv'
PROOF
<1>1. ASSUME NEW c \in Connections, NEW o \in Rows!Ops,
             NEW t \in TenantIds \union {None},
             NEW i \in RowIds \union {None}, o = "all" <=> t =
                 None, Rows!Open(c, o, t, i)
      PROVE  TenantInv'
  <2>1. Rows!TypeOK'
    BY <1>1 DEF TenantInv, Rows!Open, Rows!TypeOK
  <2>2. Rows!SettingIsOfRequest' /\ Rows!TenantsApart'
    BY <1>1
       DEF TenantInv, Rows!Open, Rows!TypeOK, Rows!SettingIsOfRequest,
           Rows!TenantsApart
  <2> QED
    BY <2>1, <2>2 DEF TenantInv
<1>2. ASSUME NEW c \in Connections, Rows!CheckoutPlain(c) PROVE TenantInv'
  BY <1>1, <1>2 DEF Rows!CheckoutPlain, Rows!Ops
<1>3. ASSUME NEW c \in Connections, Rows!Checkout(c) PROVE TenantInv'
  BY <1>1, <1>3 DEF Rows!Checkout, Rows!Ops, TenantInv, Rows!ConstantsOK
<1>4. ASSUME NEW c \in Connections, Rows!Bind(c) PROVE TenantInv'
  BY <1>4
     DEF Rows!Bind, TenantInv, Rows!TypeOK, Rows!SettingIsOfRequest,
         Rows!TenantsApart, Rows!request
<1>5. ASSUME NEW c \in Connections, Rows!Query(c) PROVE TenantInv'
  <2> DEFINE S == {tOwner[i] : i \in Rows!Result(c)}
  <2>1. /\ S \subseteq TenantIds
        /\ tAsked[c] # None => S \subseteq {tAsked[c]}
        /\ tAsked[c] = None /\ ~tBypass => S = {}
    BY <1>5, ResultIsOwn DEF Rows!Query
  <2>2. /\ tTouched' = [tTouched EXCEPT ![c] = S]
        /\ tPc' = [tPc EXCEPT ![c] = "done"]
        /\ UNCHANGED <<tBypass, tOp, tAsked, tTarget, tSetting, tUsed>>
    BY <1>5 DEF Rows!Query, Rows!Touch, Rows!request
  <2>3. tOwner' \in [RowIds -> TenantIds \union {None}]
    BY <1>5 DEF Rows!Query, TenantInv, Rows!TypeOK
  <2> HIDE DEF S
  <2>4. Rows!TypeOK'
    BY <2>1, <2>2, <2>3 DEF TenantInv, Rows!TypeOK
  <2>5. Rows!SettingIsOfRequest' /\ Rows!TenantsApart'
    BY <2>1, <2>2
       DEF TenantInv, Rows!TypeOK, Rows!SettingIsOfRequest, Rows!TenantsApart
  <2> QED
    BY <2>4, <2>5 DEF TenantInv
<1>6. ASSUME NEW c \in Connections, Rows!Insert(c) PROVE TenantInv'
  <2>1. tAsked[c] \in TenantIds /\ tAsked[c] # None
    BY <1>6 DEF Rows!Insert, TenantInv, Rows!SettingIsOfRequest, Rows!TypeOK
  <2>2. Rows!TypeOK'
    BY <1>6, <2>1
       DEF Rows!Insert, Rows!Touch, TenantInv, Rows!TypeOK, Rows!request
  <2>3. Rows!SettingIsOfRequest' /\ Rows!TenantsApart'
    BY <1>6, <2>1
       DEF Rows!Insert, Rows!Touch, TenantInv, Rows!TypeOK,
           Rows!SettingIsOfRequest, Rows!TenantsApart, Rows!request
  <2> QED
    BY <2>2, <2>3 DEF TenantInv
<1>7. ASSUME NEW c \in Connections, Rows!Close(c) PROVE TenantInv'
  BY <1>7
     DEF Rows!Close, Rows!SettingAfter, TenantInv, Rows!TypeOK, Rows!Ops,
         Rows!SettingIsOfRequest, Rows!TenantsApart
<1>8. ASSUME UNCHANGED Rows!vars PROVE TenantInv'
  BY <1>8
     DEF Rows!vars, Rows!request, TenantInv, Rows!TypeOK,
         Rows!SettingIsOfRequest, Rows!TenantsApart
<1> QED
  BY <1>2, <1>3, <1>4, <1>5, <1>6, <1>7, <1>8 DEF Rows!Next

\* The invariant of the companies' rows.
LEMMA TenantInvariant ==
    Rows!ConstantsOK /\ Rows!Spec => []TenantInv
PROOF
<1>1. Rows!ConstantsOK /\ Rows!Init => TenantInv
  BY DEF Rows!Init, TenantInv, Rows!TypeOK, Rows!Ops, Rows!SettingIsOfRequest,
         Rows!TenantsApart
<1>2. TenantInv /\ [Rows!Next]_(Rows!vars) => TenantInv'
  BY TenantStep
<1> QED
  BY <1>1, <1>2, PTL DEF Rows!Spec

-----------------------------------------------------------------------------
(* The theorems.                                                            *)

\* Neither slots nor a payment link are offered on a decision of the model
\* below the minimum confidence or on one that asks for a person, slots are of a
\* service of the company, and a text that asks for a person is handed to one by
\* the rules, whatever the model answers (tenant_ai.py:53-55,
\* openai_adapter.py:112-116, adapters.py:97-101).
THEOREM ReplyIsDecided == Spec => []ReplyIsSafe
PROOF
<1>1. ReplyInv => ReplyIsSafe
  BY ReplyImplied DEF ReplyIsSafe
<1> QED
  BY <1>1, ReplyInvariant, PartsRun, ServiceAssumption, PTL
     DEF ServiceAssumption

\* No failure of the model leaves a message without a reply, but for one to
\* close its client (tenant_ai.py:36-55).
THEOREM ModelCannotSilence == Spec => []RepliesWhateverTheModel
PROOF
<1>1. ReplyInv => RepliesWhateverTheModel
  BY ReplyImplied DEF RepliesWhateverTheModel
<1> QED
  BY <1>1, ReplyInvariant, PartsRun, ServiceAssumption, PTL
     DEF ServiceAssumption

\* A company is loaded with the newest texts that fit the budget, an older text
\* of a title replacing a newer one and any text the company's own entry, and a
\* question that names a title that is known is answered from the company's own
\* entries before the texts of its library (repositories.py:150-157,
\* strategies.py:47-50).
THEOREM KnowledgeIsLoaded == Spec => []KnowledgeIsExact
PROOF
<1>1. KnowledgeTypes => KnowledgeIsExact
  BY LoadExact, FaqAnswers DEF KnowledgeIsExact
<1> QED
  BY <1>1, KnowledgeInvariant, PartsRun, ServiceAssumption, PTL
     DEF ServiceAssumption

\* A process that serves has a seeded database and its own administrator, a
\* start is refused only for an overlap or its email, and no start overwrites
\* what the panel saved, whatever starts are at work together (seed.py:36-100).
THEOREM SeedIsSafe == Spec => []SeedAgrees
PROOF
<1>1. SeedInv => SeedAgrees
  BY SeedImplied DEF SeedAgrees
<1> QED
  BY <1>1, SeedInvariant, PartsRun, ServiceAssumption, PTL
     DEF ServiceAssumption

\* A request of one company never touches a row of another, nor a session of no
\* company any row where the policies hold, whatever connection of the pool
\* they get, and whose it was before (database.py:23-28,
\* repositories.py:169-279).
THEOREM CompaniesApart == Spec => []TenantsApart
PROOF
<1>1. TenantInv => TenantsApart
  BY DEF TenantInv, TenantsApart
<1> QED
  BY <1>1, TenantInvariant, PartsRun, ServiceAssumption, PTL
     DEF ServiceAssumption

\* Every variable of every part keeps its type.
THEOREM ServiceTyped == Spec => []TypesOK
PROOF
<1>1. /\ FilesInv
      /\ SettingsInv
      /\ SessionsInv
      /\ ReplyInv
      /\ KnowledgeTypes
      /\ SeedInv
      /\ TenantInv
      => TypesOK
  BY DEF FilesInv, SettingsInv, SessionsInv, ReplyInv, KnowledgeTypes, SeedInv,
         TenantInv, TypesOK
<1> QED
  BY <1>1, FilesInvariant, SettingsInvariant, SessionsInvariant, ReplyInvariant,
     KnowledgeInvariant, SeedInvariant, TenantInvariant, PartsRun,
     ServiceAssumption, PTL
     DEF ServiceAssumption
===============================================================================
