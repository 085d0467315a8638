--------------------------- MODULE CompanyKnowledge ---------------------------
(***************************************************************************)
(* The knowledge a company is loaded with, and the answer to a frequent    *)
(* question: SqlAlchemyTenantRepository.get adds to the company's own      *)
(* entries, under their titles, the texts of its newest sources as far as  *)
(* they fit into a number of characters; FaqResponseStrategy answers with  *)
(* the first entry whose title occurs in the message.                      *)
(*                                                                         *)
(* A text is its length, a title a model value; sources are added and      *)
(* deleted by the panel (KnowledgeFiles models how). A dict keeps the      *)
(* place of a key that is assigned again, so that it is the sequence of    *)
(* its keys and the last value of each. created_at grows from a source to  *)
(* the next.                                                               *)
(***************************************************************************)
EXTENDS Integers, Sequences, SequencesExt

CONSTANTS
    Titles,
    Own,         \* titles of the company's own entries, a sequence
    Lengths,     \* lengths of texts
    Newest,      \* how many sources are read (20)
    Budget,      \* characters they may fill (12_000)
    MaxSources   \* bound: sources of the company

ConstantsOK ==
    /\ Own \in Seq(Titles)
    /\ Lengths \subseteq Nat \ {0}
    /\ Newest \in Nat /\ Budget \in Nat /\ MaxSources \in Nat

VARIABLES
    sources,   \* ready sources with a text, the newest first
    stored     \* how many have none: a PDF or an image without text

vars == <<sources, stored>>

Source == [title : Titles, length : Lengths]

TypeOK ==
    /\ sources \in Seq(Source)
    /\ stored \in Nat
    /\ Len(sources) + stored <= MaxSources

Init == sources = <<>> /\ stored = 0

\* create_text_knowledge, or the upload of a file with a text.
Add(source) ==
    /\ Len(sources) + stored < MaxSources
    /\ sources' = <<source>> \o sources
    /\ UNCHANGED stored

\* The upload of a file without one: its row is never read here.
AddStored ==
    /\ Len(sources) + stored < MaxSources
    /\ stored' = stored + 1
    /\ UNCHANGED sources

Delete(i) == sources' = RemoveAt(sources, i) /\ UNCHANGED stored

DeleteStored ==
    /\ stored > 0
    /\ stored' = stored - 1
    /\ UNCHANGED sources

Next ==
    \/ \E source \in Source : Add(source)
    \/ \E i \in DOMAIN sources : Delete(i)
    \/ AddStored
    \/ DeleteStored

Spec == Init /\ [][Next]_vars

-----------------------------------------------------------------------------
(* The load.                                                                *)

Least(a, b) == IF a < b THEN a ELSE b

\* Mutant: ORDER BY created_at without DESC.
OldestFirst == SubSeq(Reverse(sources), 1, Least(Newest, Len(sources)))

\* ORDER BY created_at DESC LIMIT 20.
ReadSources == SubSeq(sources, 1, Least(Newest, Len(sources)))

\* Mutant: a text that fits in part is taken whole.
WholeText(length, remaining) == IF remaining = 0 THEN 0 ELSE length

\* extracted_text[:remaining].
Excerpt(length, remaining) == Least(length, remaining)

\* An entry is the number of the source read and how much of it, 0 for the
\* company's own.
OwnEntries ==
    [order |-> Own, value |-> [t \in ToSet(Own) |-> [source |-> 0, length |-> 0]],
     remaining |-> Budget]

Assign(loaded, title, entry) ==
    [loaded EXCEPT
        !.order = IF Contains(@, title) THEN @ ELSE Append(@, title),
        !.value = [t \in DOMAIN @ \union {title} |->
                      IF t = title THEN entry ELSE @[t]],
        !.remaining = @ - entry.length]

\* One turn of the loop over the sources; the break is a turn that does
\* nothing, since remaining stays 0.
TakeSource(loaded, i) ==
    LET source == ReadSources[i]
        excerpt == Excerpt(source.length, loaded.remaining)
    IN  IF excerpt = 0 THEN loaded
        ELSE Assign(loaded, source.title, [source |-> i, length |-> excerpt])

\* What is known after the first n turns.
Loaded[n \in 0..Len(ReadSources)] ==
    IF n = 0 THEN OwnEntries ELSE TakeSource(Loaded[n - 1], n)

Load == Loaded[Len(ReadSources)]

\* Mutant: the last entry whose title occurs.
LastNamed(named) == SelectLastInSeq(Load.order, LAMBDA t : t \in named)

\* FaqResponseStrategy: the first entry whose title occurs in a message that
\* contains the titles named; 0 for none, which is answered with a default.
FirstNamed(named) == SelectInSeq(Load.order, LAMBDA t : t \in named)

FaqAnswer(named) == Load.value[Load.order[FirstNamed(named)]]

-----------------------------------------------------------------------------
(* What is promised, without the loop.                                      *)

Window == 1..Least(Newest, Len(sources))

\* The characters of the n newest sources.
Total[n \in 0..Len(sources)] ==
    IF n = 0 THEN 0 ELSE Total[n - 1] + sources[n].length

\* What the n newest sources leave of the budget.
Left(n) == IF Total[n] < Budget THEN Budget - Total[n] ELSE 0

\* How much of the i-th newest source there is room for.
Room(i) == Least(sources[i].length, Left(i - 1))

Known(t) == t \in DOMAIN Load.value

Namesakes(i) == {j \in Window : sources[j].title = sources[i].title /\ Room(j) > 0}

\* The texts taken never exceed the budget; a title is answered with the oldest
\* source of that title there is room for, however much newer sources there
\* are, and with the company's own entry only if there is none: an older text
\* replaces a newer one of the same title, and the room of the newer one is
\* lost; nothing else is missing, and no older text gets in while a newer one is
\* cut (repositories.py:150-157).
LoadIsExact ==
    /\ Load.remaining >= 0
    /\ \A i \in Window : Room(i) > 0 =>
        /\ Known(sources[i].title)
        /\ LET taken == Load.value[sources[i].title]
           IN  /\ taken.source \in Namesakes(i)
               /\ \A j \in Namesakes(i) : j <= taken.source
               /\ taken.length = Room(taken.source)
    /\ \A t \in DOMAIN Load.value :
        Load.value[t].source = 0 => \A i \in Window : sources[i].title = t => Room(i) = 0

\* A message that names a title the company knows is answered with a text of a
\* title it names, its own entries before its sources and newer titles before
\* older ones (strategies.py:47-50).
FaqAnswersWhatIsNamed ==
    \A named \in SUBSET Titles :
        (\E t \in named : Known(t)) =>
            LET answer == FaqAnswer(named)
            IN  IF \E t \in named : t \in ToSet(Own)
                THEN \E t \in named \intersect ToSet(Own) : answer = Load.value[t]
                ELSE /\ sources[answer.source].title \in named
                     /\ \A i \in Window :
                         sources[i].title \in named /\ Room(i) > 0 =>
                             \E j \in 1..i :
                                 sources[j].title = sources[answer.source].title
=============================================================================
