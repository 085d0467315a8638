------------------------ MODULE MCDurableProcessing ------------------------
(***************************************************************************)
(* DurableProcessing on small instances: every message comes from one new  *)
(* customer, the case in which executions meet in the database.            *)
(***************************************************************************)
EXTENDS DurableProcessing, TLC

CONSTANTS p1, m1, m2   \* the customer and its messages

OneSender == [m \in Messages |-> p1]

\* Bound: each message is requested once and its request does not fail; what
\* the webhook does otherwise is in RedisStreamBus on its own.
OneRequestEach ==
    /\ accepted = {m \in Messages : Published(m)}
    /\ dedupe = accepted \union publishing

\* Bound, the CONSTRAINT of chatbot: a behaviour has two messages, or one
\* message and crashes, and executions of one of them fail other than by a
\* duplicate key; the stream gets one or two entries more than MaxLen. All of
\* it at once is beyond what TLC explores in minutes.
InScope ==
    /\ OneRequestEach
    /\ Cardinality(failures) <= 1
    /\ \/ crashes = 0 /\ Len(stream) <= MaxLen + 2
       \/ Cardinality(dedupe) <= 1 /\ Len(stream) <= MaxLen + 1

Symmetry == Permutations(Workers) \union Permutations(Messages)

\* Bounds for liveness, which is checked without symmetry: m2 is requested once
\* m1 is published; executions of m1 fail only if they have no m2 beside them,
\* and none fails in a behaviour with a crash, which has one message. Only
\* steps without fairness are left out: the webhook's, failures and crashes.
InLiveScope ==
    /\ OneRequestEach
    /\ m2 \in dedupe => Published(m1)
    /\ failures \subseteq {m2} \/ Cardinality(dedupe) <= 1
    /\ crashes > 0 => Cardinality(dedupe) <= 1 /\ failures = {}

ScopedFairSpec ==
    /\ Start0 /\ [][Serve /\ InLiveScope']_allVars
    /\ WorkersAreFair
=============================================================================
