------------------------- MODULE MCRedisStreamBus -------------------------
(***************************************************************************)
(* RedisStreamBus on small instances. Workers are interchangeable, and so  *)
(* are messages: neither is compared with or assigned to a constant.       *)
(***************************************************************************)
EXTENDS RedisStreamBus, TLC

Symmetry == Permutations(Workers) \union Permutations(Messages)

\* Messages for which a request came, and whether a key has expired.
Requested == dedupe \union {m \in Messages : expiries[m] > 0}
AnyExpiry == \E m \in Messages : expiries[m] > 0

\* Bound, the CONSTRAINT of bus_safety: a behaviour in which a key expires has
\* one message, and one with an expiry or a crash has three entries, one more
\* than MaxLen; all of it at once is beyond what TLC explores in minutes.
InScope ==
    /\ AnyExpiry => Cardinality(Requested) <= 1
    /\ crashes > 0 \/ AnyExpiry => Len(stream) <= MaxLen + 1
=============================================================================
