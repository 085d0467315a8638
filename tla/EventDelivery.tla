--------------------------- MODULE EventDelivery ---------------------------
(***************************************************************************)
(* What the durable event bus promises, without streams, consumer groups,  *)
(* retries or workers: a message that was published stays queued until a   *)
(* handler has completed it or it was put on the dead-letter queue, and a  *)
(* dead letter stays on that queue, unless the bus was given more than it  *)
(* has room for and removed it. Delivery is at least once: a queued        *)
(* message may be completed again, and a message that was completed may be *)
(* published again.                                                        *)
(*                                                                         *)
(* RedisStreamBus and CloudflareQueue are shown to implement this; the     *)
(* second one never evicts.                                                *)
(***************************************************************************)
CONSTANT Messages

VARIABLES
    queued,   \* messages the bus still owes a handler
    done,     \* messages some handler run has completed
    dead,     \* messages on the dead-letter queue
    evicted,  \* messages of which it removed a copy or a dead letter unhandled
    full      \* whether it has been given more than it has room for

vars == <<queued, done, dead, evicted, full>>

TypeOK ==
    /\ queued \subseteq Messages
    /\ done \subseteq Messages
    /\ dead \subseteq Messages
    /\ evicted \subseteq Messages
    /\ full \in BOOLEAN

Init ==
    /\ queued = {}
    /\ done = {}
    /\ dead = {}
    /\ evicted = {}
    /\ full = FALSE

\* Messages of from are evicted, which takes a bus that has been full.
Evicts(from) ==
    /\ evicted' \in SUBSET (evicted \union from)
    /\ evicted \subseteq evicted'
    /\ evicted' # evicted => full'

\* A new copy may push out older ones.
Publish(m) ==
    /\ full' \in {full, TRUE}
    /\ Evicts(queued)
    /\ queued' \in SUBSET (queued \union {m})
    /\ m \in queued'
    /\ queued \ queued' \subseteq evicted'
    /\ UNCHANGED <<done, dead>>

Known == queued \union done \union dead \union evicted

Complete(m) ==
    /\ m \in Known
    /\ done' = done \union {m}
    /\ UNCHANGED <<queued, dead, evicted, full>>

\* A new dead letter may push out older ones.
Bury(m) ==
    /\ m \in Known
    /\ full' \in {full, TRUE}
    /\ Evicts(dead)
    /\ dead' \in SUBSET (dead \union {m})
    /\ m \in dead'
    /\ dead \ dead' \subseteq evicted'
    /\ UNCHANGED <<queued, done>>

\* The bus forgets a message only once it has an outcome, which may have been
\* evicted since.
Forget(m) ==
    /\ m \in queued
    /\ m \in done \union dead \union evicted
    /\ queued' = queued \ {m}
    /\ UNCHANGED <<done, dead, evicted, full>>

\* A handler that dies may hold the only copies of messages that a full bus
\* has removed.
Evict ==
    /\ full
    /\ Evicts(queued)
    /\ queued' \in SUBSET queued
    /\ queued \ queued' \subseteq evicted'
    /\ UNCHANGED <<done, dead, full>>

Next ==
    \/ \E m \in Messages : Publish(m) \/ Complete(m) \/ Bury(m) \/ Forget(m)
    \/ Evict

Spec == Init /\ [][Next]_vars
=============================================================================
