--------------------------- MODULE MCInMemoryBus ---------------------------
EXTENDS InMemoryBus

CONSTANTS p1, p2, stop, other

\* A command, messages of its sender, and one message of somebody else.
Senders == [m \in Messages |-> IF m = other THEN p2 ELSE p1]
=============================================================================
