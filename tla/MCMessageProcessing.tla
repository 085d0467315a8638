------------------------ MODULE MCMessageProcessing ------------------------
(***************************************************************************)
(* MessageProcessing on small instances: messages of one customer, the     *)
(* case in which executions meet in the database, or of two.               *)
(***************************************************************************)
EXTENDS MessageProcessing, TLC

CONSTANTS p1, p2, stop

\* Everything comes from one phone.
OneSender == [m \in Messages |-> p1]

\* The command comes from a phone of its own.
TwoSenders == [m \in Messages |-> IF m = stop THEN p1 ELSE p2]

Symmetry == Permutations(Workers)
=============================================================================
