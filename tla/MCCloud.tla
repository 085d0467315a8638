------------------------------- MODULE MCCloud -------------------------------
\* Cloud for TLC.
EXTENDS Cloud, TLC

\* A set of one part may be that of another.
Symmetry ==
    Permutations(Saves) \union Permutations(Setups) \union Permutations(Requests)
=============================================================================
