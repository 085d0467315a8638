------------------------------ MODULE MCService ------------------------------
(***************************************************************************)
(* Service for TLC: two companies, and three titles, one of them that of   *)
(* the company's own entry.                                                *)
(***************************************************************************)
EXTENDS Service, TLC

CONSTANTS first, second, other

\* In the order of the seed.
MCCompanies == <<first, second>>

MCTitles == {first, second, other}

MCOwn == <<first>>

Symmetry ==
    Permutations(Sources) \union Permutations(FileRequests)
    \union Permutations(Saves) \union Permutations(Texts)
    \union Permutations(Hints)
    \union Permutations(Sessions) \union Permutations(SessionRequests)
=============================================================================
