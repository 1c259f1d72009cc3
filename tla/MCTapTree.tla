----------------------------- MODULE MCTapTree ------------------------------
(***************************************************************************)
(* Up to six leaves: trees in which a hash is carried through one level    *)
(* (three leaves), through two (five) and on the second level (six).       *)
(***************************************************************************)
EXTENDS TapTree, TLC

CONSTANTS s1, s2, s3

Interchangeable == Permutations(Scripts)

=============================================================================
