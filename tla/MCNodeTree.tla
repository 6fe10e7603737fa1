------------------------------ MODULE MCNodeTree ------------------------------
EXTENDS NodeTree, TLC

CONSTANTS empty, small, large

(* One unit and two, so that a quota can hold one and not the other, and   *)
(* the empty file, of which no version is kept.                            *)
MCSize == [h \in Hashes |-> CASE h = empty -> 0 [] h = small -> 1 [] h = large -> 2]

Symmetry == Permutations(Ids \ {Root}) \cup Permutations(Names)
               \cup Permutations(Requests)
=============================================================================
