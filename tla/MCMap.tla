------------------------------- MODULE MCMap -------------------------------
(* Map for TLC: two maps over a small heap.  The code compares addresses   *)
(* only for equality, so the cells, and the maps, can be permuted.         *)
EXTENDS Map
Symmetry == Permutations(Nodes) \cup Permutations(Maps)
=============================================================================
