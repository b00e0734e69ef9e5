------------------------------ MODULE MCArray ------------------------------
(* Array for TLC: two arrays and numbers in base 2, so that a length of    *)
(* two has two digits, as ten has in the code.  A torn element is so far   *)
(* from a value that their difference does not fit in an int of 4 bits.    *)
EXTENDS Array
SmallInts == {-1, 1}
NotAValue == 7
Symmetry == Permutations(Arrays)
=============================================================================
