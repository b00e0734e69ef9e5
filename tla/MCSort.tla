------------------------------- MODULE MCSort -------------------------------
(* Sort for TLC: every window of every short array of small ints. *)
EXTENDS Sort
SmallInts == -1 .. 2
=============================================================================
