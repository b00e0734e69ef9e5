----------------------------- MODULE MCFifoPipe -----------------------------
(* FifoPipe for TLC: the capacities are given in the configuration. *)
EXTENDS FifoPipe
=============================================================================
