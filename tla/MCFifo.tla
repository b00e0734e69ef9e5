------------------------------- MODULE MCFifo -------------------------------
(* Fifo for TLC: the constants are given in the configurations. *)
EXTENDS Fifo
=============================================================================
