------------------------------ MODULE MCMalloc ------------------------------
(* Malloc for TLC: a small arena at an odd address, so that alignment skips. *)
EXTENDS Malloc
=============================================================================
