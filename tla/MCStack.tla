------------------------------ MODULE MCStack ------------------------------
(* Stack for TLC: which programs use the stack is in the configuration. *)
EXTENDS Stack
=============================================================================
