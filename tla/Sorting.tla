------------------------------ MODULE Sorting ------------------------------
(***************************************************************************)
(* What the functions of include/pelib/sort.h promise: one window of an    *)
(* array ends up in non-decreasing order, holding the elements it held,    *)
(* and nothing else changes.  A window ends before the index end.          *)
(***************************************************************************)
EXTENDS Integers, FiniteSets

CONSTANT Int32  \* the values of the C type int

VARIABLES array, window, sorted
vars == <<array, window, sorted>>

Window == window.begin .. window.end - 1
Count(a, v) == Cardinality({k \in Window : a[k] = v})

Permutes(a, b) ==
  /\ DOMAIN a = DOMAIN b
  /\ \A k \in DOMAIN a \ Window : a[k] = b[k]
  /\ \A v \in Int32 : Count(a, v) = Count(b, v)

InOrder(a) == \A p, q \in Window : p < q => a[p] <= a[q]

Init == sorted = FALSE

Sort ==
  /\ ~sorted
  /\ sorted' = TRUE
  /\ InOrder(array') /\ Permutes(array', array)
  /\ UNCHANGED window

Spec == Init /\ [][Sort]_vars
=============================================================================
