----------------------------- MODULE Allocator -----------------------------
(***************************************************************************)
(* What a memory allocator over one arena promises: it hands out regions   *)
(* that lie in the arena, overlap no region still in use and start at a    *)
(* multiple of the alignment; it refuses a request only when no hole is    *)
(* large enough; and freeing anything that is not in use does nothing.     *)
(***************************************************************************)
EXTENDS Integers

CONSTANTS
  Base, ArenaSize,  \* the arena: ArenaSize bytes from address Base
  Sizes,            \* sizes the client asks for
  Alignments        \* alignments the client asks for; 0 and 1 ask for none

NULL == 0

VARIABLES
  live,  \* the regions in use
  ret    \* what the last malloc was asked for, and its result
vars == <<live, ret>>

Bytes(region) == region.ptr .. region.ptr + region.size - 1
Arena == Base .. Base + ArenaSize - 1
InUse == UNION {Bytes(region) : region \in live}
Aligned(ptr, alignment) == alignment > 1 => ptr % alignment = 0

(* Addresses where size bytes are in the arena and not in use. *)
Holes(size) == {ptr \in Arena : (ptr .. ptr + size - 1) \subseteq (Arena \ InUse)}

Init == live = {} /\ ret = [size |-> 0, alignment |-> 0, ptr |-> NULL]

Malloc(size, alignment) ==
  \/ /\ size > 0
     /\ \E ptr \in Holes(size) :
          /\ Aligned(ptr, alignment)
          /\ live' = live \cup {[ptr |-> ptr, size |-> size]}
          /\ ret' = [size |-> size, alignment |-> alignment, ptr |-> ptr]
  \/ /\ size = 0 \/ Holes(size) = {}
     /\ UNCHANGED live
     /\ ret' = [size |-> size, alignment |-> alignment, ptr |-> NULL]

Free(ptr) ==
  /\ live' = {region \in live : region.ptr # ptr}
  /\ UNCHANGED ret

Next ==
  \/ \E size \in Sizes, alignment \in Alignments : Malloc(size, alignment)
  \/ \E ptr \in Base .. Base + ArenaSize : Free(ptr)

Spec == Init /\ [][Next]_vars
=============================================================================
