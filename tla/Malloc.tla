------------------------------- MODULE Malloc -------------------------------
(***************************************************************************)
(* The arena allocator of src/malloc.c.  The circular list of blocks is    *)
(* the sequence blocks, from tail->next to the tail: the last block is the *)
(* tail, and what the code inserts after the tail goes to the front.       *)
(***************************************************************************)
EXTENDS Integers, Sequences, SequencesExt

CONSTANTS
  Base, ArenaSize, Sizes, Alignments,
  SizeModulus,     \* size_t arithmetic is modulo SizeModulus
  AlignedAnywhere  \* FALSE: the client asks for aligned memory only while
                   \* the tail has room for it, padding included

ASSUME ArenaAssumption ==
  /\ Base \in Nat \ {0} /\ ArenaSize \in Nat \ {0}
  /\ Sizes \subseteq Nat /\ Alignments \subseteq Nat
  /\ SizeModulus \in Nat /\ Base + ArenaSize < SizeModulus
  /\ AlignedAnywhere \in BOOLEAN

VARIABLES
  blocks,  \* the list; free is 0 when the block is allocated
  live,    \* regions the client got and did not free
  ret      \* the last malloc's size, alignment and result

vars == <<blocks, live, ret>>

NULL == 0
SizeT(n) == n % SizeModulus
N == Len(blocks)
tail == blocks[N]
Block(space, free) == [space |-> space, free |-> free]

(* pelib_mem_malloc_init *)
Init ==
  /\ blocks = <<Block(Base, ArenaSize)>>
  /\ live = {}
  /\ ret = [size |-> 0, alignment |-> 0, ptr |-> NULL]

-----------------------------------------------------------------------------
(* Bytes skipped to align an address; a whole alignment when it is aligned *)
(* already.                                                                *)
Skip(space, alignment) == alignment - (space % alignment)

TailServes(size, alignment) ==
  IF alignment <= 1 THEN tail.free >= size
  ELSE \/ tail.space % alignment = 0
       \/ SizeT(tail.free - alignment + (tail.space % alignment)) >= size

(* The request is taken from the tail, whose rest becomes the new tail,    *)
(* even when it is empty; the skipped bytes become a free block.           *)
FromTail(size, alignment) ==
  IF alignment <= 1 \/ tail.space % alignment = 0
  THEN [ptr |-> tail.space,
        blocks |-> Front(blocks) \o << Block(tail.space, 0),
                                       Block(tail.space + size, SizeT(tail.free - size)) >>]
  ELSE LET skip == Skip(tail.space, alignment)
       IN [ptr |-> tail.space + skip,
           blocks |-> Front(blocks) \o
             << Block(tail.space, skip), Block(tail.space + skip, 0),
                Block(tail.space + size + skip, SizeT(tail.free - size - skip)) >>]

(* The block before the j-th one: the tail comes before the first.         *)
Before(j) == IF j = 1 THEN tail ELSE blocks[j - 1]

(* Slip: the search wants strictly more room than asked. *)
SearchPassesExact(j, size, alignment) == blocks[j].free <= size

(* The condition of the search loop, which goes past the j-th block when   *)
(* it holds.  With an alignment it looks at the block before it.           *)
SearchPasses(j, size, alignment) ==
  LET b1 == Before(j)
      r  == b1.space % alignment
  IN IF alignment <= 1 THEN blocks[j].free < size
     ELSE \/ r # 0 /\ SizeT(b1.free - alignment + r) < size
          \/ r = 0 /\ blocks[j].free < size

(* parts replaces the j-th block; the head of parts stays the tail if it   *)
(* was the tail.                                                           *)
Splice(j, parts) ==
  IF j = N THEN Tail(parts) \o Front(blocks) \o <<Head(parts)>>
  ELSE SubSeq(blocks, 1, j - 1) \o parts \o SubSeq(blocks, j + 1, N)

(* Slip: what is left of a larger block is not given back to the list. *)
FromBlockUnsplit(j, size, alignment) ==
  [ptr |-> blocks[j].space, blocks |-> Splice(j, <<Block(blocks[j].space, 0)>>)]

(* The j-th block is split: skipped bytes first if an alignment is asked,  *)
(* then the request, then what is left.                                    *)
FromBlock(j, size, alignment) ==
  LET b2      == blocks[j]
      skips   == b2.free > size /\ alignment > 1
      skip    == Skip(b2.space, alignment)
      space   == IF skips THEN b2.space + skip ELSE b2.space
      free    == IF skips THEN SizeT(b2.free - skip) ELSE b2.free
      skipped == IF skips THEN <<Block(b2.space, SizeT(b2.free - free))>> ELSE <<>>
      rest    == IF free > size THEN <<Block(space + size, free - size)>> ELSE <<>>
  IN [ptr |-> space, blocks |-> Splice(j, skipped \o <<Block(space, 0)>> \o rest)]

(* pelib_mem_malloc *)
MallocResult(size, alignment) ==
  LET found == {j \in 1 .. N : ~SearchPasses(j, size, alignment)}
  IN IF size = 0 THEN [ptr |-> NULL, blocks |-> blocks]
     ELSE IF TailServes(size, alignment) THEN FromTail(size, alignment)
     ELSE IF found = {} THEN [ptr |-> NULL, blocks |-> blocks]
     ELSE FromBlock(Min(found), size, alignment)

(* Slip: a block freed before a free one is not merged with it. *)
FreeResultNoMerge(ptr) ==
  LET found == {j \in 1 .. N - 1 : blocks[j].space = ptr}
      j     == Min(found)
      first == IF j > 1 /\ blocks[j - 1].free > 0 THEN j - 1 ELSE j
      last  == IF j + 1 = N THEN N ELSE j
      freed == SizeT(blocks[j + 1].space - blocks[j].space)
  IN IF found = {} THEN blocks
     ELSE SubSeq(blocks, 1, first - 1)
            \o << Block(blocks[first].space,
                        freed + (IF first < j THEN blocks[first].free ELSE 0)
                              + (IF last > j THEN blocks[last].free ELSE 0)) >>
            \o SubSeq(blocks, last + 1, N)

(* pelib_mem_free: the first block that starts at ptr, unless it is the    *)
(* tail, is merged with its free neighbours; the tail counts as free, and  *)
(* the first block has no predecessor to merge with.                       *)
FreeResult(ptr) ==
  LET found == {j \in 1 .. N - 1 : blocks[j].space = ptr}
      j     == Min(found)
      first == IF j > 1 /\ blocks[j - 1].free > 0 THEN j - 1 ELSE j
      last  == IF blocks[j + 1].free > 0 \/ j + 1 = N THEN j + 1 ELSE j
      freed == SizeT(blocks[j + 1].space - blocks[j].space)
  IN IF found = {} THEN blocks
     ELSE SubSeq(blocks, 1, first - 1)
            \o << Block(blocks[first].space,
                        freed + (IF first < j THEN blocks[first].free ELSE 0)
                              + (IF last > j THEN blocks[last].free ELSE 0)) >>
            \o SubSeq(blocks, last + 1, N)

-----------------------------------------------------------------------------
(* The tail can serve an aligned request without running out. *)
TailHasRoom(size, alignment) ==
  tail.free >= size + (IF tail.space % alignment = 0 THEN 0 ELSE Skip(tail.space, alignment))

Malloc(size, alignment) ==
  /\ alignment > 1 => AlignedAnywhere \/ TailHasRoom(size, alignment)
  /\ LET m == MallocResult(size, alignment)
     IN /\ blocks' = m.blocks
        /\ ret' = [size |-> size, alignment |-> alignment, ptr |-> m.ptr]
        /\ live' = IF m.ptr = NULL THEN live
                   ELSE live \cup {[ptr |-> m.ptr, size |-> size]}

(* The client frees a region, frees one twice, or passes an address it     *)
(* never got.                                                              *)
Free(ptr) ==
  /\ blocks' = FreeResult(ptr)
  /\ live' = {region \in live : region.ptr # ptr}
  /\ UNCHANGED ret

Next ==
  \/ \E size \in Sizes, alignment \in Alignments : Malloc(size, alignment)
  \/ \E ptr \in Base .. Base + ArenaSize : Free(ptr)

Spec == Init /\ [][Next]_vars

-----------------------------------------------------------------------------
End(region) == region.ptr + region.size

TypeOK ==
  /\ blocks \in Seq([space: Base .. Base + ArenaSize, free: 0 .. ArenaSize])
  /\ blocks # <<>>
  /\ live \subseteq [ptr: Base .. Base + ArenaSize, size: Sizes]
  /\ ret \in [size: Sizes \cup {0}, alignment: Alignments \cup {0},
              ptr: {NULL} \cup Base .. Base + ArenaSize]

(* The blocks tile the arena in address order; the space of a block always *)
(* points to its beginning, and a free block is free up to the next one.   *)
(* No two free blocks are neighbours, so a hole is never hidden in pieces. *)
BlocksTileArena ==
  /\ TypeOK
  /\ blocks[1].space = Base
  /\ tail.space + tail.free = Base + ArenaSize
  /\ \A j \in 1 .. N - 1 :
       /\ blocks[j].space < blocks[j + 1].space
       /\ blocks[j].free \in {0, blocks[j + 1].space - blocks[j].space}
       /\ blocks[j].free > 0 => j + 1 < N /\ blocks[j + 1].free = 0

(* The regions the client holds are exactly the allocated blocks: a free   *)
(* of one region, of a stale pointer or of a wrong one never releases      *)
(* another region, and no block is lost.                                   *)
LiveAreBlocks ==
  live = {[ptr |-> blocks[j].space, size |-> blocks[j + 1].space - blocks[j].space] :
            j \in {i \in 1 .. N - 1 : blocks[i].free = 0}}

(* malloc.c:54-55: the tail serves an aligned request when it "can handle  *)
(* the size requested even after skipping as many bytes as necessary".     *)
(* So every region lies in the arena and no two of them overlap.           *)
RegionsDisjoint ==
  /\ \A region \in live : region.ptr >= Base /\ End(region) <= Base + ArenaSize
  /\ \A r1, r2 \in live : r1 = r2 \/ End(r1) <= r2.ptr \/ End(r2) <= r1.ptr

(* The block list implements the allocator: malloc returns NULL only when  *)
(* no hole of the arena, however it came to be, would fit, and otherwise   *)
(* the beginning of a hole, at a multiple of the alignment asked for.      *)
AllocatorSpec == INSTANCE Allocator
ImplementsAllocator == AllocatorSpec!Spec
=============================================================================
