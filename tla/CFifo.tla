------------------------------- MODULE CFifo -------------------------------
(***************************************************************************)
(* The circular fifo of include/pelib/fifo.c as operators over the struct  *)
(* cfifo: a record with the fields read, write, last_op, capacity and      *)
(* buffer.  Nothing here has a state of its own: the modules Fifo and      *)
(* FifoPipe keep one and two of these records as variables.                *)
(***************************************************************************)
EXTENDS Integers, Sequences

CONSTANTS
  Value,    \* the elements a fifo stores (type CFIFO_T)
  Default   \* what pelib_init(CFIFO_T) gives: returned when nothing can be read

ASSUME DefaultAssumption == Default \in Value

Least(a, b) == IF a < b THEN a ELSE b

(* Every struct cfifo with a buffer of c slots. *)
CFifoOf(c) ==
  [read: 0 .. c - 1, write: 0 .. c - 1, last_op: {"PUSH", "POP"},
   capacity: {c}, buffer: [0 .. c - 1 -> Value]]

(* A freshly allocated and initialised fifo: its buffer holds anything. *)
InitFifo(buffer, c) ==
  [read |-> 0, write |-> 0, last_op |-> "POP", capacity |-> c, buffer |-> buffer]

(* Slip: the adopted array's elements are not recorded as a push. *)
FromArrayPopped(data, capacity, length) ==
  [read |-> 0, write |-> length % capacity, last_op |-> "POP",
   capacity |-> capacity, buffer |-> data]

(* pelib_cfifo_from_array: the fifo adopts the array's storage. *)
FromArray(data, capacity, length) ==
  [read |-> 0, write |-> length % capacity,
   last_op |-> IF length > 0 THEN "PUSH" ELSE "POP",
   capacity |-> capacity, buffer |-> data]

(***************************************************************************)
(* Classification and lengths                                              *)
(***************************************************************************)
State(f) ==
  IF f.read = f.write THEN IF f.last_op = "POP" THEN "EMPTY" ELSE "FULL"
  ELSE IF f.read < f.write THEN "NORMAL" ELSE "REVERSE"

Length(f) ==
  IF State(f) = "EMPTY" THEN 0
  ELSE IF State(f) = "NORMAL" THEN f.write - f.read
  ELSE IF State(f) = "REVERSE" THEN f.capacity - (f.read - f.write)
  ELSE f.capacity

(* Slip: a full fifo is taken to be contiguous from read on. *)
ContinuousReadLengthWhole(f) ==
  IF State(f) = "REVERSE" THEN f.capacity - f.read ELSE Length(f)

ContinuousReadLength(f) ==
  IF State(f) \in {"FULL", "REVERSE"} THEN f.capacity - f.read
  ELSE IF State(f) = "EMPTY" THEN 0
  ELSE f.write - f.read

(* Slip: an empty fifo falls through to the case of a reversed one. *)
ContinuousWriteLengthEmptyReversed(f) ==
  IF State(f) = "FULL" THEN 0
  ELSE IF State(f) \in {"EMPTY", "REVERSE"} THEN f.read - f.write
  ELSE f.capacity - f.write

(* Slip: the free slots are taken to reach the end of the buffer. *)
ContinuousWriteLengthToEnd(f) == IF State(f) = "FULL" THEN 0 ELSE f.capacity - f.write

ContinuousWriteLength(f) ==
  IF State(f) = "FULL" THEN 0
  ELSE IF State(f) = "REVERSE" THEN f.read - f.write
  ELSE f.capacity - f.write

(* is_in_content: the sign says whether the slot holds an element, bits 1  *)
(* and 2 whether it is the one at read and the one at write.               *)
IsInContent(f, index) ==
  LET bits == 1 + (IF index = f.read THEN 2 ELSE 0) + (IF index = f.write THEN 4 ELSE 0)
      outside == \/ State(f) = "NORMAL" /\ (index < f.read \/ index >= f.write)
                 \/ State(f) = "REVERSE" /\ index >= f.write /\ index < f.read
                 \/ State(f) = "EMPTY"
  IN IF outside THEN -bits ELSE bits

(***************************************************************************)
(* One element                                                             *)
(***************************************************************************)
CanPush(f) == f.capacity > 0 /\ State(f) # "FULL"

Push(f, elem) ==
  [f EXCEPT !.buffer = [@ EXCEPT ![f.write] = elem],
            !.write = (f.write + 1) % f.capacity,
            !.last_op = "PUSH"]

(* An address in the buffer is an index into it. *)
NULL == -1

(* Slip: the slot one past the last element can be peeked. *)
PeekAddrPastLast(f, offset, held) ==
  IF f.capacity > 0 /\ offset <= Length(f) /\ State(f) # "EMPTY"
  THEN LET avail == ContinuousReadLength(f)
           next == (f.read + offset + avail) % f.capacity
       IN [addr |-> (f.read + offset) % f.capacity, num |-> avail,
           rest |-> IF next # f.write THEN next ELSE NULL]
  ELSE [addr |-> NULL, num |-> 0, rest |-> held]

(* Besides the address, peekaddr and writeaddr write num and the address   *)
(* of the rest for the caller.  With nothing to read, peekaddr leaves the  *)
(* latter as the caller held it.                                           *)
PeekAddr(f, offset, held) ==
  IF f.capacity > 0 /\ offset < Length(f) /\ State(f) # "EMPTY"
  THEN LET avail == ContinuousReadLength(f)
           next == (f.read + offset + avail) % f.capacity
       IN [addr |-> (f.read + offset) % f.capacity, num |-> avail,
           rest |-> IF next # f.write THEN next ELSE NULL]
  ELSE [addr |-> NULL, num |-> 0, rest |-> held]

WriteAddr(f) ==
  LET avail == ContinuousWriteLength(f)
      next == (f.write + avail) % f.capacity
  IN [addr |-> f.write, num |-> avail, rest |-> IF next # f.read THEN next ELSE NULL]

Peek(f, offset) ==
  LET addr == PeekAddr(f, offset, NULL).addr
  IN IF addr # NULL THEN f.buffer[addr] ELSE Default

Last(f) == IF Length(f) <= 0 THEN Default ELSE Peek(f, Length(f) - 1)

Pop(f) ==
  IF PeekAddr(f, 0, NULL).addr # NULL
  THEN [f EXCEPT !.read = (f.read + 1) % f.capacity, !.last_op = "POP"]
  ELSE f

(***************************************************************************)
(* Several elements                                                        *)
(***************************************************************************)
FillCount(f, num) == Least(f.capacity - Length(f), num)
(* Slip: the write index is not wrapped. *)
FillUnwrapped(f, num) ==
  [f EXCEPT !.write = f.write + FillCount(f, num),
            !.last_op = IF FillCount(f, num) > 0 THEN "PUSH" ELSE @]

Fill(f, num) ==
  [f EXCEPT !.write = (f.write + FillCount(f, num)) % f.capacity,
            !.last_op = IF FillCount(f, num) > 0 THEN "PUSH" ELSE @]

DiscardCount(f, num) == Least(num, Length(f))
(* Slip: a fifo emptied by discard starts again from slot 0. *)
DiscardRewinds(f, num) ==
  LET read == (f.read + DiscardCount(f, num)) % f.capacity
  IN IF DiscardCount(f, num) = Length(f)
     THEN [f EXCEPT !.read = 0, !.write = 0, !.last_op = "POP"]
     ELSE [f EXCEPT !.read = read, !.last_op = IF DiscardCount(f, num) > 0 THEN "POP" ELSE @]

Discard(f, num) ==
  [f EXCEPT !.read = (f.read + DiscardCount(f, num)) % f.capacity,
            !.last_op = IF DiscardCount(f, num) > 0 THEN "POP" ELSE @]

(* memcpy of length elements of mem, starting at mem[from], into the slots *)
(* from write on.                                                          *)
CopyIn(f, mem, from, length) ==
  [i \in DOMAIN f.buffer |-> IF i \in f.write .. f.write + length - 1
                             THEN mem[from + (i - f.write)] ELSE f.buffer[i]]

(* The elements in length slots from read on, as memcpy reads them. *)
CopyOut(f, length) == [i \in 1 .. length |-> f.buffer[f.read + (i - 1)]]

(* One activation of pushmem without its recursive call: mem from index    *)
(* from on, num elements requested.                                        *)
PushSegmentCount(f, num) ==
  LET left == IF State(f) \in {"EMPTY", "NORMAL"} THEN f.capacity - f.write
              ELSE f.read - f.write
  IN Least(left, num)
PushSegment(f, mem, from, num) ==
  LET length == PushSegmentCount(f, num)
      end == f.write + length
  IN [f EXCEPT !.buffer = CopyIn(f, mem, from, length),
               !.write = IF State(f) \in {"EMPTY", "NORMAL"} THEN end % f.capacity ELSE end,
               !.last_op = IF length > 0 THEN "PUSH" ELSE @]

(* The recursive call is made from EMPTY or NORMAL only, when the end of   *)
(* the buffer is reached; it finds the fifo FULL or REVERSE and so never   *)
(* makes another (CFifoProofs, PushMemRecursion).                           *)
PushMemWraps(f, num) ==
  State(f) \in {"EMPTY", "NORMAL"} /\ f.capacity - f.write < num
(* Slip: the recursive call copies from the start of mem again. *)
PushMemRestarts(f, mem) ==
  LET num   == Len(mem)
      first == PushSegment(f, mem, 1, num)
      k     == PushSegmentCount(f, num)
  IN IF PushMemWraps(f, num) THEN PushSegment(first, mem, 1, num - k) ELSE first

PushMem(f, mem) ==
  LET num   == Len(mem)
      first == PushSegment(f, mem, 1, num)
      k     == PushSegmentCount(f, num)
  IN IF PushMemWraps(f, num) THEN PushSegment(first, mem, k + 1, num - k) ELSE first
PushMemCount(f, mem) ==
  LET num == Len(mem)
      k   == PushSegmentCount(f, num)
  IN IF PushMemWraps(f, num)
     THEN k + PushSegmentCount(PushSegment(f, mem, 1, num), num - k) ELSE k

(* popmem mirrors pushmem: it recurses from FULL or REVERSE only. *)
PopSegmentCount(f, num) ==
  LET left == IF State(f) \in {"FULL", "REVERSE"} THEN f.capacity - f.read
              ELSE f.write - f.read
  IN Least(left, num)
PopSegment(f, num) ==
  LET length == PopSegmentCount(f, num)
      end == f.read + length
  IN [f EXCEPT !.read = IF State(f) \in {"FULL", "REVERSE"} THEN end % f.capacity ELSE end,
               !.last_op = IF length > 0 THEN "POP" ELSE @]
PopMemWraps(f, num) ==
  State(f) \in {"FULL", "REVERSE"} /\ f.capacity - f.read < num
PopMem(f, num) ==
  LET first == PopSegment(f, num)
  IN IF PopMemWraps(f, num) THEN PopSegment(first, num - PopSegmentCount(f, num)) ELSE first
PopMemData(f, num) ==
  LET first == PopSegment(f, num)
      k     == PopSegmentCount(f, num)
  IN IF PopMemWraps(f, num)
     THEN CopyOut(f, k) \o CopyOut(first, PopSegmentCount(first, num - k))
     ELSE CopyOut(f, k)

(* peekmem works on a copy whose read index has been moved.  copy keeps    *)
(* the last_op of the fifo, and the recursive call moves it to slot 0.     *)
(* Slip: the recursive call is left out. *)
PeekMemOneSegment(f, num, offset) ==
  LET r == (f.read + offset) % f.capacity
      copy == [f EXCEPT !.read = r]
  IN IF State(copy) \in {"FULL", "REVERSE"} THEN CopyOut(copy, Least(f.capacity - r, num))
     ELSE CopyOut(copy, Least(f.write - r, num))

PeekMem(f, num, offset) ==
  LET walk[n \in 0 .. num] == [r \in 0 .. f.capacity - 1 |->
        LET copy == [f EXCEPT !.read = r]
            left == f.capacity - r
        IN IF State(copy) \in {"FULL", "REVERSE"}
           THEN IF left < n THEN CopyOut(copy, left) \o walk[n - left][0]
                ELSE CopyOut(copy, n)
           ELSE CopyOut(copy, Least(f.write - r, n))]
  IN walk[num][(f.read + offset) % f.capacity]

(* pelib_array_from_cfifo: the fifo popped whole into an array of its size. *)
ArrayFromCFifo(f) == PopMemData(f, Length(f))

(***************************************************************************)
(* The queue a fifo stands for: its elements, oldest first.  This is the   *)
(* meaning given to the struct, not an operation of the code.              *)
(***************************************************************************)
Slot(f, k) == (f.read + k) % f.capacity
Content(f) == [i \in 1 .. Length(f) |-> f.buffer[Slot(f, i - 1)]]
=============================================================================
