-------------------------------- MODULE Fifo --------------------------------
(***************************************************************************)
(* One circular fifo used by one thread: every operation of fifo.c that    *)
(* changes it is an action.  Besides the calls, the client may write       *)
(* elements in place, through the addresses writeaddr returned, and commit *)
(* them later with fill; it may read in between, but it adds nothing by    *)
(* push or pushmem while it has uncommitted elements.                      *)
(***************************************************************************)
EXTENDS CFifo

CONSTANTS
  Capacity,    \* slots of the buffer
  MaxRequest   \* bound on the number of elements one call asks for

(* The code computes "% capacity" in fill, discard and writeaddr without a *)
(* test for 0.                                                             *)
ASSUME CapacityAssumption == Capacity \in Nat \ {0}
ASSUME RequestAssumption == MaxRequest \in Nat

VARIABLES
  fifo,    \* the struct cfifo
  staged,  \* elements the client wrote in place and did not commit yet
  call     \* the last call: what was asked, the number it returned and the
           \* elements it copied out

vars == <<fifo, staged, call>>

Returns(asked, num, data) == call' = [asked |-> asked, num |-> num, data |-> data]

Init ==
  /\ \E buffer \in [0 .. Capacity - 1 -> Value] :
       \/ fifo = InitFifo(buffer, Capacity)
       \/ \E length \in 0 .. Capacity : fifo = FromArray(buffer, Capacity, length)
  /\ staged = <<>>
  /\ call = [asked |-> <<>>, num |-> 0, data |-> <<>>]

(* pelib_cfifo_push *)
PushElem(elem) ==
  /\ staged = <<>>
  /\ IF CanPush(fifo) THEN fifo' = Push(fifo, elem) /\ Returns(<<"push", elem>>, 1, <<>>)
     ELSE UNCHANGED fifo /\ Returns(<<"push", elem>>, 0, <<>>)
  /\ UNCHANGED staged

(* pelib_cfifo_pop *)
PopElem ==
  /\ fifo' = Pop(fifo)
  /\ Returns(<<"pop">>, 1, <<Peek(fifo, 0)>>)
  /\ UNCHANGED staged

(* pelib_cfifo_pushmem *)
PushMany(mem) ==
  /\ staged = <<>>
  /\ fifo' = PushMem(fifo, mem)
  /\ Returns(<<"pushmem", mem>>, PushMemCount(fifo, mem), <<>>)
  /\ UNCHANGED staged

(* pelib_cfifo_popmem *)
PopMany(num) ==
  /\ fifo' = PopMem(fifo, num)
  /\ Returns(<<"popmem", num>>, Len(PopMemData(fifo, num)), PopMemData(fifo, num))
  /\ UNCHANGED staged

(* pelib_cfifo_discard *)
DiscardMany(num) ==
  /\ fifo' = Discard(fifo, num)
  /\ Returns(<<"discard", num>>, DiscardCount(fifo, num), <<>>)
  /\ UNCHANGED staged

(* Where the client writes its k-th element (from 0): in the num slots at  *)
(* the address writeaddr returns, then from the address of the rest.       *)
StageSlot(f, k) ==
  LET w == WriteAddr(f) IN IF k < w.num THEN w.addr + k ELSE w.rest + (k - w.num)

(* The client writes one element in place; it never writes more than fit. *)
StageElem(elem) ==
  /\ Len(staged) < Capacity - Length(fifo)
  /\ fifo' = [fifo EXCEPT !.buffer = [@ EXCEPT ![StageSlot(fifo, Len(staged))] = elem]]
  /\ staged' = Append(staged, elem)
  /\ UNCHANGED call

(* pelib_cfifo_fill *)
FillMany(num) ==
  /\ fifo' = Fill(fifo, num)
  /\ Returns(<<"fill", num>>, FillCount(fifo, num), <<>>)
  /\ staged' = SubSeq(staged, Least(FillCount(fifo, num), Len(staged)) + 1, Len(staged))

Next ==
  \/ \E elem \in Value : PushElem(elem) \/ StageElem(elem)
  \/ PopElem
  \/ \E num \in 0 .. MaxRequest : PopMany(num) \/ DiscardMany(num) \/ FillMany(num)
  \/ \E num \in 0 .. MaxRequest : \E mem \in [1 .. num -> Value] : PushMany(mem)

Spec == Init /\ [][Next]_vars

-----------------------------------------------------------------------------
(***************************************************************************)
(* Properties                                                              *)
(***************************************************************************)

(* The struct always has its type: the indices stay inside the buffer.     *)
TypeOK ==
  /\ fifo \in CFifoOf(Capacity)
  /\ staged \in Seq(Value)
  /\ call.num \in Nat /\ call.data \in Seq(Value)

(* The elements written in place sit, in order, in the free slots that     *)
(* follow the content, whatever was popped or committed since writeaddr    *)
(* handed out the addresses.                                               *)
StagedInPlace ==
  /\ Len(staged) <= Capacity - Length(fifo)
  /\ \A k \in 1 .. Len(staged) :
       fifo.buffer[Slot(fifo, Length(fifo) + k - 1)] = staged[k]

(* The observers agree with the content: peek at any offset, last,         *)
(* is_full and is_empty never report an element that is not there.         *)
ObserversAgree ==
  /\ \A offset \in 0 .. Capacity :
       Peek(fifo, offset) = IF offset < Length(fifo) THEN Content(fifo)[offset + 1]
                            ELSE Default
  /\ Last(fifo) = IF Length(fifo) = 0 THEN Default ELSE Content(fifo)[Length(fifo)]
  /\ (State(fifo) = "FULL") <=> (Length(fifo) = Capacity)
  /\ (State(fifo) = "EMPTY") <=> (Length(fifo) = 0)

(* A reader who takes num elements at the address peekaddr(0) returns and  *)
(* the others at the address of the rest reads the content, in order; the  *)
(* rest is NULL exactly when there are no others.  From an empty fifo the  *)
(* reader gets NULL and no element, and its pointer to the rest still      *)
(* leads where it led before (fifo.c:371).                                 *)
ReadWindowsCoverContent ==
  \A held \in NULL .. Capacity - 1 :
    LET r == PeekAddr(fifo, 0, held)
    IN /\ r.num <= Length(fifo)
       /\ (r.addr = NULL) <=> (Length(fifo) = 0)
       /\ IF Length(fifo) = 0 THEN r.rest = held
          ELSE (r.rest = NULL) <=> (r.num = Length(fifo))
       /\ \A k \in 1 .. Length(fifo) :
            Slot(fifo, k - 1) = IF k <= r.num THEN r.addr + (k - 1)
                                ELSE r.rest + (k - 1 - r.num)

(* The windows writeaddr returns are exactly the slots that hold no        *)
(* element, so a client that writes in place overwrites nothing; the first *)
(* one begins right behind the content.  Of a full fifo they are empty,    *)
(* but the address is still not NULL (fifo.c:384, unlike fifo.h:106): it   *)
(* is that of the first element.                                           *)
WriteWindowsCoverFree ==
  LET w == WriteAddr(fifo)
      inRest == Capacity - Length(fifo) - w.num
  IN /\ inRest >= 0
     /\ w.addr = Slot(fifo, Length(fifo))
     /\ (inRest > 0) <=> (w.rest # NULL /\ w.num > 0)
     /\ {StageSlot(fifo, k) : k \in 0 .. Capacity - Length(fifo) - 1}
          = {i \in 0 .. Capacity - 1 : IsInContent(fifo, i) < 0}

(* Within the bounds of the content, peekmem copies the elements asked.    *)
PeekMemWithinContent ==
  \A offset \in 0 .. Length(fifo) : \A num \in 0 .. Length(fifo) - offset :
    PeekMem(fifo, num, offset) = SubSeq(Content(fifo), offset + 1, offset + num)

(* A fifo turned into an array and back holds the same elements.           *)
ArrayRoundTrip ==
  LET array == ArrayFromCFifo(fifo)
      data  == [i \in 0 .. Len(array) - 1 |-> array[i + 1]]
  IN Length(fifo) > 0 =>
       Content(FromArray(data, Len(array), Len(array))) = Content(fifo)

(* fifo.h:137, of peekmem: "Number of elemetns that could actually be      *)
(* read".  So never more than the fifo holds.                              *)
PeekMemReturnsAvailable ==
  \A num \in 0 .. MaxRequest : Len(PeekMem(fifo, num, 0)) <= Length(fifo)

(* fifo.h:102, of peekaddr: "writes the number of elements available in    *)
(* address pointer by num".  So every slot of the window is in the buffer  *)
(* and holds an element.                                                   *)
PeekAddrWindowReadable ==
  \A offset \in 0 .. Capacity - 1 :
    LET r == PeekAddr(fifo, offset, NULL)
    IN \A i \in r.addr .. r.addr + r.num - 1 : i < Capacity /\ IsInContent(fifo, i) > 0

(* Every call has the effect and the result of the same call on a bounded  *)
(* queue, and writing in place does not change the queue.                  *)
Queue == INSTANCE BoundedQueue WITH queue <- Content(fifo)
ImplementsQueue == Queue!Spec
=============================================================================
