------------------------------ MODULE FifoPipe ------------------------------
(***************************************************************************)
(* pelib_cfifo_popfifo between two fifos of different sizes, one round of  *)
(* its loop at a time.  Between two calls the client pushes to the source  *)
(* and pops from the target, so the rounds start at any alignment of the   *)
(* two rings.  The names of its specification begin with Pipe, so that one *)
(* module can extend Fifo and this one.                                    *)
(***************************************************************************)
EXTENDS CFifo

CONSTANTS SrcCapacity, TgtCapacity, MaxTransfer

ASSUME PipeAssumption ==
  /\ SrcCapacity \in Nat \ {0}
  /\ TgtCapacity \in Nat \ {0}
  /\ MaxTransfer \in Nat

VARIABLES
  src, tgt,  \* the two structs
  transfer   \* popfifo's arguments and locals: running, requested and num;
             \* due and rounds serve the properties only

pipeVars == <<src, tgt, transfer>>

PipeInit ==
  /\ src \in {InitFifo(b, SrcCapacity) : b \in [0 .. SrcCapacity - 1 -> {Default}]}
  /\ tgt \in {InitFifo(b, TgtCapacity) : b \in [0 .. TgtCapacity - 1 -> {Default}]}
  /\ transfer = [running |-> FALSE, requested |-> 0, num |-> 0, due |-> 0, rounds |-> 0]

Produce(elem) ==
  /\ ~transfer.running
  /\ CanPush(src) /\ src' = Push(src, elem)
  /\ UNCHANGED <<tgt, transfer>>

Consume ==
  /\ ~transfer.running
  /\ tgt' = Pop(tgt)
  /\ UNCHANGED <<src, transfer>>

(* due: what a call that moves all it can will have moved when it returns. *)
Call(num) ==
  /\ ~transfer.running
  /\ transfer' = [running |-> TRUE, requested |-> num, num |-> num, rounds |-> 0,
                  due |-> Least(num, Least(Length(src), TgtCapacity - Length(tgt)))]
  /\ UNCHANGED <<src, tgt>>

LoopCondition == transfer.num > 0 /\ State(src) # "EMPTY" /\ State(tgt) # "FULL"

(* Slip: the round ignores how much is still requested. *)
RoundLengthUncapped(num) == Least(ContinuousReadLength(src), ContinuousWriteLength(tgt))

MaxRounds == 3  \* bound of rounds: it is not counted past one more

RoundLength(num) ==
  LET length == Least(ContinuousReadLength(src), ContinuousWriteLength(tgt))
  IN Least(num, length)

(* Slip: the source is discarded one element short. *)
RoundDiscardsShort ==
  LET length == RoundLength(transfer.num)
  IN /\ transfer.running /\ LoopCondition
     /\ tgt' = Fill([tgt EXCEPT !.buffer =
                       CopyIn(tgt, CopyOut(src, length), 1, length)], length)
     /\ src' = Discard(src, length - 1)
     /\ transfer' = [transfer EXCEPT !.num = @ - length, !.rounds = Least(@ + 1, MaxRounds + 1)]

(* Slip: num is decremented by one a round, as if elements moved singly. *)
RoundCountsOne ==
  LET length == RoundLength(transfer.num)
  IN /\ transfer.running /\ LoopCondition
     /\ tgt' = Fill([tgt EXCEPT !.buffer =
                       CopyIn(tgt, CopyOut(src, length), 1, length)], length)
     /\ src' = Discard(src, length)
     /\ transfer' = [transfer EXCEPT !.num = @ - 1, !.rounds = Least(@ + 1, MaxRounds + 1)]

Round ==
  LET length == RoundLength(transfer.num)
  IN /\ transfer.running /\ LoopCondition
     /\ tgt' = Fill([tgt EXCEPT !.buffer =
                       CopyIn(tgt, CopyOut(src, length), 1, length)], length)
     /\ src' = Discard(src, length)
     /\ transfer' = [transfer EXCEPT !.num = @ - length, !.rounds = Least(@ + 1, MaxRounds + 1)]

Return ==
  /\ transfer.running /\ ~LoopCondition
  /\ transfer' = [transfer EXCEPT !.running = FALSE]
  /\ UNCHANGED <<src, tgt>>

PipeNext ==
  \/ \E elem \in Value : Produce(elem)
  \/ Consume
  \/ \E num \in 0 .. MaxTransfer : Call(num)
  \/ Round
  \/ Return

(* popfifo runs in its caller's thread: once called, it goes on. *)
PipeFairness == WF_pipeVars(Round) /\ WF_pipeVars(Return)
PipeSpec == PipeInit /\ [][PipeNext]_pipeVars /\ PipeFairness

-----------------------------------------------------------------------------
(* The structs keep their type, and the loop body runs at most three times *)
(* a call: the two rings are cut in at most three runs of contiguous slots.*)
PipeTypeOK ==
  /\ src \in CFifoOf(SrcCapacity)
  /\ tgt \in CFifoOf(TgtCapacity)
  /\ transfer \in [running: BOOLEAN, requested: Nat, num: Nat, due: Nat,
                   rounds: 0 .. MaxRounds]

(* A round of popfifo moves elements from the head of the source to the    *)
(* tail of the target and neither loses, repeats nor reorders one.         *)
RoundKeepsOrder ==
  [][transfer.running => Content(tgt') \o Content(src') = Content(tgt) \o Content(src)]_pipeVars

(* During the call, what was moved and what can still be moved add up to   *)
(* what a single copy would have moved: the wrap-arounds of the two rings  *)
(* never make it stop short or go beyond the request.                      *)
MovesAllItCan ==
  LET moved == transfer.requested - transfer.num
      room  == Least(Length(src), TgtCapacity - Length(tgt))
  IN transfer.running => moved + Least(transfer.num, room) = transfer.due

(* Every call returns.                                                     *)
CallReturns == transfer.running ~> ~transfer.running
=============================================================================
