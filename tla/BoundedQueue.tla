---------------------------- MODULE BoundedQueue ----------------------------
(***************************************************************************)
(* What a fifo of include/pelib/fifo.h promises: a bounded queue of values *)
(* and, next to it, the elements the client has written in place through   *)
(* writeaddr and not yet committed with fill.  call is the last call: what *)
(* was asked, the number it returned and the elements it copied out.       *)
(***************************************************************************)
EXTENDS Integers, Sequences

CONSTANTS Value, Default, Capacity, MaxRequest

VARIABLES queue, staged, call
vars == <<queue, staged, call>>

AtMost(a, b) == IF a < b THEN a ELSE b
Free == Capacity - Len(queue)

(* asked first: TLC finds at once that another call was made. *)
Returns(asked, num, data) ==
  /\ call'.asked = asked
  /\ call' = [asked |-> asked, num |-> num, data |-> data]

(* A fifo is empty, or made of an array that holds elements already. *)
Init ==
  /\ queue \in UNION {[1 .. n -> Value] : n \in 0 .. Capacity}
  /\ staged = <<>>
  /\ call = [asked |-> <<>>, num |-> 0, data |-> <<>>]

Push(elem) ==
  /\ staged = <<>>
  /\ \/ Returns(<<"push", elem>>, 1, <<>>) /\ Free > 0 /\ queue' = Append(queue, elem)
     \/ Returns(<<"push", elem>>, 0, <<>>) /\ Free = 0 /\ UNCHANGED queue
  /\ UNCHANGED staged

Pop ==
  /\ \/ queue # <<>> /\ Returns(<<"pop">>, 1, <<Head(queue)>>) /\ queue' = Tail(queue)
     \/ queue = <<>> /\ UNCHANGED queue /\ Returns(<<"pop">>, 1, <<Default>>)
  /\ UNCHANGED staged

PushMem(mem) ==
  /\ staged = <<>>
  /\ Returns(<<"pushmem", mem>>, AtMost(Free, Len(mem)), <<>>)
  /\ queue' = queue \o SubSeq(mem, 1, AtMost(Free, Len(mem)))
  /\ UNCHANGED staged

PopMem(num) ==
  LET k == AtMost(num, Len(queue))
  IN /\ Returns(<<"popmem", num>>, k, SubSeq(queue, 1, k))
     /\ queue' = SubSeq(queue, k + 1, Len(queue))
     /\ UNCHANGED staged

Discard(num) ==
  LET k == AtMost(num, Len(queue))
  IN /\ Returns(<<"discard", num>>, k, <<>>)
     /\ queue' = SubSeq(queue, k + 1, Len(queue))
     /\ UNCHANGED staged

(* The client writes the next free slot it was given. *)
Stage(elem) ==
  /\ Len(staged) < Free
  /\ staged' = Append(staged, elem)
  /\ UNCHANGED <<queue, call>>

(* The client commits the first num slots; those it did not write hold     *)
(* whatever was there before.                                              *)
Fill(num) ==
  LET k       == AtMost(num, Free)
      written == AtMost(k, Len(staged))
  IN /\ Returns(<<"fill", num>>, k, <<>>)
     /\ \E junk \in [1 .. k - written -> Value] :
          queue' = queue \o SubSeq(staged, 1, written) \o junk
     /\ staged' = SubSeq(staged, written + 1, Len(staged))

Next ==
  \/ \E elem \in Value : Push(elem) \/ Stage(elem)
  \/ Pop
  \/ \E num \in 0 .. MaxRequest : PopMem(num) \/ Discard(num) \/ Fill(num)
  \/ \E num \in 0 .. MaxRequest : \E mem \in [1 .. num -> Value] : PushMem(mem)

Spec == Init /\ [][Next]_vars
=============================================================================
