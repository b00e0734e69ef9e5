-------------------------- MODULE ConcurrentStack --------------------------
(***************************************************************************)
(* What the thread-safe operations of include/pelib/stack.h promise: a     *)
(* call takes effect once, at one instant between its start and its        *)
(* return, on a last-in first-out stack shared by the threads.             *)
(***************************************************************************)
EXTENDS Integers, Sequences

CONSTANTS Threads, Value, None

VARIABLES
  content,  \* the values on the stack, the top first
  pending   \* for each thread, the call in progress
vars == <<content, pending>>

Idle == [op |-> "idle", val |-> None]
Init == content = <<>> /\ pending = [t \in Threads |-> Idle]

CallPush(t, v) ==
  /\ pending[t] = Idle
  /\ pending' = [pending EXCEPT ![t] = [op |-> "push", val |-> v]]
  /\ UNCHANGED content

CallPop(t) ==
  /\ pending[t] = Idle
  /\ pending' = [pending EXCEPT ![t] = [op |-> "pop", val |-> None]]
  /\ UNCHANGED content

DoPush(t) ==
  /\ pending[t].op = "push"
  /\ content' = <<pending[t].val>> \o content
  /\ pending' = [pending EXCEPT ![t] = [op |-> "done", val |-> None]]

(* A pop that finds the stack empty returns no value. *)
DoPop(t) ==
  /\ pending[t].op = "pop"
  /\ \/ /\ content # <<>>
        /\ content' = Tail(content)
        /\ pending' = [pending EXCEPT ![t] = [op |-> "done", val |-> Head(content)]]
     \/ /\ content = <<>>
        /\ pending' = [pending EXCEPT ![t] = [op |-> "done", val |-> None]]
        /\ UNCHANGED content

Return(t) ==
  /\ pending[t].op = "done"
  /\ pending' = [pending EXCEPT ![t] = Idle]
  /\ UNCHANGED content

Next ==
  \E t \in Threads :
    \/ \E v \in Value : CallPush(t, v)
    \/ CallPop(t) \/ DoPush(t) \/ DoPop(t) \/ Return(t)

Spec == Init /\ [][Next]_vars
=============================================================================
