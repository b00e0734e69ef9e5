------------------------------- MODULE Stack -------------------------------
(***************************************************************************)
(* The thread-safe operations of include/pelib/stack.c, on one stack       *)
(* shared by the threads and one pool of recycled elements per thread.     *)
(* A step is one access to shared memory; code that touches only the       *)
(* thread's own element or pool is one step.                               *)
(***************************************************************************)
EXTENDS Integers, Sequences, FiniteSets

CONSTANTS
  Threads, Value,
  Nodes,        \* the heap: the stack elements malloc can return
  NULL,         \* no element
  None,         \* no value
  Clients       \* the kinds of program that use the stack

PushOps == {"push_safe", "push_safe_managed"}
PopOps == {"pop_safe", "pop_safe_managed"}

ASSUME StackAssumption ==
  /\ IsFiniteSet(Nodes)
  /\ NULL \notin Nodes /\ None \notin Value
  /\ None \notin Threads
  /\ Clients \subseteq {"safe", "managed", "reckless"}

(* What a kind of program calls.  All but the reckless one call the        *)
(* managed pop only when their thread has pushed more than it popped,      *)
(* since that pop does not survive an empty stack.                         *)
OpsOf(kind) ==
  CASE kind = "safe"     -> {"push_safe", "pop_safe"}
    [] kind = "managed"  -> PushOps \cup PopOps
    [] kind = "reckless" -> {"push_safe_managed", "pop_safe_managed"}
Disciplined(kind) == kind = "managed"

VARIABLES
  top,        \* s->top
  next,       \* elem->next of every element
  buffer,     \* elem->buffer of every element
  allocated,  \* the elements malloc returned and nobody freed
  lock,       \* s->lock: the thread that holds it, or None
  pool,       \* for each thread, the top of its pool
  thread,     \* for each thread: pc, the operation, its local elem and value
  client,     \* the kind of program; it never changes
  balance     \* for each thread, pushes less pops it called (Disciplined)

vars == <<top, next, buffer, allocated, lock, pool, thread, client, balance>>

Idle == [pc |-> "idle", op |-> "none", elem |-> NULL, val |-> None]

Init ==
  /\ top = NULL
  /\ next \in [Nodes -> {NULL}]
  /\ \E v \in Value : buffer = [n \in Nodes |-> v]
  /\ allocated = {}
  /\ lock = None
  /\ pool = [t \in Threads |-> NULL]
  /\ thread = [t \in Threads |-> Idle]
  /\ client \in Clients
  /\ balance = [t \in Threads |-> 0]

-----------------------------------------------------------------------------
At(t, pc) == thread[t].pc = pc
Goto(t, pc) == thread' = [thread EXCEPT ![t].pc = pc]
GotoWith(t, pc, elem, val) ==
  thread' = [thread EXCEPT ![t].pc = pc, ![t].elem = elem, ![t].val = val]

(* Bound: a push is called only if malloc cannot run out of elements. *)
WillAllocate(t) == \/ At(t, "prepare") /\ pool[t] = NULL
                   \/ At(t, "alloc")
                   \/ At(t, "lock") /\ thread[t].op = "push_safe"
HeapBound(t, op) ==
  \/ op = "push_safe_managed" /\ pool[t] # NULL
  \/ Cardinality(allocated) + Cardinality({u \in Threads : WillAllocate(u)})
       < Cardinality(Nodes)

CallPush(t, op, v) ==
  /\ At(t, "idle") /\ op \in PushOps \cap OpsOf(client) /\ HeapBound(t, op)
  /\ thread' = [thread EXCEPT ![t] =
       [pc |-> IF op = "push_safe_managed" THEN "prepare" ELSE "lock",
        op |-> op, elem |-> NULL, val |-> v]]
  /\ balance' = IF Disciplined(client) THEN [balance EXCEPT ![t] = @ + 1] ELSE balance
  /\ UNCHANGED <<client, top, next, buffer, allocated, lock, pool>>

CallPop(t, op) ==
  /\ At(t, "idle") /\ op \in PopOps \cap OpsOf(client)
  /\ Disciplined(client) => balance[t] > 0
  /\ thread' = [thread EXCEPT ![t] = [pc |-> "lock", op |-> op, elem |-> NULL, val |-> None]]
  /\ balance' = IF Disciplined(client) THEN [balance EXCEPT ![t] = @ - 1] ELSE balance
  /\ UNCHANGED <<client, top, next, buffer, allocated, lock, pool>>

(* malloc, pelib_init(stackelem) and stackelem_write on the new element. *)
NewElem(t, n) ==
  /\ n \in Nodes \ allocated
  /\ allocated' = allocated \cup {n}
  /\ next' = [next EXCEPT ![n] = NULL]
  /\ buffer' = [buffer EXCEPT ![n] = thread[t].val]

(* Slip: the element stays in the pool when it is taken from it. *)
PrepareKeepsPooled(t) ==
  /\ At(t, "prepare")
  /\ pool[t] # NULL
  /\ buffer' = [buffer EXCEPT ![pool[t]] = thread[t].val]
  /\ GotoWith(t, "lock", pool[t], thread[t].val)
  /\ UNCHANGED <<client, pool, next, allocated, top, lock, balance>>

(* push_safe_managed takes an element from the pool, without the lock of   *)
(* the pool, or allocates one, and writes the value in it.                 *)
Prepare(t) ==
  /\ At(t, "prepare")
  /\ \/ /\ pool[t] # NULL
        /\ pool' = [pool EXCEPT ![t] = next[pool[t]]]
        /\ next' = [next EXCEPT ![pool[t]] = NULL]
        /\ buffer' = [buffer EXCEPT ![pool[t]] = thread[t].val]
        /\ GotoWith(t, "lock", pool[t], thread[t].val)
        /\ UNCHANGED allocated
     \/ /\ pool[t] = NULL
        /\ \E n \in Nodes : NewElem(t, n) /\ GotoWith(t, "lock", n, thread[t].val)
        /\ UNCHANGED pool
  /\ UNCHANGED <<client, top, lock, balance>>

FirstLocked(op) ==
  CASE op = "push_safe"         -> "alloc"
    [] op = "push_safe_managed" -> "link"
    [] op = "pop_safe"          -> "peek"
    [] op = "pop_safe_managed"  -> "take"

(* Slip: the mutex is not waited for. *)
LockBusy(t) ==
  /\ At(t, "lock")
  /\ lock' = t
  /\ Goto(t, FirstLocked(thread[t].op))
  /\ UNCHANGED <<client, top, next, buffer, allocated, pool, balance>>

Lock(t) ==
  /\ At(t, "lock") /\ lock = None
  /\ lock' = t
  /\ Goto(t, FirstLocked(thread[t].op))
  /\ UNCHANGED <<client, top, next, buffer, allocated, pool, balance>>

(* pelib_stack_push under the lock of push_safe. *)
Alloc(t) ==
  /\ At(t, "alloc")
  /\ \E n \in Nodes : NewElem(t, n) /\ GotoWith(t, "link", n, thread[t].val)
  /\ UNCHANGED <<client, top, lock, pool, balance>>

(* pelib_stack_push_elem: elem->next = s->top, then s->top = elem. *)
Link(t) ==
  /\ At(t, "link")
  /\ next' = [next EXCEPT ![thread[t].elem] = top]
  /\ Goto(t, "publish")
  /\ UNCHANGED <<client, top, buffer, allocated, lock, pool, balance>>

Publish(t) ==
  /\ At(t, "publish")
  /\ top' = thread[t].elem
  /\ Goto(t, "unlock")
  /\ UNCHANGED <<client, next, buffer, allocated, lock, pool, balance>>

(* pelib_stack_peek, which pelib_stack_pop calls first. *)
Peek(t) ==
  /\ At(t, "peek")
  /\ \/ top = NULL /\ Goto(t, "unlock")
     \/ top # NULL /\ GotoWith(t, "take", NULL, buffer[top])
  /\ UNCHANGED <<client, top, next, buffer, allocated, lock, pool, balance>>

(* Slip: the element is freed before the top leaves it. *)
TakeFrees(t) ==
  /\ At(t, "take") /\ top # NULL
  /\ GotoWith(t, "advance", top, thread[t].val)
  /\ allocated' = allocated \ {top}
  /\ UNCHANGED <<client, top, next, buffer, lock, pool, balance>>

(* pelib_stack_pop_elem: *elem = s->top, s->top = elem->next and           *)
(* elem->next = NULL.  On an empty stack *elem keeps what the caller put   *)
(* there, NULL; its result 0 is dropped by pop_elem_safe.                  *)
Take(t) ==
  /\ At(t, "take")
  /\ IF top = NULL THEN Goto(t, "unlock")
     ELSE GotoWith(t, "advance", top, thread[t].val)
  /\ UNCHANGED <<client, top, next, buffer, allocated, lock, pool, balance>>

(* Slip: the lower elements are dropped. *)
AdvanceDropsRest(t) ==
  /\ At(t, "advance")
  /\ top' = NULL
  /\ Goto(t, "detach")
  /\ UNCHANGED <<client, next, buffer, allocated, lock, pool, balance>>

Advance(t) ==
  /\ At(t, "advance")
  /\ top' = next[thread[t].elem]
  /\ Goto(t, "detach")
  /\ UNCHANGED <<client, next, buffer, allocated, lock, pool, balance>>

(* pelib_stack_pop goes on to free the element. *)
Detach(t) ==
  /\ At(t, "detach")
  /\ next' = [next EXCEPT ![thread[t].elem] = NULL]
  /\ allocated' = IF thread[t].op = "pop_safe" THEN allocated \ {thread[t].elem} ELSE allocated
  /\ Goto(t, "unlock")
  /\ UNCHANGED <<client, top, buffer, lock, pool, balance>>

(* Slip: an early return of a pop on an empty stack keeps the mutex. *)
UnlockUnlessEmpty(t) ==
  /\ At(t, "unlock")
  /\ lock' = IF thread[t].op = "pop_safe" /\ thread[t].elem = NULL THEN lock ELSE None
  /\ thread' = [thread EXCEPT ![t] =
       IF thread[t].op = "pop_safe_managed" THEN [@ EXCEPT !.pc = "read"] ELSE Idle]
  /\ UNCHANGED <<client, top, next, buffer, allocated, pool, balance>>

Unlock(t) ==
  /\ At(t, "unlock")
  /\ lock' = None
  /\ thread' = [thread EXCEPT ![t] =
       IF thread[t].op = "pop_safe_managed" THEN [@ EXCEPT !.pc = "read"] ELSE Idle]
  /\ UNCHANGED <<client, top, next, buffer, allocated, pool, balance>>

(* pop_safe_managed reads the value after it released the lock.  Reading   *)
(* NULL ends the thread.                                                   *)
Read(t) ==
  /\ At(t, "read")
  /\ IF thread[t].elem = NULL THEN Goto(t, "crashed")
     ELSE GotoWith(t, "recycle", thread[t].elem, buffer[thread[t].elem])
  /\ UNCHANGED <<client, top, next, buffer, allocated, lock, pool, balance>>

(* pelib_stack_push_elem on the thread's pool. *)
Recycle(t) ==
  /\ At(t, "recycle")
  /\ next' = [next EXCEPT ![thread[t].elem] = pool[t]]
  /\ pool' = [pool EXCEPT ![t] = thread[t].elem]
  /\ thread' = [thread EXCEPT ![t] = Idle]
  /\ UNCHANGED <<client, top, buffer, allocated, lock, balance>>

(* What a thread does inside a call it has made. *)
Step(t) ==
  \/ Prepare(t) \/ Lock(t) \/ Alloc(t) \/ Link(t) \/ Publish(t)
  \/ Peek(t) \/ Take(t) \/ Advance(t) \/ Detach(t) \/ Unlock(t)
  \/ Read(t) \/ Recycle(t)

Next ==
  \E t \in Threads :
    \/ \E op \in OpsOf(client) : CallPop(t, op) \/ \E v \in Value : CallPush(t, op, v)
    \/ Step(t)

(* A thread that made a call is scheduled until it returns; whether and    *)
(* when it calls again is its own business.                                *)
Fairness == \A t \in Threads : WF_vars(Step(t))
Spec == Init /\ [][Next]_vars /\ Fairness

-----------------------------------------------------------------------------
(* The elements from p on, following the links nx; at most one of each.    *)
Follow(nx) ==
  LET walk[fuel \in 0 .. Cardinality(Nodes)] ==
        [p \in Nodes \cup {NULL} |->
           IF fuel = 0 \/ p = NULL THEN <<>> ELSE <<p>> \o walk[fuel - 1][nx[p]]]
  IN walk
Chain(p) == Follow(next)[Cardinality(Nodes)][p]
Elements(p) == {Chain(p)[i] : i \in 1 .. Len(Chain(p))}

InLock == {"alloc", "link", "publish", "peek", "take", "advance", "detach", "unlock"}

TypeOK ==
  /\ top \in allocated \cup {NULL}
  /\ next \in [Nodes -> Nodes \cup {NULL}]
  /\ buffer \in [Nodes -> Value]
  /\ allocated \subseteq Nodes
  /\ lock \in Threads \cup {None}
  /\ pool \in [Threads -> allocated \cup {NULL}]
  /\ thread \in [Threads ->
       [pc: InLock \cup {"idle", "prepare", "lock", "read", "recycle", "crashed"},
        op: PushOps \cup PopOps \cup {"none"},
        elem: Nodes \cup {NULL}, val: Value \cup {None}]]
  /\ client \in Clients
  /\ balance \in [Threads -> Nat]
  /\ \A t \in Threads : (thread[t].pc \in InLock) <=> (lock = t)

(* An element a thread works on and that is on no list: the one it is      *)
(* about to publish or has taken off.                                      *)
Private(t) ==
  \/ thread[t].op \in PushOps /\ thread[t].pc \in {"lock", "link", "publish"}
  \/ thread[t].op = "pop_safe_managed" /\ thread[t].pc \in {"detach", "unlock", "read", "recycle"}
  \/ thread[t].op = "pop_safe" /\ thread[t].pc = "detach"
PrivateElem(t) == IF Private(t) THEN {thread[t].elem} \ {NULL} ELSE {}

(* Every allocated element is in exactly one place: on the stack, in one   *)
(* pool, or in the hands of one thread.  So no element is lost, linked     *)
(* twice or used after it was freed, and the asserts "s->top != elem" of   *)
(* push_elem and push_elem_safe hold.                                      *)
Places == {<<"stack", NULL>>} \cup ({"pool", "thread"} \X Threads)
Held(place) ==
  CASE place[1] = "stack"  -> Elements(top)
    [] place[1] = "pool"   -> Elements(pool[place[2]])
    [] place[1] = "thread" -> PrivateElem(place[2])
ElementsInOnePlace ==
  /\ UNION {Held(place) : place \in Places} = allocated
  /\ \A p1, p2 \in Places : p1 # p2 => Held(p1) \cap Held(p2) = {}
  /\ \A t \in Threads : Len(Chain(pool[t])) = Cardinality(Elements(pool[t]))
  /\ Len(Chain(top)) = Cardinality(Elements(top))

(* stack.c:60: "assert(elem != NULL)" when an element is read.             *)
ReadsAnElement == \A t \in Threads : ~At(t, "crashed")

(* A thread that holds the mutex of the stack gives it back.               *)
LockReleased == \A t \in Threads : lock = t ~> lock # t

(* Every call takes effect at once on a last-in first-out stack: a push    *)
(* when s->top is set, a pop when s->top leaves the element.               *)
Values(s) == [i \in 1 .. Len(s) |-> buffer[s[i]]]
PendingOf(t) ==
  LET th == thread[t]
  IN CASE th.pc = "idle" -> [op |-> "idle", val |-> None]
       [] th.op \in PushOps /\ th.pc # "idle" ->
            IF th.pc = "unlock" THEN [op |-> "done", val |-> None]
            ELSE [op |-> "push", val |-> th.val]
       [] th.op = "pop_safe" /\ th.pc # "idle" ->
            IF th.pc \in {"detach", "unlock"} THEN [op |-> "done", val |-> th.val]
            ELSE [op |-> "pop", val |-> None]
       [] th.op = "pop_safe_managed" /\ th.pc # "idle" ->
            IF th.pc \in {"detach", "unlock", "read"} /\ th.elem # NULL
            THEN [op |-> "done", val |-> buffer[th.elem]]
            ELSE IF th.pc = "recycle" THEN [op |-> "done", val |-> th.val]
            ELSE [op |-> "pop", val |-> None]
LIFO == INSTANCE ConcurrentStack WITH
          content <- Values(Chain(top)),
          pending <- [t \in Threads |-> PendingOf(t)]
ImplementsStack == LIFO!Spec
=============================================================================
