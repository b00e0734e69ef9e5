-------------------------------- MODULE Sort --------------------------------
(***************************************************************************)
(* The quicksorts of src/sort.c, which split a range in three or sort it   *)
(* by insertion: pelib_quicksort_tune, a loop over an explicit stack of    *)
(* ranges, and pelib_quicksort_tune_recursive, whose two functions do the  *)
(* same splits and whose calls in progress are the stack.  A step is one   *)
(* iteration of a loop.                                                    *)
(***************************************************************************)
EXTENDS Integers, Sequences, FiniteSets, FiniteSetsExt

CONSTANTS
  N,           \* length of the array
  Int32,       \* the values of the C type int
  IntModulus,  \* arithmetic on int is modulo IntModulus
  Thresholds, Samples,  \* the threshold and num_sample a client asks for
  Variants     \* "stack", "recursive"

(* num_sample divides the length of a range.  No two elements are so far   *)
(* apart that their difference does not fit in an int.                     *)
ASSUME SortAssumption ==
  /\ N \in Nat /\ Int32 \subseteq Int
  /\ Variants \subseteq {"stack", "recursive"}
  /\ Thresholds \subseteq Nat /\ Samples \subseteq Nat \ {0}
  /\ IntModulus \in Nat \ {0}
  /\ \A a, b \in Int32 : 2 * (a - b) < IntModulus

VARIABLES
  variant, \* which quicksort was called
  array,  \* the elements, indexed from 0
  input,  \* the array the client passed
  tune,   \* the parameters it passed
  stack,  \* the ranges still to sort, the top first
  range,  \* the range quicksort_tune works on: param.tune's begin and end
  loop,   \* quicksort_tune's locals: pivot, i, j and pv
  res,    \* what it returned: done, and the two ranges to go on with
  pc

vars == <<variant, array, input, tune, stack, range, loop, res, pc>>

Bounds(begin, end) == [begin |-> begin, end |-> end]
Indices(r) == r.begin .. r.end - 1
Nowhere == Bounds(0, 0)

Init ==
  /\ variant \in Variants
  /\ input \in [0 .. N - 1 -> Int32]
  /\ array = input
  /\ \E begin \in 0 .. N, end \in 0 .. N :
       /\ begin <= end
       /\ tune \in [begin: {begin}, end: {end}, threshold: Thresholds, num_sample: Samples]
       /\ stack = <<Bounds(begin, end)>>
  /\ range = Nowhere
  /\ loop = [pivot |-> 0, i |-> 0, j |-> 0, pv |-> 0]
  /\ res = [done |-> 1, left |-> Nowhere, right |-> Nowhere]
  /\ pc = "driver"

-----------------------------------------------------------------------------
Swapped(a, left, right) == [a EXCEPT ![left] = a[right], ![right] = a[left]]

(* pelib_compare of ints: a - b, which wraps around. *)
Compare(a, b) == ((a - b + IntModulus \div 2) % IntModulus) - IntModulus \div 2

(* (int) of a mean: towards zero. *)
Truncated(sum, num) == IF sum >= 0 THEN sum \div num ELSE -((-sum) \div num)

(* The sum of num elements of the range at equal steps. *)
SampleSum(a, r, step, num) ==
  LET sum[k \in 0 .. num] ==
        IF k = 0 THEN 0 ELSE sum[k - 1] + a[r.begin + (k - 1) * step]
  IN sum[num]

(* pelib_sample: the mean of ratio elements of the range at equal steps,   *)
(* or of all when there are fewer.                                         *)
Sample(a, ratio, r) ==
  LET size == r.end - r.begin
      step == IF size >= ratio THEN size \div ratio ELSE 1
      num  == IF size >= ratio THEN ratio ELSE size
  IN Truncated(SampleSum(a, r, step, num), num)

(* Slip: the slots of the pivots start one past the range. *)
TakeRangePastEnd ==
  /\ pc = "driver" /\ res.done = 1 /\ stack # <<>>
  /\ range' = Head(stack) /\ stack' = Tail(stack)
  /\ LET r == Head(stack)
     IN IF r.end - r.begin > tune.threshold
        THEN /\ pc' = "partition"
             /\ loop' = [pivot |-> Sample(array, tune.num_sample, r),
                         i |-> r.begin, j |-> r.end, pv |-> r.end + 1]
        ELSE pc' = "insert" /\ loop' = [loop EXCEPT !.i = r.begin + 1]
  /\ UNCHANGED <<array, input, tune, res>>

(* pelib_stack_pop of a range, and the start of quicksort_tune.            *)
TakeRange ==
  /\ pc = "driver" /\ res.done = 1 /\ stack # <<>>
  /\ range' = Head(stack) /\ stack' = Tail(stack)
  /\ LET r == Head(stack)
     IN IF r.end - r.begin > tune.threshold
        THEN /\ pc' = "partition"
             /\ loop' = [pivot |-> Sample(array, tune.num_sample, r),
                         i |-> r.begin, j |-> r.end, pv |-> r.end]
        ELSE pc' = "insert" /\ loop' = [loop EXCEPT !.i = r.begin + 1]
  /\ UNCHANGED <<array, input, tune, res>>

(* One iteration of the loop on i and j: an element not below the pivot    *)
(* goes to j, and from there to pv if it equals the pivot.                 *)
Scan ==
  /\ pc = "partition" /\ loop.i < loop.j
  /\ IF array[loop.i] < loop.pivot
     THEN loop' = [loop EXCEPT !.i = @ + 1] /\ UNCHANGED array
     ELSE LET j     == loop.j - 1
              moved == Swapped(array, loop.i, j)
          IN IF moved[j] = loop.pivot
             THEN /\ array' = Swapped(moved, j, loop.pv - 1)
                  /\ loop' = [loop EXCEPT !.j = j, !.pv = @ - 1]
             ELSE array' = moved /\ loop' = [loop EXCEPT !.j = j]
  /\ UNCHANGED <<input, tune, stack, range, res, pc>>

EndScan ==
  /\ pc = "partition" /\ loop.i >= loop.j
  /\ res' = [res EXCEPT !.left = Bounds(range.begin, loop.i)]
  /\ loop' = [loop EXCEPT !.i = loop.pv]
  /\ pc' = "shift"
  /\ UNCHANGED <<array, input, tune, stack, range>>

(* Slip: the pivot is not exchanged with the element in its place. *)
ShiftNoSwap ==
  /\ pc = "shift" /\ loop.i < range.end
  /\ loop' = [loop EXCEPT !.i = @ + 1, !.j = @ + 1, !.pv = @ + 1]
  /\ UNCHANGED <<array, input, tune, stack, range, res, pc>>

(* One iteration of the loop that moves the pivots before the greater      *)
(* elements.                                                               *)
Shift ==
  /\ pc = "shift" /\ loop.i < range.end
  /\ array' = Swapped(array, loop.j, loop.pv)
  /\ loop' = [loop EXCEPT !.i = @ + 1, !.j = @ + 1, !.pv = @ + 1]
  /\ UNCHANGED <<input, tune, stack, range, res, pc>>

(* Slip: the right range begins where the left one ends. *)
EndShiftKeepsPivots ==
  /\ pc = "shift" /\ loop.i >= range.end
  /\ res' = [res EXCEPT !.done = 0, !.right = Bounds(res.left.end, range.end)]
  /\ pc' = "driver"
  /\ UNCHANGED <<array, input, tune, stack, range, loop>>

EndShift ==
  /\ pc = "shift" /\ loop.i >= range.end
  /\ res' = [res EXCEPT !.done = 0, !.right = Bounds(loop.j, range.end)]
  /\ pc' = "driver"
  /\ UNCHANGED <<array, input, tune, stack, range, loop>>

(* Slip: an element is never moved before the first of the range. *)
InsertOneAfterFirst ==
  /\ pc = "insert" /\ loop.i < range.end
  /\ LET i    == loop.i
         stop == {k \in range.begin + 1 .. i :
                    k = range.begin + 1 \/ Compare(array[i], array[k - 1]) >= 0}
         j    == Max(stop)
     IN array' = [k \in 0 .. N - 1 |-> IF k = j THEN array[i]
                                       ELSE IF k \in j + 1 .. i THEN array[k - 1]
                                       ELSE array[k]]
  /\ loop' = [loop EXCEPT !.i = @ + 1]
  /\ UNCHANGED <<input, tune, stack, range, res, pc>>

(* One iteration of pelib_insertsort_window: the place of the i-th element *)
(* is looked for from i down to the beginning of the range, and move puts  *)
(* it there.                                                               *)
InsertOne ==
  /\ pc = "insert" /\ loop.i < range.end
  /\ LET i    == loop.i
         stop == {k \in range.begin .. i :
                    k = range.begin \/ Compare(array[i], array[k - 1]) >= 0}
         j    == Max(stop)
     IN array' = [k \in 0 .. N - 1 |-> IF k = j THEN array[i]
                                       ELSE IF k \in j + 1 .. i THEN array[k - 1]
                                       ELSE array[k]]
  /\ loop' = [loop EXCEPT !.i = @ + 1]
  /\ UNCHANGED <<input, tune, stack, range, res, pc>>

EndInsert ==
  /\ pc = "insert" /\ loop.i >= range.end
  /\ res' = [res EXCEPT !.done = 1]
  /\ pc' = "driver"
  /\ UNCHANGED <<array, input, tune, stack, range, loop>>

(* The driver pushes the two ranges, the left one on top. *)
PushRanges ==
  /\ variant = "stack"
  /\ pc = "driver" /\ res.done = 0
  /\ stack' = <<res.left, res.right>> \o stack
  /\ res' = [res EXCEPT !.done = 1]
  /\ UNCHANGED <<array, input, tune, range, loop, pc>>

(* quicksort_tune_recursive calls itself for the left range, and when that *)
(* returns for the right one.                                              *)
Recurse ==
  /\ variant = "recursive"
  /\ pc = "driver" /\ res.done = 0
  /\ stack' = <<res.left, res.right>> \o stack
  /\ res' = [res EXCEPT !.done = 1]
  /\ UNCHANGED <<array, input, tune, range, loop, pc>>

Finish ==
  /\ pc = "driver" /\ res.done = 1 /\ stack = <<>>
  /\ pc' = "finished"
  /\ UNCHANGED <<array, input, tune, stack, range, loop, res>>

Next ==
  /\ UNCHANGED variant
  /\ \/ TakeRange \/ Scan \/ EndScan \/ Shift \/ EndShift
     \/ InsertOne \/ EndInsert \/ PushRanges \/ Recurse \/ Finish

(* The sort runs in its caller's thread, which does nothing else. *)
Spec == Init /\ [][Next]_vars /\ WF_vars(Next)

-----------------------------------------------------------------------------
RangeType == {r \in [begin: 0 .. N, end: 0 .. N] : tune.begin <= r.begin /\ r.end <= tune.end}

(* The loops never leave the range they work on.                           *)
TypeOK ==
  /\ variant \in Variants
  /\ array \in [0 .. N - 1 -> Int32] /\ input \in [0 .. N - 1 -> Int32]
  /\ tune \in [begin: 0 .. N, end: 0 .. N, threshold: Thresholds, num_sample: Samples]
  /\ stack \in Seq(RangeType)
  /\ pc \in {"driver", "partition", "shift", "insert", "finished"}
  /\ res.done \in {0, 1}
  /\ res.done = 0 => res.left \in RangeType /\ res.right \in RangeType
  /\ pc \in {"partition", "shift", "insert"} => range \in RangeType
  /\ pc = "partition" => range.begin <= loop.i /\ loop.i <= loop.j /\ loop.j <= loop.pv
  /\ pc \in {"partition", "shift"} =>
       range.begin <= loop.j /\ loop.j <= loop.pv /\ loop.pv <= range.end
  /\ pc = "shift" => res.left \in RangeType

(* The ranges still to sort, the one worked on included.                   *)
Pending ==
  {stack[k] : k \in 1 .. Len(stack)}
    \cup (IF pc \in {"partition", "shift", "insert"} THEN {range} ELSE {})
    \cup (IF res.done = 0 THEN {res.left, res.right} ELSE {})

(* pelib_is_increasing *)
IsIncreasing(a) == \A k \in 1 .. N - 1 : Compare(a[k - 1], a[k]) <= 0

(* Two elements that are not in one pending range are in order already:    *)
(* nothing moves between ranges any more, so sorting each range sorts the  *)
(* window; and when all of an array is sorted, is_increasing says so.      *)
PendingSeparated ==
  /\ \A p, q \in tune.begin .. tune.end - 1 :
       p < q => \/ array[p] <= array[q]
                \/ \E r \in Pending : {p, q} \subseteq Indices(r)
  /\ Pending = {} /\ tune.begin = 0 /\ tune.end = N => IsIncreasing(array)

(* The sort implements sort.h, but that end is one past the last element   *)
(* and not its index (sort.h:55): when it ends, the window is in order,    *)
(* holds the elements it held, and the rest of the array is untouched.     *)
Sorted == INSTANCE Sorting WITH
            array  <- IF pc = "finished" THEN array ELSE input,
            window <- Bounds(tune.begin, tune.end),
            sorted <- pc = "finished"
ImplementsSorting == Sorted!Spec

(* The sort ends: the two ranges of a split are smaller than the range     *)
(* split, even when all its elements are equal or negative.                *)
Terminates == <>(pc = "finished")
=============================================================================
