----------------------------- MODULE SortProofs -----------------------------
(***************************************************************************)
(* Proofs about the quicksorts, for every array, window, threshold and     *)
(* number of samples.  Every step on the elements only exchanges elements  *)
(* of the range it works on, which keeps apart what is in other ranges; a  *)
(* range leaves the agenda once it is in order, and the two ranges that    *)
(* replace it are separated by the pivots.                                 *)
(***************************************************************************)
EXTENDS Sort, FiniteSetTheorems, SequenceTheorems, TLAPS

(* A set that holds 0, and with a number below m the next one, holds 0..m: *)
(* the least number missing would follow one that is there.                *)
LEMMA IntervalInduction ==
  ASSUME NEW S, NEW m \in Nat, 0 \in S,
         \A n \in Nat : n < m /\ n \in S => n + 1 \in S
  PROVE  \A n \in 0 .. m : n \in S
<1> SUFFICES ASSUME NEW k \in 0 .. m, k \notin S PROVE FALSE
  OBVIOUS
<1> DEFINE T == {n \in Nat : n <= m /\ n \notin S}
           R == OpToRel(<, Nat)
<1>1. T \subseteq Nat /\ T # {}
  OBVIOUS
<1> HIDE DEF T, R
<1>2. PICK n \in T : \A j \in T : ~ (<<j, n>> \in R)
  BY <1>1, NatLessThanWellFounded, WFMin DEF R
<1>3. n \in Nat /\ n <= m /\ n \notin S /\ n - 1 \in Nat
  BY <1>2 DEF T
<1>4. n - 1 \in T
  <2>1. n - 1 < m /\ (n - 1) + 1 = n
    BY <1>3
  <2> QED BY <1>3, <2>1 DEF T
<1>5. <<n - 1, n>> \in R
  BY <1>3 DEF R, OpToRel
<1> QED BY <1>2, <1>4, <1>5

Busy == pc \in {"partition", "shift", "insert"}
Window == tune.begin .. tune.end - 1

(* The types of all variables, those nothing reads at the moment included. *)
AnyRange == [begin : 0 .. N, end : 0 .. N]
Types ==
  /\ tune.begin <= tune.end
  /\ loop \in [pivot : Int, i : Int, j : Int, pv : Int]
  /\ range \in AnyRange
  /\ res \in [done : {0, 1}, left : AnyRange, right : AnyRange]

(* The ranges to sort, in the order they will be taken, follow each other  *)
(* from left to right.                                                     *)
Ordered ==
  /\ \A k \in 1 .. Len(stack) : stack[k].begin <= stack[k].end
  /\ \A k, m \in 1 .. Len(stack) : k < m => stack[k].end <= stack[m].begin
  /\ Busy => /\ res.done = 1 /\ range.begin <= range.end
             /\ \A k \in 1 .. Len(stack) : range.end <= stack[k].begin
  /\ res.done = 0 => /\ pc = "driver"
                     /\ res.left.begin <= res.left.end
                     /\ res.left.end <= res.right.begin
                     /\ res.right.begin <= res.right.end
                     /\ \A k \in 1 .. Len(stack) : res.right.end <= stack[k].begin
  /\ pc = "finished" => stack = <<>> /\ res.done = 1

(* What the loops know of the elements of the range so far: those below    *)
(* the pivot, those not looked at yet, the greater ones, the pivots.       *)
Split ==
  /\ pc = "partition" =>
       /\ range.begin <= loop.i /\ loop.i <= loop.j
       /\ loop.j <= loop.pv /\ loop.pv <= range.end
       /\ \A k \in range.begin .. loop.i - 1 : array[k] < loop.pivot
       /\ \A k \in loop.j .. loop.pv - 1 : array[k] > loop.pivot
       /\ \A k \in loop.pv .. range.end - 1 : array[k] = loop.pivot
  /\ pc = "shift" =>
       /\ loop.i = loop.pv /\ res.left.begin = range.begin
       /\ range.begin <= res.left.end /\ res.left.end <= loop.j
       /\ loop.j <= loop.pv /\ loop.pv <= range.end
       /\ \A k \in range.begin .. res.left.end - 1 : array[k] < loop.pivot
       /\ \A k \in res.left.end .. loop.j - 1 : array[k] = loop.pivot
       /\ \A k \in loop.j .. loop.pv - 1 : array[k] > loop.pivot
       /\ \A k \in loop.pv .. range.end - 1 : array[k] = loop.pivot
  /\ pc = "insert" =>
       /\ range.begin + 1 <= loop.i
       /\ \A p, q \in Indices(range) : p < q /\ q < loop.i => array[p] <= array[q]

Together(p, q) == \E r \in Pending : p \in Indices(r) /\ q \in Indices(r)
Separated == \A p, q \in Window : p < q => array[p] <= array[q] \/ Together(p, q)

(* b holds the elements of a, moved about among the indices of W.          *)
Moves(a, b, W) ==
  \E g \in Bijection(0 .. N - 1, 0 .. N - 1) :
     /\ \A k \in 0 .. N - 1 : b[k] = a[g[k]]
     /\ \A k \in 0 .. N - 1 : k \notin W => g[k] = k

(* The inductive invariant.                                                *)
Permuted == Moves(input, array, Window)
Inv == TypeOK /\ Types /\ Ordered /\ Split /\ Separated /\ Permuted

-----------------------------------------------------------------------------
(* compare tells what the difference tells: no two elements are so far     *)
(* apart that it wraps around.                                             *)
LEMMA CompareIsDifference ==
  ASSUME NEW a \in Int32, NEW b \in Int32
  PROVE  Compare(a, b) = a - b
<1> DEFINE M == IntModulus
           h == IntModulus \div 2
           d == a - b
           x == d + h
<1>1. /\ M \in Nat \ {0} /\ a \in Int /\ b \in Int
      /\ 2 * (a - b) < M /\ 2 * (b - a) < M
  BY SortAssumption
<1>2. h \in Nat /\ 2 * h <= M /\ M <= 2 * h + 1
  BY <1>1
<1>3. d \in Int /\ 2 * d < M /\ 2 * (-d) < M
  BY <1>1
<1> HIDE DEF M, h, d
<1>4. x \in 0 .. M - 1
  BY <1>1, <1>2, <1>3
<1>5. x % M = x
  BY <1>1, <1>4
<1>6. ((d + h) % M) - h = d
  BY <1>5, <1>2, <1>3
<1> QED BY <1>6 DEF Compare, M, h, d

(* A set of integers of an interval that is not empty has a greatest one.  *)
LEMMA MaxIsIn ==
  ASSUME NEW lo \in Int, NEW hi \in Int, NEW T, T \subseteq lo .. hi, T # {}
  PROVE  Max(T) \in T /\ \A i \in T : i <= Max(T)
<1> DEFINE Greatest(U) == \E x \in U : \A y \in U : y <= x
           n == hi - lo
           S == {m \in 0 .. n : \A U \in SUBSET (lo .. hi) : (\E x \in U : hi - x <= m) => Greatest(U)}
<1>0. n \in Nat
  <2>1. PICK x : x \in T
    OBVIOUS
  <2>2. x \in Int /\ lo <= x /\ x <= hi
    BY <2>1
  <2> QED BY <2>2
<1>1. 0 \in S
  <2>1. 0 \in 0 .. n
    BY <1>0
  <2>2. ASSUME NEW U \in SUBSET (lo .. hi), NEW x \in U, hi - x <= 0 PROVE Greatest(U)
    <3>1. \A y \in U : y <= x
      BY <2>2
    <3> QED BY <3>1
  <2> QED BY <2>1, <2>2
<1>2. ASSUME NEW m \in Nat, m < n, m \in S PROVE m + 1 \in S
  <2>1. ASSUME NEW U \in SUBSET (lo .. hi), NEW x \in U, hi - x <= m + 1
        PROVE  Greatest(U)
    <3>1. CASE \E y \in U : hi - y <= m
      BY <3>1, <1>2
    <3>2. CASE ~ \E y \in U : hi - y <= m
      <4>1. \A y \in U : y <= x
        BY <3>2, <2>1, <1>2
      <4> QED BY <4>1
    <3> QED BY <3>1, <3>2
  <2>2. m + 1 \in 0 .. n
    BY <1>0, <1>2
  <2> QED BY <2>1, <2>2
<1> HIDE DEF S
<1>3. \A m \in 0 .. n : m \in S
  <2> HIDE DEF n
  <2> QED BY <1>0, <1>1, <1>2, IntervalInduction
<1>4. n \in S
  BY <1>3, <1>0
<1>5. Greatest(T)
  <2>1. PICK x : x \in T
    OBVIOUS
  <2>2. T \in SUBSET (lo .. hi) /\ x \in lo .. hi
    BY <2>1
  <2>3. \A U \in SUBSET (lo .. hi) : (\E y \in U : hi - y <= n) => Greatest(U)
    BY <1>4 DEF S
  <2>4. hi - x <= n
    BY <2>2
  <2> HIDE DEF Greatest
  <2> QED BY <2>1, <2>2, <2>3, <2>4
<1> QED BY <1>5 DEF Max

(* The partial sums of the sample exist, by induction, and are integers.   *)
LEMMA SumIsInt ==
  ASSUME NEW a, NEW r, NEW step, NEW num \in Nat,
         \A k \in 0 .. num - 1 : a[r.begin + k * step] \in Int
  PROVE  SampleSum(a, r, step, num) \in Int
<1> DEFINE sum == CHOOSE sum : sum = [k \in 0 .. num |->
             IF k = 0 THEN 0 ELSE sum[k - 1] + a[r.begin + (k - 1) * step]]
<1> DEFINE Term(k) == a[r.begin + (k - 1) * step]
<1>0. \E g : g = [k \in 0 .. num |->
              IF k = 0 THEN 0 ELSE g[k - 1] + a[r.begin + (k - 1) * step]]
  <2> DEFINE Next1(g, k) == IF k = 0 THEN 0 ELSE g[k - 1] + Term(k)
  <2> HIDE DEF Term
  <2> DEFINE S == {m \in 0 .. num : \E g : \A k \in 0 .. m : g[k] = Next1(g, k)}
  <2>2. 0 \in S
    <3> DEFINE g == [k \in 0 .. num |-> 0]
    <3>1. \A k \in 0 .. 0 : g[k] = Next1(g, k)
      OBVIOUS
    <3>2. 0 \in 0 .. num
      OBVIOUS
    <3> HIDE DEF Next1, g
    <3> QED BY <3>1, <3>2
  <2>3. ASSUME NEW m \in Nat, m < num, m \in S PROVE m + 1 \in S
    <3>1. PICK g : \A k \in 0 .. m : g[k] = Next1(g, k)
      BY <2>3
    <3> DEFINE h == [k \in 0 .. num |-> IF k = m + 1 THEN Next1(g, k) ELSE g[k]]
    <3>2. ASSUME NEW k \in 0 .. m + 1 PROVE h[k] = Next1(h, k)
      <4>1. k \in Nat /\ (k = 0 \/ g[k - 1] = h[k - 1])
        BY <2>3
      <4>2. h[k] = Next1(g, k)
        BY <3>1, <2>3
      <4> HIDE DEF h
      <4> QED BY <4>1, <4>2
    <3>3. m + 1 \in 0 .. num
      BY <2>3
    <3> QED BY <3>2, <3>3
  <2> HIDE DEF S
  <2>4. num \in S
    BY <2>2, <2>3, IntervalInduction
  <2>5. PICK g : \A k \in 0 .. num : g[k] = Next1(g, k)
    BY <2>4 DEF S
  <2> DEFINE h == [k \in 0 .. num |-> g[k]]
  <2>6. ASSUME NEW k \in 0 .. num PROVE h[k] = Next1(h, k)
    <3>1. k \in Nat /\ (k = 0 \/ g[k - 1] = h[k - 1])
      OBVIOUS
    <3>2. h[k] = Next1(g, k)
      BY <2>5
    <3> HIDE DEF h
    <3> QED BY <3>1, <3>2
  <2>7. h = [k \in 0 .. num |-> h[k]]
    OBVIOUS
  <2> HIDE DEF h
  <2>8. h = [k \in 0 .. num |-> Next1(h, k)]
    BY <2>6, <2>7, Zenon
  <2> QED BY <2>8 DEF Term
<1>1. sum = [k \in 0 .. num |-> IF k = 0 THEN 0 ELSE sum[k - 1] + a[r.begin + (k - 1) * step]]
  BY <1>0, Zenon
<1>2. \A k \in 1 .. num : Term(k) \in Int
  OBVIOUS
<1>3. SampleSum(a, r, step, num) = sum[num]
  BY DEF SampleSum
<1> HIDE DEF sum
<1>4. sum = [k \in 0 .. num |-> IF k = 0 THEN 0 ELSE sum[k - 1] + Term(k)]
  BY <1>1
<1> HIDE DEF Term
<1> DEFINE S == {m \in 0 .. num : sum[m] \in Int}
<1>5. 0 \in S
  BY <1>4
<1>6. ASSUME NEW m \in Nat, m < num, m \in S PROVE m + 1 \in S
  <2>1. m + 1 \in 0 .. num /\ m + 1 \in 1 .. num /\ m + 1 # 0 /\ (m + 1) - 1 = m
    BY <1>6
  <2>2. sum[m + 1] = sum[m] + Term(m + 1)
    BY <1>4, <2>1
  <2> QED BY <1>2, <1>6, <2>1, <2>2
<1> HIDE DEF S
<1>7. num \in S
  BY <1>5, <1>6, IntervalInduction
<1> QED BY <1>3, <1>7 DEF S

(* The samples are at steps that stay below the length of the range.       *)
LEMMA StepsStayInside ==
  ASSUME NEW size \in Nat \ {0}, NEW ratio \in Nat \ {0}, ratio <= size,
         NEW k \in 0 .. ratio - 1
  PROVE  k * (size \div ratio) \in 0 .. size - 1
<1> DEFINE s == size \div ratio
<1>1. s \in Nat \ {0} /\ ratio * s <= size
  BY SMTT(30)
<1> HIDE DEF s
<1>2. k * s + s <= ratio * s /\ k * s \in Nat
  <2>1. (k + 1) * s <= ratio * s /\ (k + 1) * s = k * s + s /\ k * s \in Nat
    BY <1>1, SMTT(30)
  <2> QED BY <2>1, <1>1
<1>3. ratio * s \in Nat
  BY <1>1
<1> DEFINE p == k * s
           q == ratio * s
<1> HIDE DEF p, q
<1>4. p \in Nat /\ q \in Nat /\ p + s <= q /\ q <= size
  BY <1>1, <1>2, <1>3 DEF p, q
<1>5. p \in 0 .. size - 1
  BY <1>4, <1>1
<1> QED BY <1>5 DEF p, s

(* The mean that pelib_sample computes is an integer.                      *)
LEMMA SampleIsInt ==
  ASSUME NEW a \in [0 .. N - 1 -> Int32], NEW ratio \in Nat \ {0},
         NEW r \in AnyRange, r.begin < r.end
  PROVE  Sample(a, ratio, r) \in Int
<1> DEFINE size == r.end - r.begin
           step == IF size >= ratio THEN size \div ratio ELSE 1
           num  == IF size >= ratio THEN ratio ELSE size
<1>1. size \in Nat \ {0} /\ num \in Nat \ {0} /\ N \in Nat
  BY SortAssumption DEF AnyRange
<1>2. ASSUME NEW k \in 0 .. num - 1 PROVE a[r.begin + k * step] \in Int
  <2>1. k * step \in 0 .. size - 1
    <3>1. CASE size >= ratio
      <4> HIDE DEF size
      <4>1. ratio <= size /\ k \in 0 .. ratio - 1
        BY <3>1, <1>1, <1>2
      <4>2. k * (size \div ratio) \in 0 .. size - 1
        BY <4>1, <1>1, StepsStayInside
      <4> QED BY <4>2, <3>1
    <3>2. CASE ~ size >= ratio
      <4> HIDE DEF size
      <4>1. k \in 0 .. size - 1 /\ step = 1
        BY <3>2, <1>1, <1>2
      <4> QED BY <4>1, <1>1
    <3> QED BY <3>1, <3>2
  <2> DEFINE d == k * step
  <2>2. d \in 0 .. size - 1
    BY <2>1
  <2> HIDE DEF d
  <2>3. r.begin + d \in 0 .. N - 1
    BY <2>2, <1>1 DEF AnyRange
  <2>4. a[r.begin + d] \in Int
    BY <2>3, SortAssumption
  <2> QED BY <2>4 DEF d
<1> DEFINE sum == SampleSum(a, r, step, num)
<1>3. sum \in Int
  <2> HIDE DEF num, step
  <2> QED BY <1>1, <1>2, SumIsInt
<1>4. Sample(a, ratio, r) = Truncated(sum, num)
  BY Zenon DEF Sample
<1> HIDE DEF sum, num
<1>5. Truncated(sum, num) \in Int
  BY <1>1, <1>3 DEF Truncated
<1> QED BY <1>4, <1>5

-----------------------------------------------------------------------------
(* Exchanging elements. *)
ArrayType == [0 .. N - 1 -> Int32]

(* A step that moves nothing is one.                                       *)
LEMMA NothingMoves ==
  ASSUME NEW a \in ArrayType, NEW W
  PROVE  Moves(a, a, W)
<1> DEFINE g == [k \in 0 .. N - 1 |-> k]
<1>1. g \in Bijection(0 .. N - 1, 0 .. N - 1)
  BY DEF Bijection, Injection, Surjection, IsInjective
<1>2. /\ \A k \in 0 .. N - 1 : a[k] = a[g[k]]
      /\ \A k \in 0 .. N - 1 : k \notin W => g[k] = k
  OBVIOUS
<1> QED BY <1>1, <1>2 DEF Moves

(* So is an exchange of two elements of W.                                 *)
LEMMA SwapMoves ==
  ASSUME NEW a \in ArrayType, NEW W, NEW x \in 0 .. N - 1, NEW y \in 0 .. N - 1,
         x \in W, y \in W
  PROVE  Swapped(a, x, y) \in ArrayType /\ Moves(a, Swapped(a, x, y), W)
<1> DEFINE b == Swapped(a, x, y)
           g == [k \in 0 .. N - 1 |-> IF k = x THEN y ELSE IF k = y THEN x ELSE k]
<1>1. b \in ArrayType
  BY DEF Swapped, ArrayType
<1>2. \A k \in 0 .. N - 1 : b[k] = IF k = x THEN a[y] ELSE IF k = y THEN a[x] ELSE a[k]
  BY DEF Swapped, ArrayType
<1>3. g \in Bijection(0 .. N - 1, 0 .. N - 1)
  <2>1. g \in [0 .. N - 1 -> 0 .. N - 1]
    OBVIOUS
  <2>2. \A k, m \in 0 .. N - 1 : g[k] = g[m] => k = m
    OBVIOUS
  <2>3. \A m \in 0 .. N - 1 : \E k \in 0 .. N - 1 : g[k] = m
    <3> SUFFICES ASSUME NEW m \in 0 .. N - 1 PROVE g[g[m]] = m
      BY <2>1
    <3> QED OBVIOUS
  <2> QED BY <2>1, <2>2, <2>3 DEF Bijection, Injection, Surjection, IsInjective
<1> HIDE DEF b
<1>4. /\ \A k \in 0 .. N - 1 : b[k] = a[g[k]]
      /\ \A k \in 0 .. N - 1 : k \notin W => g[k] = k
  BY <1>2
<1> HIDE DEF g
<1>5. Moves(a, b, W)
  BY <1>3, <1>4 DEF Moves
<1> QED BY <1>1, <1>5 DEF b

(* Moving the element at i down to j, those between one up. *)
Inserted(a, i, j) == [k \in 0 .. N - 1 |-> IF k = j THEN a[i]
                                           ELSE IF k \in j + 1 .. i THEN a[k - 1]
                                           ELSE a[k]]

(* And so is an insertion, among elements of W.                            *)
LEMMA InsertMoves ==
  ASSUME NEW a \in ArrayType, NEW W, NEW i \in 0 .. N - 1, NEW j \in 0 .. i, j .. i \subseteq W
  PROVE  Inserted(a, i, j) \in ArrayType /\ Moves(a, Inserted(a, i, j), W)
<1> DEFINE b == Inserted(a, i, j)
           g == [k \in 0 .. N - 1 |-> IF k = j THEN i
                                      ELSE IF k \in j + 1 .. i THEN k - 1 ELSE k]
<1>0. i \in Nat /\ j \in Nat /\ j <= i /\ N \in Nat /\ i <= N - 1
  BY SortAssumption
<1>1. b \in ArrayType
  <2>1. \A k \in j + 1 .. i : k - 1 \in 0 .. N - 1
    BY <1>0
  <2> QED BY <2>1 DEF Inserted, ArrayType
<1>2. \A k \in 0 .. N - 1 : b[k] = IF k = j THEN a[i]
                                   ELSE IF k \in j + 1 .. i THEN a[k - 1] ELSE a[k]
  BY DEF Inserted
<1>3. g \in Bijection(0 .. N - 1, 0 .. N - 1)
  <2>1. g \in [0 .. N - 1 -> 0 .. N - 1]
    BY <1>0
  <2>2. \A k, m \in 0 .. N - 1 : g[k] = g[m] => k = m
    BY <1>0
  <2>3. ASSUME NEW m \in 0 .. N - 1 PROVE \E k \in 0 .. N - 1 : g[k] = m
    <3>1. CASE m = i
      <4>1. j \in 0 .. N - 1 /\ g[j] = i
        BY <1>0
      <4> QED BY <3>1, <4>1
    <3>2. CASE m \in j .. i - 1
      <4>1. m + 1 \in 0 .. N - 1 /\ g[m + 1] = m
        BY <3>2, <1>0
      <4> QED BY <4>1
    <3>3. CASE m # i /\ m \notin j .. i - 1
      <4>1. g[m] = m
        BY <3>3, <1>0
      <4> QED BY <4>1
    <3> QED BY <3>1, <3>2, <3>3
  <2> QED BY <2>1, <2>2, <2>3 DEF Bijection, Injection, Surjection, IsInjective
<1> HIDE DEF b
<1>4. /\ \A k \in 0 .. N - 1 : b[k] = a[g[k]]
      /\ \A k \in 0 .. N - 1 : k \notin W => g[k] = k
  BY <1>0, <1>2
<1> HIDE DEF g
<1>5. Moves(a, b, W)
  BY <1>3, <1>4 DEF Moves
<1> QED BY <1>1, <1>5 DEF b

(* Moves among the elements of a part of W follow moves in W.              *)
LEMMA MovesTwice ==
  ASSUME NEW a, NEW b, NEW c, NEW V, NEW W, V \subseteq W,
         Moves(a, b, W), Moves(b, c, V)
  PROVE  Moves(a, c, W)
<1> DEFINE D == 0 .. N - 1
<1>1. PICK g \in Bijection(D, D) : /\ \A k \in D : b[k] = a[g[k]]
                                   /\ \A k \in D : k \notin W => g[k] = k
  BY DEF Moves
<1>2. PICK h \in Bijection(D, D) : /\ \A k \in D : c[k] = b[h[k]]
                                   /\ \A k \in D : k \notin V => h[k] = k
  BY DEF Moves
<1>3. /\ g \in [D -> D] /\ \A k, m \in D : g[k] = g[m] => k = m
      /\ \A m \in D : \E k \in D : g[k] = m
  BY <1>1 DEF Bijection, Injection, Surjection, IsInjective
<1>4. /\ h \in [D -> D] /\ \A k, m \in D : h[k] = h[m] => k = m
      /\ \A m \in D : \E k \in D : h[k] = m
  BY <1>2 DEF Bijection, Injection, Surjection, IsInjective
<1> HIDE DEF D
<1> DEFINE f == [k \in D |-> g[h[k]]]
<1>5. f \in Bijection(D, D)
  <2>1. f \in [D -> D] /\ \A k, m \in D : f[k] = f[m] => k = m
    BY <1>3, <1>4
  <2>2. \A m \in D : \E k \in D : f[k] = m
    BY <1>3, <1>4
  <2> QED BY <2>1, <2>2 DEF Bijection, Injection, Surjection, IsInjective
<1>6. /\ \A k \in D : c[k] = a[f[k]]
      /\ \A k \in D : k \notin W => f[k] = k
  BY <1>1, <1>2, <1>3, <1>4
<1> HIDE DEF f
<1>7. \E e \in Bijection(D, D) : /\ \A k \in D : c[k] = a[e[k]]
                                 /\ \A k \in D : k \notin W => e[k] = k
  BY <1>5, <1>6
<1> QED BY <1>7 DEF D, Moves

(* Where the element at an index comes from. *)
LEMMA MovesFrom ==
  ASSUME NEW a, NEW b, NEW W, Moves(a, b, W)
  PROVE  /\ \A k \in (0 .. N - 1) \cap W : \E m \in (0 .. N - 1) \cap W : b[k] = a[m]
         /\ \A k \in (0 .. N - 1) \ W : b[k] = a[k]
<1> DEFINE D == 0 .. N - 1
<1>1. PICK g \in Bijection(D, D) : /\ \A k \in D : b[k] = a[g[k]]
                                   /\ \A k \in D : k \notin W => g[k] = k
  BY DEF Moves
<1>2. g \in [D -> D] /\ \A k, m \in D : g[k] = g[m] => k = m
  BY <1>1 DEF Bijection, Injection, IsInjective
<1> HIDE DEF D
<1>3. ASSUME NEW k \in D \cap W PROVE \E m \in D \cap W : b[k] = a[m]
  <2>1. g[k] \in D /\ g[k] \in W
    BY <1>1, <1>2
  <2> QED BY <1>1, <2>1
<1>4. \A k \in D \ W : b[k] = a[k]
  BY <1>1
<1> QED BY <1>3, <1>4 DEF D

(* How often v is in the window. *)
CountIn(a, v) == Cardinality({k \in Window : a[k] = v})

(* Moves in the window leave each element as often as before.              *)
LEMMA MovesKeepCount ==
  ASSUME NEW a, NEW b, NEW v, Window \subseteq 0 .. N - 1, Moves(a, b, Window)
  PROVE  CountIn(a, v) = CountIn(b, v)
<1> DEFINE W == Window
           D == 0 .. N - 1
           S == {k \in W : b[k] = v}
           T == {k \in W : a[k] = v}
<1>1. PICK g \in Bijection(D, D) : /\ \A k \in D : b[k] = a[g[k]]
                                   /\ \A k \in D : k \notin W => g[k] = k
  BY DEF Moves
<1>2. /\ g \in [D -> D] /\ \A k, m \in D : g[k] = g[m] => k = m
      /\ \A m \in D : \E k \in D : g[k] = m
  BY <1>1 DEF Bijection, Injection, Surjection, IsInjective
<1>0. IsFiniteSet(W)
  <2>1. 0 \in Int /\ N - 1 \in Int
    BY SortAssumption
  <2>2. IsFiniteSet(0 .. N - 1)
    BY <2>1, FS_Interval
  <2> QED BY <2>2, FS_Subset
<1> HIDE DEF D
<1>3. W \subseteq D
  BY DEF D
<1>4. \A k \in W : g[k] \in W
  BY <1>1, <1>2, <1>3
<1>5. \A m \in W : \E k \in W : g[k] = m
  BY <1>1, <1>2, <1>3
<1> DEFINE f == [k \in S |-> g[k]]
<1>6. f \in Bijection(S, T)
  <2>1. f \in [S -> T]
    BY <1>1, <1>3, <1>4
  <2>2. \A k, m \in S : f[k] = f[m] => k = m
    BY <1>2, <1>3
  <2>3. \A m \in T : \E k \in S : f[k] = m
    BY <1>1, <1>3, <1>5
  <2> QED BY <2>1, <2>2, <2>3 DEF Bijection, Injection, Surjection, IsInjective
<1>7. IsFiniteSet(S)
  BY <1>0, FS_Subset
<1> HIDE DEF f, S, T
<1>8. ExistsBijection(S, T)
  BY <1>6 DEF ExistsBijection
<1>9. Cardinality(T) = Cardinality(S)
  BY <1>7, <1>8, FS_Bijection
<1> QED BY <1>9 DEF S, T, CountIn

-----------------------------------------------------------------------------
(* The agenda. *)

(* Every range of the agenda is a range of the window. *)
LEMMA PendingTypes ==
  ASSUME TypeOK, Types
  PROVE  /\ RangeType \subseteq AnyRange /\ N \in Nat
         /\ \A k \in 1 .. Len(stack) : stack[k] \in RangeType
         /\ \A r \in RangeType : Indices(r) \subseteq Window
         /\ Window \subseteq 0 .. N - 1
<1>1. RangeType \subseteq AnyRange /\ N \in Nat
  BY SortAssumption DEF RangeType, AnyRange
<1>2. \A k \in 1 .. Len(stack) : stack[k] \in RangeType
  BY DEF TypeOK
<1>3. tune.begin \in 0 .. N /\ tune.end \in 0 .. N
  BY DEF TypeOK
<1>4. \A r \in RangeType : Indices(r) \subseteq Window
  BY <1>3, SortAssumption DEF RangeType, Indices, Window
<1>5. Window \subseteq 0 .. N - 1
  BY <1>3, SortAssumption DEF Window
<1> QED BY <1>1, <1>2, <1>4, <1>5

(* While a range is worked on, the rest of the agenda is right of it. *)
LEMMA RangesApart ==
  ASSUME TypeOK, Types, Ordered, Busy, NEW r \in Pending
  PROVE  r = range \/ \A p \in Indices(range) : p \notin Indices(r)
<1>1. range \in AnyRange /\ N \in Nat
  BY SortAssumption DEF Types
<1>2. r = range \/ \E k \in 1 .. Len(stack) : r = stack[k]
  BY DEF Pending, Ordered, Busy
<1>3. ASSUME NEW k \in 1 .. Len(stack), r = stack[k], NEW p \in Indices(range)
      PROVE  p \notin Indices(r)
  <2>1. stack[k] \in AnyRange
    BY PendingTypes
  <2>2. range.end <= stack[k].begin
    BY DEF Ordered
  <2> DEFINE s == stack[k]
  <2> HIDE DEF s
  <2>3. s \in AnyRange /\ range.end <= s.begin /\ r = s
    BY <2>1, <2>2, <1>3 DEF s
  <2> QED BY <2>3, <1>1, <1>3 DEF Indices, AnyRange
<1> QED BY <1>2, <1>3

(* So exchanging elements of the range worked on keeps everything apart.   *)
LEMMA ExchangesKeepSeparated ==
  ASSUME TypeOK, Types, Ordered, Separated, Busy,
         Pending' = Pending, tune' = tune,
         array' \in ArrayType, Moves(array, array', Indices(range))
  PROVE  Separated'
<1> DEFINE R == Indices(range)
<1>1. /\ range \in AnyRange /\ N \in Nat /\ range \in RangeType /\ range \in Pending
      /\ R \subseteq Window /\ Window \subseteq 0 .. N - 1
  BY PendingTypes DEF Types, TypeOK, Busy, Pending
<1>2. /\ \A k \in R : \E m \in R : array'[k] = array[m]
      /\ \A k \in Window \ R : array'[k] = array[k]
  <2>1. /\ \A k \in (0 .. N - 1) \cap R : \E m \in (0 .. N - 1) \cap R : array'[k] = array[m]
        /\ \A k \in (0 .. N - 1) \ R : array'[k] = array[k]
    BY MovesFrom
  <2> QED BY <2>1, <1>1
<1>3. \A r \in Pending : r = range \/ \A p \in R : p \notin Indices(r)
  BY RangesApart
<1>4. \A p, q : Together(p, q)' <=> Together(p, q)
  BY DEF Together, Indices
<1>5. \A p \in Window, m, q \in R : p < m /\ p \notin R => p < q
  BY <1>1 DEF Indices, AnyRange, Window
<1>6. \A p \in Window, m, q \in R : m < p /\ p \notin R => q < p
  BY <1>1 DEF Indices, AnyRange, Window
<1> SUFFICES ASSUME NEW p \in Window, NEW q \in Window, p < q
             PROVE  array'[p] <= array'[q] \/ Together(p, q)
  BY <1>4 DEF Separated, Window
<1>7. CASE p \in R /\ q \in R
  BY <1>1, <1>7 DEF Together
<1>8. CASE p \notin R /\ q \notin R
  BY <1>2, <1>8 DEF Separated
<1>9. CASE p \notin R /\ q \in R
  <2>1. PICK m \in R : array'[q] = array[m]
    BY <1>2, <1>9
  <2>2. p < m /\ m \in Window
    BY <1>1, <1>5, <1>9
  <2>3. array[p] <= array[m] \/ Together(p, m)
    BY <2>2 DEF Separated
  <2>4. ~ Together(p, m)
    BY <1>3, <1>9, <2>1 DEF Together
  <2> QED BY <1>2, <1>9, <2>1, <2>3, <2>4
<1>10. CASE p \in R /\ q \notin R
  <2>1. PICK m \in R : array'[p] = array[m]
    BY <1>2, <1>10
  <2>2. m < q /\ m \in Window
    BY <1>1, <1>6, <1>10
  <2>3. array[m] <= array[q] \/ Together(m, q)
    BY <2>2 DEF Separated
  <2>4. ~ Together(m, q)
    BY <1>3, <1>10, <2>1 DEF Together
  <2> QED BY <1>2, <1>10, <2>1, <2>3, <2>4
<1> QED BY <1>7, <1>8, <1>9, <1>10

-----------------------------------------------------------------------------
(* The steps. *)

(* The agenda is the client's window.                                      *)
LEMMA InitCorrect == Init => Inv
<1> SUFFICES ASSUME Init PROVE Inv
  OBVIOUS
<1>0. N \in Nat
  BY SortAssumption
<1> DEFINE b == tune.begin
           e == tune.end
<1>1. /\ b \in 0 .. N /\ e \in 0 .. N /\ b <= e
      /\ tune \in [begin: 0 .. N, end: 0 .. N, threshold: Thresholds, num_sample: Samples]
      /\ stack = <<Bounds(b, e)>>
  BY DEF Init
<1> HIDE DEF b, e
<1>2. Bounds(b, e) \in RangeType /\ stack[1] = Bounds(b, e) /\ Len(stack) = 1
  BY <1>0, <1>1 DEF Bounds, RangeType, b, e
<1>3. Nowhere \in AnyRange
  BY <1>0 DEF Nowhere, Bounds, AnyRange
<1>4. TypeOK
  <2>1. stack \in Seq(RangeType)
    BY <1>1, <1>2
  <2> QED BY <1>1, <2>1 DEF Init, TypeOK
<1>5. Types
  BY <1>1, <1>3 DEF Init, Types, b, e
<1>6. Ordered
  BY <1>0, <1>1, <1>2 DEF Init, Ordered, Bounds, Busy
<1>7. Split
  BY DEF Init, Split
<1>8. Separated
  <2>1. Bounds(b, e) \in Pending
    BY <1>2 DEF Pending
  <2>2. Indices(Bounds(b, e)) = Window
    BY DEF Indices, Bounds, Window, b, e
  <2> QED BY <2>1, <2>2 DEF Separated, Together
<1>9. Permuted
  BY NothingMoves DEF Init, Permuted, ArrayType
<1> QED BY <1>4, <1>5, <1>6, <1>7, <1>8, <1>9 DEF Inv

(* Taking the next range only moves it off the stack.                      *)
LEMMA TakeRangeKeeps ==
  ASSUME Inv, TakeRange, variant' = variant
  PROVE  Inv'
<1> USE DEF Inv
<1> DEFINE r == Head(stack)
           rest == Tail(stack)
<1>0. /\ stack \in Seq(RangeType) /\ stack # <<>> /\ pc = "driver" /\ res.done = 1
      /\ range' = r /\ stack' = rest
      /\ UNCHANGED <<array, input, tune, res>>
  BY DEF TakeRange, TypeOK
<1>1. /\ r = stack[1] /\ r \in RangeType /\ rest \in Seq(RangeType)
      /\ Len(stack) \in Nat /\ Len(stack) >= 1 /\ Len(rest) = Len(stack) - 1
      /\ \A k \in 1 .. Len(rest) : rest[k] = stack[k + 1]
  <2> HIDE DEF Inv
  <2> QED BY <1>0
<1>2. N \in Nat /\ r \in AnyRange /\ r.begin <= r.end /\ RangeType' = RangeType
      /\ tune.threshold \in Nat /\ tune.num_sample \in Nat \ {0}
      /\ array \in ArrayType
  <2>1. RangeType' = RangeType
    BY <1>0 DEF RangeType
  <2>2. 1 \in 1 .. Len(stack)
    BY <1>1
  <2>3. r.begin <= r.end
    BY <1>1, <2>2 DEF Ordered
  <2> HIDE DEF r
  <2> QED BY <1>1, <2>1, <2>3, PendingTypes, SortAssumption DEF TypeOK, ArrayType
<1>3. \/ /\ r.end - r.begin > tune.threshold /\ pc' = "partition"
         /\ loop' = [pivot |-> Sample(array, tune.num_sample, r),
                     i |-> r.begin, j |-> r.end, pv |-> r.end]
      \/ /\ pc' = "insert" /\ loop' = [loop EXCEPT !.i = r.begin + 1]
  BY DEF TakeRange
<1>4. /\ pc' \in {"partition", "insert"}
      /\ loop' \in [pivot : Int, i : Int, j : Int, pv : Int]
      /\ pc' = "partition" => loop'.i = r.begin /\ loop'.j = r.end /\ loop'.pv = r.end
      /\ pc' = "insert" => loop'.i = r.begin + 1
  <2> HIDE DEF r
  <2>1. r.begin \in Int /\ r.end \in Int
    BY <1>2 DEF AnyRange
  <2>2. CASE /\ r.end - r.begin > tune.threshold /\ pc' = "partition"
             /\ loop' = [pivot |-> Sample(array, tune.num_sample, r),
                         i |-> r.begin, j |-> r.end, pv |-> r.end]
    <3>1. r.begin < r.end
      BY <1>2, <2>1, <2>2
    <3>2. Sample(array, tune.num_sample, r) \in Int
      BY <1>2, <3>1, SampleIsInt DEF ArrayType
    <3> QED BY <2>1, <2>2, <3>2
  <2>3. CASE pc' = "insert" /\ loop' = [loop EXCEPT !.i = r.begin + 1]
    BY <2>1, <2>3 DEF Types
  <2> QED BY <1>3, <2>2, <2>3
<1>5. Pending' = Pending
  <2>1. Pending = {stack[k] : k \in 1 .. Len(stack)}
    BY <1>0 DEF Pending
  <2>2. Pending' = {rest[k] : k \in 1 .. Len(rest)} \cup {r}
    <3>1. (pc \in {"partition", "shift", "insert"})' /\ ~ (res.done = 0)'
      BY <1>0, <1>4
    <3>2. stack' = rest /\ range' = r
      BY <1>0
    <3> HIDE DEF Inv, r, rest
    <3>3. Pending' = ({stack[k] : k \in 1 .. Len(stack)})' \cup {range'}
      BY <3>1 DEF Pending
    <3> QED BY <3>2, <3>3
  <2>3. \A k \in 1 .. Len(stack) :
          stack[k] = r \/ (k - 1 \in 1 .. Len(rest) /\ stack[k] = rest[k - 1])
    <3>1. ASSUME NEW k \in 1 .. Len(stack), k # 1
          PROVE  k - 1 \in 1 .. Len(rest) /\ stack[k] = rest[k - 1]
      <4>1. k - 1 \in 1 .. Len(rest) /\ (k - 1) + 1 = k
        BY <1>1, <3>1
      <4>2. rest[k - 1] = stack[(k - 1) + 1]
        BY <1>1, <4>1
      <4> QED BY <4>1, <4>2
    <3> QED BY <1>1, <3>1
  <2>4. \A k \in 1 .. Len(rest) : k + 1 \in 1 .. Len(stack)
    BY <1>1
  <2>5. 1 \in 1 .. Len(stack)
    BY <1>1
  <2> HIDE DEF r, rest
  <2> QED BY <1>1, <2>1, <2>2, <2>3, <2>4, <2>5
<1> HIDE DEF r, rest
<1>6. TypeOK'
  <2>1. r.begin \in Int /\ r.end \in Int
    BY <1>2 DEF AnyRange
  <2> QED BY SMTT(60), <1>0, <1>1, <1>2, <1>4, <2>1 DEF TypeOK
<1>7. Types'
  BY <1>0, <1>2, <1>4 DEF Types
<1>8. Ordered'
  <2>0. \A k \in 1 .. Len(rest) : k + 1 \in 1 .. Len(stack)
    BY <1>1
  <2>1. \A k \in 1 .. Len(rest) : rest[k].begin <= rest[k].end
    BY <1>1, <2>0 DEF Ordered
  <2>2. ASSUME NEW k \in 1 .. Len(rest), NEW m \in 1 .. Len(rest), k < m
        PROVE  rest[k].end <= rest[m].begin
    <3>1. k + 1 < m + 1
      BY <2>2
    <3>2. stack[k + 1].end <= stack[m + 1].begin
      BY <2>0, <3>1 DEF Ordered
    <3> QED BY <1>1, <3>2
  <2>3. ASSUME NEW k \in 1 .. Len(rest) PROVE r.end <= rest[k].begin
    <3>1. 1 < k + 1 /\ 1 \in 1 .. Len(stack)
      BY <1>1
    <3>2. stack[1].end <= stack[k + 1].begin
      BY <2>0, <3>1 DEF Ordered
    <3> QED BY <1>1, <3>2
  <2>4. (res.done = 1)' /\ (range.begin <= range.end)'
    BY <1>0, <1>2
  <2>5. (~ (res.done = 0))' /\ pc' # "finished"
    BY <1>0, <1>4
  <2> QED BY <1>0, <2>1, <2>2, <2>3, <2>4, <2>5 DEF Ordered
<1>9. Split'
  <2>1. r.begin \in Int /\ r.end \in Int
    BY <1>2 DEF AnyRange
  <2> QED BY <1>0, <1>2, <1>4, <2>1 DEF Split, Indices
<1>10. Separated'
  BY <1>0, <1>5 DEF Separated, Together, Window, Indices
<1>11. Permuted'
  BY <1>0 DEF Permuted, Moves, Window
<1> QED BY <1>6, <1>7, <1>8, <1>9, <1>10, <1>11

(* An iteration of a loop on the range: what it must be shown to do. *)
LEMMA WorkKeeps ==
  ASSUME Inv, Busy, UNCHANGED <<variant, input, tune, stack, range, res, pc>>,
         array' \in ArrayType, Moves(array, array', Indices(range)),
         loop' \in [pivot : Int, i : Int, j : Int, pv : Int], Split'
  PROVE  Inv'
<1> USE DEF Inv
<1>0. N \in Nat /\ range \in RangeType /\ range \in AnyRange /\ RangeType' = RangeType
  BY PendingTypes DEF TypeOK, Types, Busy, RangeType
<1>1. Pending' = Pending
  BY DEF Pending
<1>2. TypeOK'
  <2>1. /\ pc = "partition" =>
             range.begin <= loop'.i /\ loop'.i <= loop'.j /\ loop'.j <= loop'.pv /\ loop'.pv <= range.end
        /\ pc = "shift" =>
             /\ range.begin <= res.left.end /\ res.left.end <= loop'.j
             /\ loop'.j <= loop'.pv /\ loop'.pv <= range.end
    BY DEF Split
  <2>2. range.begin \in Int /\ res.left.end \in Int /\ loop'.i \in Int /\ loop'.j \in Int
    BY <1>0 DEF Types, AnyRange
  <2>3. pc \in {"partition", "shift"} =>
          range.begin <= loop'.j /\ loop'.j <= loop'.pv /\ loop'.pv <= range.end
    BY <2>1, <2>2
  <2> QED BY <1>0, <2>1, <2>3 DEF TypeOK, ArrayType
<1>3. Types' /\ Ordered'
  BY DEF Types, Ordered, Busy
<1>4. Separated'
  BY <1>1, ExchangesKeepSeparated
<1>5. Permuted'
  <2>1. Indices(range) \subseteq Window
    BY <1>0, PendingTypes
  <2>2. Moves(input, array', Window)
    BY <2>1, MovesTwice DEF Permuted
  <2> QED BY <2>2 DEF Permuted, Moves, Window
<1> QED BY <1>2, <1>3, <1>4, <1>5

(* An element not below the pivot goes right, and a pivot to the end.      *)
LEMMA ScanKeeps ==
  ASSUME Inv, Scan, variant' = variant
  PROVE  Inv'
<1> DEFINE i == loop.i
           j == loop.j
           v == loop.pv
           x == loop.pivot
           b == range.begin
           e == range.end
           below == j - 1
           last == v - 1
<1>0. /\ pc = "partition" /\ i < j /\ UNCHANGED <<variant, input, tune, stack, range, res, pc>>
      /\ Busy
  BY DEF Scan, Busy
<1>1. /\ N \in Nat /\ b \in 0 .. N /\ e \in 0 .. N /\ array \in ArrayType
      /\ i \in Int /\ j \in Int /\ v \in Int /\ x \in Int
      /\ b <= i /\ i <= j /\ j <= v /\ v <= e
      /\ \A k \in b .. i - 1 : array[k] < x
      /\ \A k \in j .. v - 1 : array[k] > x
      /\ \A k \in v .. e - 1 : array[k] = x
      /\ loop \in [pivot : Int, i : Int, j : Int, pv : Int]
      /\ Indices(range) = b .. e - 1
  <2>1. N \in Nat /\ range \in AnyRange
    BY PendingTypes DEF Inv, Types
  <2> QED BY <1>0, <2>1 DEF Inv, TypeOK, Types, Split, AnyRange, ArrayType, Indices
<1>2. /\ i \in 0 .. N - 1 /\ below \in 0 .. N - 1 /\ last \in 0 .. N - 1
      /\ i \in Indices(range) /\ below \in Indices(range) /\ last \in Indices(range)
  BY SMTT(60), <1>0, <1>1
<1>3. CASE array[i] < x
  <2>1. array' = array /\ loop' = [loop EXCEPT !.i = i + 1]
    BY <1>3 DEF Scan
  <2>2. Moves(array, array', Indices(range)) /\ array' \in ArrayType
    BY <1>1, <2>1, NothingMoves
  <2>3. /\ loop' \in [pivot : Int, i : Int, j : Int, pv : Int]
        /\ loop'.i = i + 1 /\ loop'.j = j /\ loop'.pv = v /\ loop'.pivot = x
    BY <1>1, <2>1
  <2>4. Split'
    BY SMTT(60), <1>0, <1>1, <1>3, <2>1, <2>3 DEF Split
  <2> QED BY <1>0, <2>2, <2>3, <2>4, WorkKeeps
<1>4. CASE ~ array[i] < x
  <2> DEFINE moved == Swapped(array, i, below)
  <2>1. moved \in ArrayType /\ Moves(array, moved, Indices(range))
    BY <1>1, <1>2, SwapMoves
  <2>2. \A k \in 0 .. N - 1 : moved[k] = IF k = i THEN array[below]
                                         ELSE IF k = below THEN array[i] ELSE array[k]
    BY <1>1, <1>2 DEF Swapped, ArrayType
  <2>3. moved[below] = array[i] /\ array[i] \in Int /\ array[i] >= x
    <3> HIDE DEF i, j, x, moved, below
    <3>1. array[i] \in Int32
      BY <1>1, <1>2 DEF ArrayType
    <3>2. array[i] \in Int
      BY <3>1, SortAssumption
    <3>3. moved[below] = array[i]
      BY <1>2, <2>2
    <3> QED BY <1>1, <1>4, <3>2, <3>3
  <2>4. \/ /\ moved[below] = x /\ array' = Swapped(moved, below, last)
           /\ loop' = [loop EXCEPT !.j = below, !.pv = last]
        \/ /\ moved[below] # x /\ array' = moved /\ loop' = [loop EXCEPT !.j = below]
    BY <1>4 DEF Scan
  <2> HIDE DEF moved
  <2>5. CASE /\ moved[below] = x /\ array' = Swapped(moved, below, last)
             /\ loop' = [loop EXCEPT !.j = below, !.pv = last]
    <3>1. array' \in ArrayType /\ Moves(moved, array', Indices(range))
      BY <1>2, <2>1, <2>5, SwapMoves
    <3>2. Moves(array, array', Indices(range))
      BY <2>1, <3>1, MovesTwice
    <3>3. \A k \in 0 .. N - 1 : array'[k] = IF k = below THEN moved[last]
                                            ELSE IF k = last THEN moved[below] ELSE moved[k]
      BY <1>2, <2>1, <2>5 DEF Swapped, ArrayType
    <3>4. /\ loop' \in [pivot : Int, i : Int, j : Int, pv : Int]
          /\ loop'.i = i /\ loop'.j = below /\ loop'.pv = last /\ loop'.pivot = x
      <4>1. below \in Int /\ last \in Int
        BY <1>1
      <4>2. loop' = [loop EXCEPT !.j = below, !.pv = last]
        BY <2>5
      <4>3. loop \in [pivot : Int, i : Int, j : Int, pv : Int]
        BY <1>1
      <4> HIDE DEF below, last
      <4>4. loop' = [pivot |-> x, i |-> i, j |-> below, pv |-> last]
        BY <4>2, <4>3
      <4> QED BY <1>1, <4>1, <4>4
    <3>5. \A k \in b .. i - 1 : array'[k] < x
      BY SMTT(60), <1>0, <1>1, <2>2, <3>3
    <3>6. \A k \in below .. last - 1 : array'[k] > x
      BY SMTT(60), <1>0, <1>1, <2>2, <3>3
    <3>7. \A k \in last .. e - 1 : array'[k] = x
      BY SMTT(60), <1>0, <1>1, <2>2, <2>5, <3>3
    <3>8. Split'
      BY <1>0, <1>1, <3>4, <3>5, <3>6, <3>7 DEF Split
    <3> QED BY <1>0, <3>1, <3>2, <3>4, <3>8, WorkKeeps
  <2>6. CASE moved[below] # x /\ array' = moved /\ loop' = [loop EXCEPT !.j = below]
    <3>1. /\ loop' \in [pivot : Int, i : Int, j : Int, pv : Int]
          /\ loop'.i = i /\ loop'.j = below /\ loop'.pv = v /\ loop'.pivot = x
      BY <1>1, <2>6
    <3>2. \A k \in b .. i - 1 : array'[k] < x
      BY SMTT(60), <1>0, <1>1, <2>2, <2>6
    <3>3. \A k \in below .. v - 1 : array'[k] > x
      <4> HIDE DEF i, j, v, x, b, e
      <4>1. array'[below] > x
        BY <1>1, <2>3, <2>6
      <4>2. \A k \in j .. v - 1 : array'[k] > x
        BY SMTT(60), <1>0, <1>1, <2>2, <2>6
      <4> QED BY <1>1, <4>1, <4>2
    <3>4. \A k \in v .. e - 1 : array'[k] = x
      BY <1>0, <1>1, <2>2, <2>6
    <3>5. Split'
      BY <1>0, <1>1, <3>1, <3>2, <3>3, <3>4 DEF Split
    <3> QED BY <1>0, <2>1, <2>6, <3>1, <3>5, WorkKeeps
  <2> QED BY <2>4, <2>5, <2>6
<1> QED BY <1>3, <1>4

(* A pivot comes before the greater elements, in place of the first.       *)
LEMMA ShiftKeeps ==
  ASSUME Inv, Shift, variant' = variant
  PROVE  Inv'
<1> DEFINE j == loop.j
           v == loop.pv
           x == loop.pivot
           b == range.begin
           e == range.end
           l == res.left.end
<1>0. /\ pc = "shift" /\ loop.i < e /\ UNCHANGED <<variant, input, tune, stack, range, res, pc>>
      /\ Busy /\ array' = Swapped(array, j, v)
      /\ loop' = [loop EXCEPT !.i = @ + 1, !.j = @ + 1, !.pv = @ + 1]
  BY DEF Shift, Busy
<1>1. /\ N \in Nat /\ b \in 0 .. N /\ e \in 0 .. N /\ l \in 0 .. N /\ array \in ArrayType
      /\ j \in Int /\ v \in Int /\ x \in Int
      /\ loop.i = v /\ res.left.begin = b
      /\ b <= l /\ l <= j /\ j <= v /\ v <= e
      /\ \A k \in b .. l - 1 : array[k] < x
      /\ \A k \in l .. j - 1 : array[k] = x
      /\ \A k \in j .. v - 1 : array[k] > x
      /\ \A k \in v .. e - 1 : array[k] = x
      /\ loop \in [pivot : Int, i : Int, j : Int, pv : Int]
      /\ Indices(range) = b .. e - 1
  <2>1. N \in Nat /\ range \in AnyRange /\ res.left \in AnyRange
    BY PendingTypes DEF Inv, Types
  <2> QED BY <1>0, <2>1 DEF Inv, TypeOK, Types, Split, AnyRange, ArrayType, Indices
<1>2. /\ j \in 0 .. N - 1 /\ v \in 0 .. N - 1
      /\ j \in Indices(range) /\ v \in Indices(range)
  BY <1>0, <1>1
<1>3. array' \in ArrayType /\ Moves(array, array', Indices(range))
  BY <1>0, <1>1, <1>2, SwapMoves
<1>4. \A k \in 0 .. N - 1 : array'[k] = IF k = j THEN array[v]
                                        ELSE IF k = v THEN array[j] ELSE array[k]
  BY <1>0, <1>1, <1>2 DEF Swapped, ArrayType
<1>5. /\ loop' \in [pivot : Int, i : Int, j : Int, pv : Int]
      /\ loop'.i = v + 1 /\ loop'.j = j + 1 /\ loop'.pv = v + 1 /\ loop'.pivot = x
  <2>1. loop' = [loop EXCEPT !.i = v + 1, !.j = j + 1, !.pv = v + 1]
    BY <1>0, <1>1
  <2>2. loop' = [pivot |-> x, i |-> v + 1, j |-> j + 1, pv |-> v + 1]
    BY <1>1, <2>1
  <2> HIDE DEF x, v, j
  <2> QED BY <1>1, <2>2
<1>6. \A k \in b .. l - 1 : array'[k] < x
  BY <1>0, <1>1, <1>4
<1>7. \A k \in l .. j : array'[k] = x
  BY SMTT(60), <1>0, <1>1, <1>4
<1>8. \A k \in j + 1 .. v : array'[k] > x
  <2> HIDE DEF j, v, x, b, e, l
  <2> SUFFICES ASSUME NEW k \in j + 1 .. v PROVE array'[k] > x
    OBVIOUS
  <2>1. k \in 0 .. N - 1 /\ k # j
    BY <1>1, <1>2
  <2>2. CASE k = v
    <3>1. array'[k] = array[j] /\ j \in j .. v - 1
      BY <1>1, <1>4, <2>1, <2>2
    <3> QED BY <1>1, <3>1
  <2>3. CASE k # v
    <3>1. array'[k] = array[k] /\ k \in j .. v - 1
      BY <1>1, <1>4, <2>1, <2>3
    <3> QED BY <1>1, <3>1
  <2> QED BY <2>2, <2>3
<1>9. \A k \in v + 1 .. e - 1 : array'[k] = x
  BY SMTT(60), <1>0, <1>1, <1>4
<1>10. Split'
  BY SMTT(60), <1>0, <1>1, <1>5, <1>6, <1>7, <1>8, <1>9 DEF Split
<1> QED BY <1>0, <1>3, <1>5, <1>10, WorkKeeps

(* The scan has met: what is left of i is below the pivot.                 *)
LEMMA EndScanKeeps ==
  ASSUME Inv, EndScan, variant' = variant
  PROVE  Inv'
<1> USE DEF Inv
<1> DEFINE i == loop.i
           b == range.begin
           left == Bounds(b, i)
<1>0. /\ pc = "partition" /\ pc' = "shift" /\ i >= loop.j
      /\ res' = [res EXCEPT !.left = left] /\ loop' = [loop EXCEPT !.i = loop.pv]
      /\ UNCHANGED <<variant, array, input, tune, stack, range>>
  BY DEF EndScan
<1>1. /\ N \in Nat /\ b \in 0 .. N /\ range.end \in 0 .. N /\ array \in ArrayType
      /\ i \in Int /\ loop.j \in Int /\ loop.pv \in Int /\ loop.pivot \in Int
      /\ b <= i /\ i <= loop.j /\ loop.j <= loop.pv /\ loop.pv <= range.end
      /\ loop \in [pivot : Int, i : Int, j : Int, pv : Int]
      /\ range \in RangeType /\ range \in AnyRange /\ RangeType' = RangeType
  <2>1. N \in Nat /\ range \in AnyRange
    BY PendingTypes DEF Types
  <2> QED BY <1>0, <2>1 DEF TypeOK, Types, Split, AnyRange, ArrayType, RangeType
<1>2. left \in RangeType /\ left \in AnyRange /\ left.begin = b /\ left.end = i
  <2>1. tune.begin \in Int /\ tune.end \in Int
    BY DEF TypeOK
  <2> QED BY <1>0, <1>1, <2>1 DEF RangeType, AnyRange, Bounds
<1> HIDE DEF left
<1>3. res' = [done |-> res.done, left |-> left, right |-> res.right] /\ res.done = 1
  BY <1>0 DEF Types, Ordered, Busy
<1>4. /\ loop' \in [pivot : Int, i : Int, j : Int, pv : Int]
      /\ loop'.i = loop.pv /\ loop'.j = loop.j /\ loop'.pv = loop.pv /\ loop'.pivot = loop.pivot
  BY <1>0, <1>1
<1>5. Pending' = Pending
  <2>1. (res.done = 0)' <=> res.done = 0
    BY <1>3
  <2> QED BY <1>0, <1>3, <2>1 DEF Pending
<1>6. TypeOK'
  BY <1>0, <1>1, <1>2, <1>3, <1>4 DEF TypeOK
<1>7. Types'
  BY <1>0, <1>2, <1>3, <1>4 DEF Types
<1>8. Ordered'
  <2>1. (res.done = 1)' /\ ~ (res.done = 0)'
    BY <1>3
  <2> QED BY <1>0, <2>1 DEF Ordered, Busy
<1>9. Split'
  <2>1. i = loop.j
    BY <1>0, <1>1
  <2>2. res'.left = left
    BY <1>3
  <2>3. \A k \in i .. loop.j - 1 : array[k] = loop.pivot
    BY <1>1, <2>1
  <2> QED BY <1>0, <1>1, <1>2, <1>4, <2>1, <2>2, <2>3 DEF Split
<1>10. Separated' /\ Permuted'
  BY <1>0, <1>5 DEF Separated, Together, Permuted, Moves, Window, Indices
<1> QED BY <1>6, <1>7, <1>8, <1>9, <1>10

(* The range is replaced by what is left and what is right of the pivots.  *)
LEMMA EndShiftKeeps ==
  ASSUME Inv, EndShift, variant' = variant
  PROVE  Inv'
<1> USE DEF Inv
<1> DEFINE j == loop.j
           x == loop.pivot
           b == range.begin
           e == range.end
           left == res.left
           l == res.left.end
           right == Bounds(j, e)
<1>0. /\ pc = "shift" /\ pc' = "driver" /\ loop.i >= e
      /\ res' = [res EXCEPT !.done = 0, !.right = right]
      /\ UNCHANGED <<variant, array, input, tune, stack, range, loop>>
  BY DEF EndShift
<1>1. /\ N \in Nat /\ b \in 0 .. N /\ e \in 0 .. N /\ l \in 0 .. N /\ array \in ArrayType
      /\ j \in Int /\ x \in Int /\ left \in AnyRange /\ left \in RangeType
      /\ left.begin = b /\ b <= l /\ l <= j /\ j <= e
      /\ \A k \in b .. l - 1 : array[k] < x
      /\ \A k \in l .. j - 1 : array[k] = x
      /\ \A k \in j .. e - 1 : array[k] > x
      /\ range \in RangeType /\ range \in AnyRange /\ RangeType' = RangeType
      /\ Indices(range) = b .. e - 1
  <2>1. N \in Nat /\ range \in AnyRange /\ left \in AnyRange
    BY PendingTypes DEF Types
  <2>2. /\ left \in RangeType /\ range \in RangeType /\ RangeType' = RangeType /\ array \in ArrayType
    BY <1>0 DEF TypeOK, RangeType, ArrayType
  <2>3. loop.pv = e
    BY <1>0, <2>1 DEF Split, Types, AnyRange
  <2> QED BY <1>0, <2>1, <2>2, <2>3 DEF Split, Types, AnyRange, Indices
<1>2. right \in RangeType /\ right \in AnyRange /\ right.begin = j /\ right.end = e
  <2>1. tune.begin \in Int /\ tune.end \in Int
    BY DEF TypeOK
  <2> QED BY <1>0, <1>1, <2>1 DEF RangeType, AnyRange, Bounds
<1> HIDE DEF right
<1>3. res' = [done |-> 0, left |-> left, right |-> right] /\ res.done = 1
  BY <1>0 DEF Types, Ordered, Busy
<1>4. /\ Pending = {stack[k] : k \in 1 .. Len(stack)} \cup {range}
      /\ Pending' = {stack[k] : k \in 1 .. Len(stack)} \cup {left, right}
  BY <1>0, <1>3 DEF Pending
<1>5. TypeOK'
  BY <1>0, <1>1, <1>2, <1>3 DEF TypeOK
<1>6. Types'
  BY <1>0, <1>1, <1>2, <1>3 DEF Types
<1>7. Ordered'
  <2>1. /\ (res.done = 0)' /\ res'.left = left /\ res'.right = right
    BY <1>3
  <2>2. \A k \in 1 .. Len(stack) : right.end <= stack[k].begin
    BY <1>0, <1>2 DEF Ordered, Busy
  <2>3. \A k \in 1 .. Len(stack) : /\ stack[k].begin <= stack[k].end
                                   /\ \A m \in 1 .. Len(stack) : k < m => stack[k].end <= stack[m].begin
    BY DEF Ordered
  <2>4. pc' = "driver" /\ stack' = stack
    BY <1>0
  <2> QED BY <1>1, <1>2, <2>1, <2>2, <2>3, <2>4 DEF Ordered, Busy
<1>8. Split'
  BY <1>0 DEF Split
<1>9. Separated'
  <2> DEFINE P == Pending
             Q == {stack[k] : k \in 1 .. Len(stack)} \cup {left, right}
  <2>1. Indices(left) = b .. l - 1 /\ Indices(right) = j .. e - 1
    BY <1>1, <1>2 DEF Indices
  <2>2. ASSUME NEW p \in Window, NEW q \in Window, p < q
        PROVE  array[p] <= array[q] \/ \E r \in Q : p \in Indices(r) /\ q \in Indices(r)
    <3>1. CASE array[p] <= array[q]
      BY <3>1
    <3>2. CASE \E r \in P : p \in Indices(r) /\ q \in Indices(r)
      <4>1. PICK r \in P : p \in Indices(r) /\ q \in Indices(r)
        BY <3>2
      <4>2. CASE r # range
        <5>1. r \in Q
          BY <1>4, <4>2
        <5> QED BY <4>1, <5>1
      <4>3. CASE r = range
        <5>1. p \in b .. e - 1 /\ q \in b .. e - 1
          BY <1>1, <4>1, <4>3
        <5>2. CASE q <= l - 1
          <6>1. p \in Indices(left) /\ q \in Indices(left)
            BY <1>1, <2>1, <2>2, <5>1, <5>2
          <6> QED BY <6>1
        <5>3. CASE p >= j
          <6>1. p \in Indices(right) /\ q \in Indices(right)
            BY <1>1, <2>1, <2>2, <5>1, <5>3
          <6> QED BY <6>1
        <5>4. CASE p < j /\ q >= l
          <6> HIDE DEF j, x, b, e, l, left, P, Q
          <6>1. array[p] \in Int /\ array[q] \in Int
            <7>1. p \in 0 .. N - 1 /\ q \in 0 .. N - 1
              BY <1>1, <5>1
            <7> QED BY <1>1, <7>1, SortAssumption DEF ArrayType
          <6>2. array[p] <= x
            <7>1. p \in b .. l - 1 \/ p \in l .. j - 1
              BY <1>1, <5>1, <5>4
            <7> QED BY <1>1, <6>1, <7>1
          <6>3. array[q] >= x
            <7>1. q \in l .. j - 1 \/ q \in j .. e - 1
              BY <1>1, <5>1, <5>4
            <7> QED BY <1>1, <6>1, <7>1
          <6> QED BY <1>1, <6>1, <6>2, <6>3
        <5> QED BY <1>1, <5>1, <5>2, <5>3, <5>4
      <4> QED BY <4>2, <4>3
    <3>3. array[p] <= array[q] \/ \E r \in P : p \in Indices(r) /\ q \in Indices(r)
      BY <2>2 DEF Separated, Together
    <3> QED BY <3>1, <3>2, <3>3
  <2>3. Pending' = Q /\ Window' = Window /\ array' = array
    BY <1>0, <1>4 DEF Window
  <2>4. \A r \in Q : Indices(r)' = Indices(r)
    BY DEF Indices
  <2> HIDE DEF P, Q
  <2> QED BY <2>2, <2>3, <2>4 DEF Separated, Together, Indices
<1>10. Permuted'
  BY <1>0 DEF Permuted, Moves, Window
<1> QED BY <1>5, <1>6, <1>7, <1>8, <1>9, <1>10

(* The element at i goes behind the last one that is not greater.          *)
LEMMA InsertOneKeeps ==
  ASSUME Inv, InsertOne, variant' = variant
  PROVE  Inv'
<1> DEFINE i == loop.i
           b == range.begin
           e == range.end
           stop == {k \in b .. i : k = b \/ Compare(array[i], array[k - 1]) >= 0}
           j == Max(stop)
<1>0. /\ pc = "insert" /\ i < e /\ UNCHANGED <<variant, input, tune, stack, range, res, pc>>
      /\ Busy /\ loop' = [loop EXCEPT !.i = i + 1]
  BY DEF InsertOne, Busy
<1>1. /\ N \in Nat /\ b \in 0 .. N /\ e \in 0 .. N /\ array \in ArrayType
      /\ i \in Int /\ b + 1 <= i
      /\ loop \in [pivot : Int, i : Int, j : Int, pv : Int]
      /\ Indices(range) = b .. e - 1
      /\ \A p, q \in b .. e - 1 : p < q /\ q < i => array[p] <= array[q]
  <2>1. N \in Nat /\ range \in AnyRange
    BY PendingTypes DEF Inv, Types
  <2> QED BY <1>0, <2>1 DEF Inv, TypeOK, Types, Split, AnyRange, ArrayType, Indices
<1>2. array' = Inserted(array, i, j)
  BY DEF InsertOne, Inserted
<1> HIDE DEF j
<1>3. i \in 0 .. N - 1 /\ b \in b .. i
  BY <1>0, <1>1
<1>4. \A k \in 0 .. N - 1 : array[k] \in Int32 /\ array[k] \in Int
  BY <1>1, SortAssumption DEF ArrayType
<1>5. j \in b .. i /\ (j = b \/ array[j - 1] <= array[i])
      /\ \A k \in j + 1 .. i : array[i] < array[k - 1]
  <2>1. stop \subseteq b .. i /\ b \in stop
    BY <1>3
  <2>2. j \in stop /\ \A k \in stop : k <= j
    <3>1. b \in Int /\ i \in Int
      BY <1>1
    <3>2. stop \subseteq b .. i /\ stop # {}
      BY <2>1
    <3> HIDE DEF stop, b, i
    <3> QED BY <3>1, <3>2, MaxIsIn DEF j
  <2>3. \A k \in b + 1 .. i : Compare(array[i], array[k - 1]) = array[i] - array[k - 1]
    <3> SUFFICES ASSUME NEW k \in b + 1 .. i
                 PROVE  Compare(array[i], array[k - 1]) = array[i] - array[k - 1]
      OBVIOUS
    <3>1. k - 1 \in 0 .. N - 1
      BY <1>1, <1>3
    <3> QED BY <1>3, <1>4, <3>1, CompareIsDifference
  <2> HIDE DEF i, b, e
  <2>4. \A k \in b + 1 .. i : k - 1 \in 0 .. N - 1
    BY <1>1, <1>3
  <2>5. \A k \in b + 1 .. i : k \in stop <=> array[k - 1] <= array[i]
    <3> SUFFICES ASSUME NEW k \in b + 1 .. i PROVE k \in stop <=> array[k - 1] <= array[i]
      OBVIOUS
    <3>1. k \in b .. i /\ k # b
      BY <1>1
    <3>2. array[k - 1] \in Int /\ array[i] \in Int
      BY <1>3, <1>4, <2>4
    <3>3. k \in stop <=> array[i] - array[k - 1] >= 0
      BY <2>3, <3>1
    <3> QED BY <3>2, <3>3
  <2>6. j \in b .. i
    BY <2>1, <2>2
  <2>7. j = b \/ array[j - 1] <= array[i]
    <3>1. j = b \/ j \in b + 1 .. i
      BY <1>1, <2>6
    <3> QED BY <2>2, <2>5, <3>1
  <2>8. ASSUME NEW k \in j + 1 .. i PROVE array[i] < array[k - 1]
    <3>1. k \in b + 1 .. i /\ ~ k <= j
      BY <1>1, <2>6
    <3>2. k \notin stop
      BY <2>2, <3>1
    <3>3. array[k - 1] \in Int /\ array[i] \in Int
      BY <1>3, <1>4, <2>4, <3>1
    <3> QED BY <2>5, <3>1, <3>2, <3>3
  <2> QED BY <2>6, <2>7, <2>8
<1> HIDE DEF stop
<1>6. array' \in ArrayType /\ Moves(array, array', Indices(range))
  <2>1. j \in 0 .. i /\ j .. i \subseteq Indices(range)
    BY <1>0, <1>1, <1>5
  <2> HIDE DEF i
  <2> QED BY <1>1, <1>2, <1>3, <2>1, InsertMoves
<1>7. loop' \in [pivot : Int, i : Int, j : Int, pv : Int] /\ loop'.i = i + 1
  BY <1>0, <1>1
<1>8. Split'
  <2>1. \A k \in 0 .. N - 1 : array'[k] = IF k = j THEN array[i]
                                          ELSE IF k \in j + 1 .. i THEN array[k - 1]
                                          ELSE array[k]
    BY <1>2 DEF Inserted
  <2>2. ASSUME NEW p \in b .. e - 1, NEW q \in b .. e - 1, p < q, q < i + 1
        PROVE  array'[p] <= array'[q]
    <3> HIDE DEF i, b, e
    <3>0. /\ p \in 0 .. N - 1 /\ q \in 0 .. N - 1 /\ p \in Int /\ q \in Int
          /\ p <= i /\ q <= i /\ b <= p /\ b <= q /\ j \in Int /\ b <= j /\ j <= i
      BY <1>1, <1>5, <2>2
    <3>1. CASE q < j
      <4>1. array'[p] = array[p] /\ array'[q] = array[q]
        BY <2>1, <2>2, <3>0, <3>1, <1>1
      <4>2. q < i
        BY <3>0, <3>1, <1>1
      <4> QED BY <1>1, <2>2, <4>1, <4>2
    <3>2. CASE q = j
      <4>1. array'[p] = array[p] /\ array'[q] = array[i]
        BY <2>1, <2>2, <3>0, <3>2, <1>1
      <4>2. array[j - 1] <= array[i] /\ j - 1 \in b .. e - 1 /\ j - 1 < i
        BY <1>0, <1>1, <1>5, <2>2, <3>0, <3>2
      <4>3. p <= j - 1
        BY <2>2, <3>0, <3>2
      <4>4. p = j - 1 \/ array[p] <= array[j - 1]
        BY <1>1, <4>2, <4>3, <3>0
      <4>5. array[p] \in Int /\ array[j - 1] \in Int /\ array[i] \in Int
        BY <1>1, <1>3, <1>4, <3>0, <4>2
      <4> QED BY <4>1, <4>2, <4>4, <4>5
    <3>3. CASE q > j
      <4>1. /\ q \in j + 1 .. i /\ array'[q] = array[q - 1] /\ q # j
            /\ q - 1 \in b .. e - 1 /\ q - 1 < i
        BY <1>1, <2>1, <3>0, <3>3
      <4>2. CASE p < j
        <5>1. array'[p] = array[p] /\ p < q - 1
          BY <1>1, <2>1, <3>0, <3>3, <4>2
        <5> QED BY <1>1, <4>1, <5>1
      <4>3. CASE p = j
        <5>1. array'[p] = array[i] /\ array[i] < array[q - 1]
          BY <1>5, <2>1, <3>0, <4>1, <4>3
        <5>2. array[i] \in Int /\ array[q - 1] \in Int
          BY <1>1, <1>3, <1>4, <4>1
        <5> QED BY <4>1, <5>1, <5>2
      <4>4. CASE p > j
        <5>1. p \in j + 1 .. i /\ p # j /\ p - 1 \in b .. e - 1 /\ p - 1 < q - 1
          BY <1>1, <2>2, <3>0, <4>4
        <5>2. array'[p] = array[p - 1]
          BY <2>1, <3>0, <5>1
        <5> QED BY <1>1, <4>1, <5>1, <5>2
      <4> QED BY <3>0, <4>2, <4>3, <4>4
    <3> QED BY <3>0, <3>1, <3>2, <3>3
  <2>3. range'.begin + 1 <= loop'.i
    BY <1>0, <1>1, <1>7
  <2>4. pc' = "insert" /\ Indices(range)' = b .. e - 1 /\ loop'.i = i + 1
    BY <1>0, <1>1, <1>7 DEF Indices
  <2> HIDE DEF b, e, i
  <2> QED BY <2>2, <2>3, <2>4 DEF Split
<1> QED BY <1>0, <1>6, <1>7, <1>8, WorkKeeps

(* A range sorted by insertion leaves the agenda in order.                 *)
LEMMA EndInsertKeeps ==
  ASSUME Inv, EndInsert, variant' = variant
  PROVE  Inv'
<1> USE DEF Inv
<1>0. /\ pc = "insert" /\ pc' = "driver" /\ loop.i >= range.end
      /\ res' = [res EXCEPT !.done = 1] /\ res.done = 1
      /\ UNCHANGED <<variant, array, input, tune, stack, range, loop>>
  BY DEF EndInsert, Ordered, Busy
<1>1. res' = res
  BY <1>0 DEF Types
<1>2. TypeOK'
  <2>1. RangeType' = RangeType
    BY <1>0 DEF RangeType
  <2> QED BY <1>0, <1>1, <2>1 DEF TypeOK
<1>3. Types' /\ Ordered' /\ Split' /\ Permuted'
  BY <1>0, <1>1 DEF Types, Ordered, Busy, Split, Permuted, Moves, Window
<1>4. Separated'
  <2>1. Pending \subseteq Pending' \cup {range}
    BY <1>0, <1>1 DEF Pending
  <2>2. ASSUME NEW p \in Indices(range), NEW q \in Indices(range), p < q
        PROVE  array[p] <= array[q]
    <3>1. q < loop.i
      <4>1. range \in AnyRange /\ loop.i \in Int
        BY DEF Types
      <4> QED BY <1>0, <2>2, <4>1, PendingTypes DEF Indices, AnyRange
    <3> QED BY <1>0, <2>2, <3>1 DEF Split
  <2>3. ASSUME NEW p \in Window, NEW q \in Window, p < q
        PROVE  array[p] <= array[q] \/ \E r \in Pending' : p \in Indices(r) /\ q \in Indices(r)
    BY <2>1, <2>2, <2>3 DEF Separated, Together
  <2>4. Window' = Window /\ array' = array
    BY <1>0 DEF Window
  <2> QED BY <2>3, <2>4 DEF Separated, Together, Indices
<1> QED BY <1>2, <1>3, <1>4

(* The driver, or the call that recurses, puts both ranges on the agenda.  *)
LEMMA PushKeeps ==
  ASSUME Inv, PushRanges \/ Recurse, variant' = variant
  PROVE  Inv'
<1> USE DEF Inv
<1> DEFINE l == res.left
           r == res.right
           n == Len(stack)
           two == <<l, r>>
           both == two \o stack
<1>0. /\ pc = "driver" /\ res.done = 0 /\ stack' = both
      /\ res' = [res EXCEPT !.done = 1]
      /\ UNCHANGED <<variant, array, input, tune, range, loop, pc>>
  BY DEF PushRanges, Recurse
<1>1. /\ l \in RangeType /\ r \in RangeType /\ stack \in Seq(RangeType) /\ n \in Nat
      /\ l \in AnyRange /\ r \in AnyRange /\ RangeType' = RangeType
  BY <1>0 DEF TypeOK, Types, RangeType
<1>2. res' = [done |-> 1, left |-> l, right |-> r]
  BY <1>0 DEF Types
<1>3. /\ both \in Seq(RangeType) /\ Len(both) = n + 2
      /\ both[1] = l /\ both[2] = r
      /\ \A k \in 1 .. n : k + 2 \in 1 .. Len(both) /\ both[k + 2] = stack[k]
      /\ \A k \in 3 .. n + 2 : both[k] = stack[k - 2] /\ k - 2 \in 1 .. n
  <2> HIDE DEF Inv, l, r
  <2>1. two \in Seq(RangeType) /\ Len(two) = 2 /\ two[1] = l /\ two[2] = r
    BY <1>1
  <2> HIDE DEF two
  <2>0. two \in Seq(RangeType) /\ stack \in Seq(RangeType)
    BY <1>1, <2>1
  <2>2. both \in Seq(RangeType) /\ Len(both) = n + 2
    <3>1. both \in Seq(RangeType)
      BY <2>0, ConcatProperties
    <3>2. Len(both) = Len(two) + Len(stack)
      BY <2>0, ConcatProperties
    <3> QED BY <1>1, <2>1, <3>1, <3>2
  <2>a. \A i \in 1 .. Len(two) + Len(stack) :
          both[i] = IF i <= Len(two) THEN two[i] ELSE stack[i - Len(two)]
    BY <2>0, ConcatProperties
  <2> HIDE DEF both
  <2>b. \A i \in 1 .. n + 2 : both[i] = IF i <= 2 THEN two[i] ELSE stack[i - 2]
    BY <1>1, <2>1, <2>a
  <2> HIDE DEF n
  <2>3. both[1] = l /\ both[2] = r
    BY <1>1, <2>1, <2>b
  <2>4. \A k \in 1 .. n : k + 2 \in 1 .. Len(both) /\ both[k + 2] = stack[k]
    <3> SUFFICES ASSUME NEW k \in 1 .. n
                 PROVE  k + 2 \in 1 .. Len(both) /\ both[k + 2] = stack[k]
      OBVIOUS
    <3>1. k + 2 \in 1 .. n + 2 /\ ~ k + 2 <= 2 /\ (k + 2) - 2 = k
      BY <1>1
    <3>2. both[k + 2] = stack[(k + 2) - 2]
      BY <2>b, <3>1
    <3> QED BY <2>2, <3>1, <3>2
  <2>5. \A k \in 3 .. n + 2 : both[k] = stack[k - 2] /\ k - 2 \in 1 .. n
    BY <1>1, <2>b
  <2> QED BY <2>2, <2>3, <2>4, <2>5
<1>4. Pending' = Pending
  <2>1. Pending = {stack[k] : k \in 1 .. n} \cup {l, r}
    BY <1>0 DEF Pending
  <2>2. Pending' = {both[k] : k \in 1 .. Len(both)}
    <3>1. ~ (res.done = 0)' /\ ~ (pc \in {"partition", "shift", "insert"})' /\ stack' = both
      BY <1>0, <1>2
    <3> HIDE DEF Inv, both
    <3> QED BY <3>1 DEF Pending
  <2> HIDE DEF both, l, r, n, Inv
  <2>3. \A k \in 1 .. Len(both) : k = 1 \/ k = 2 \/ k \in 3 .. n + 2
    BY <1>1, <1>3
  <2>4. 1 \in 1 .. Len(both) /\ 2 \in 1 .. Len(both)
    BY <1>1, <1>3
  <2>5. \A k \in 1 .. Len(both) : both[k] \in Pending
    BY <1>3, <2>1, <2>3
  <2>6. \A q \in Pending : \E k \in 1 .. Len(both) : both[k] = q
    BY <1>3, <2>1, <2>4
  <2> QED BY <2>2, <2>5, <2>6
<1> HIDE DEF both
<1>5. TypeOK'
  <2>1. (res.done \in {0, 1})' /\ ~ (res.done = 0)' /\ (stack \in Seq(RangeType))'
    BY <1>0, <1>1, <1>2, <1>3
  <2> QED BY <1>0, <1>1, <1>2, <2>1 DEF TypeOK
<1>6. Types'
  BY <1>0, <1>1, <1>2 DEF Types
<1>7. Ordered'
  <2>0. /\ l.begin <= l.end /\ l.end <= r.begin /\ r.begin <= r.end
        /\ \A k \in 1 .. n : r.end <= stack[k].begin
        /\ \A k \in 1 .. n : stack[k].begin <= stack[k].end
        /\ \A k, m \in 1 .. n : k < m => stack[k].end <= stack[m].begin
    BY <1>0 DEF Ordered
  <2>1. l.end \in Int /\ r.begin \in Int /\ r.end \in Int
    BY <1>1 DEF AnyRange
  <2>2. \A k \in 1 .. n : stack[k].begin \in Int
    <3>1. \A k \in 1 .. n : stack[k] \in AnyRange
      BY PendingTypes
    <3> QED BY <3>1 DEF AnyRange
  <2>3. ~ (res.done = 0)' /\ ~ Busy' /\ pc' # "finished"
    BY <1>0, <1>2 DEF Busy
  <2> HIDE DEF Inv, l, r, n
  <2>4. \A k \in 1 .. Len(both) : k = 1 \/ k = 2 \/ k \in 3 .. n + 2
    BY <1>1, <1>3
  <2>5. \A k \in 1 .. Len(both) : both[k].begin <= both[k].end
    BY <1>3, <2>0, <2>4
  <2>6. ASSUME NEW k \in 1 .. Len(both), NEW m \in 1 .. Len(both), k < m
        PROVE  both[k].end <= both[m].begin
    <3>0. m # 1 /\ (m = 2 => k = 1) /\ (k \in 3 .. n + 2 => m \in 3 .. n + 2 /\ k - 2 < m - 2)
      BY <1>1, <1>3, <2>6
    <3>1. CASE m = 2
      BY <1>3, <2>0, <3>0, <3>1
    <3>2. CASE m \in 3 .. n + 2
      <4>1. both[m] = stack[m - 2] /\ m - 2 \in 1 .. n
        BY <1>3, <3>2
      <4>2. r.end <= stack[m - 2].begin /\ stack[m - 2].begin \in Int
        BY <2>0, <2>2, <4>1
      <4>3. l.end <= stack[m - 2].begin
        BY <2>0, <2>1, <4>2
      <4>4. CASE k \in 3 .. n + 2
        BY <1>3, <2>0, <3>0, <4>1, <4>4
      <4> QED BY <1>3, <2>4, <4>1, <4>2, <4>3, <4>4
    <3> QED BY <2>4, <3>0, <3>1, <3>2
  <2> QED BY <1>0, <2>3, <2>5, <2>6 DEF Ordered
<1>8. Split'
  BY <1>0 DEF Split
<1>9. Separated' /\ Permuted'
  BY <1>0, <1>4 DEF Separated, Together, Permuted, Moves, Window, Indices
<1> QED BY <1>5, <1>6, <1>7, <1>8, <1>9

(* The agenda is empty.                                                    *)
LEMMA FinishKeeps ==
  ASSUME Inv, Finish, variant' = variant
  PROVE  Inv'
<1> USE DEF Inv
<1>0. /\ pc = "driver" /\ pc' = "finished" /\ res.done = 1 /\ stack = <<>>
      /\ UNCHANGED <<variant, array, input, tune, stack, range, loop, res>>
  BY DEF Finish
<1>1. RangeType' = RangeType /\ Pending' = Pending
  BY <1>0 DEF RangeType, Pending
<1>2. TypeOK' /\ Types'
  BY <1>0, <1>1 DEF TypeOK, Types
<1>3. Ordered' /\ Split'
  BY <1>0 DEF Ordered, Busy, Split
<1>4. Separated' /\ Permuted'
  BY <1>0, <1>1 DEF Separated, Together, Permuted, Moves, Window, Indices
<1> QED BY <1>2, <1>3, <1>4

(* The inductive step.                                                     *)
LEMMA StepCorrect == Inv /\ [Next]_vars => Inv'
<1> SUFFICES ASSUME Inv, [Next]_vars PROVE Inv'
  OBVIOUS
<1>1. CASE Next
  <2>0. variant' = variant
    BY <1>1 DEF Next
  <2>1. CASE TakeRange
    BY <2>0, <2>1, TakeRangeKeeps
  <2>2. CASE Scan
    BY <2>0, <2>2, ScanKeeps
  <2>3. CASE EndScan
    BY <2>0, <2>3, EndScanKeeps
  <2>4. CASE Shift
    BY <2>0, <2>4, ShiftKeeps
  <2>5. CASE EndShift
    BY <2>0, <2>5, EndShiftKeeps
  <2>6. CASE InsertOne
    BY <2>0, <2>6, InsertOneKeeps
  <2>7. CASE EndInsert
    BY <2>0, <2>7, EndInsertKeeps
  <2>8. CASE PushRanges \/ Recurse
    BY <2>0, <2>8, PushKeeps
  <2>9. CASE Finish
    BY <2>0, <2>9, FinishKeeps
  <2> QED BY <1>1, <2>1, <2>2, <2>3, <2>4, <2>5, <2>6, <2>7, <2>8, <2>9 DEF Next
<1>2. CASE UNCHANGED vars
  <2>1. RangeType' = RangeType /\ Pending' = Pending
    BY <1>2 DEF RangeType, Pending, vars
  <2>2. TypeOK' /\ Types'
    BY <1>2, <2>1 DEF TypeOK, Types, vars, Inv
  <2>3. Ordered' /\ Split'
    BY <1>2 DEF Ordered, Busy, Split, vars, Inv, Indices
  <2>4. Separated' /\ Permuted'
    BY <1>2, <2>1 DEF Separated, Together, Permuted, Moves, Window, Indices, vars, Inv
  <2> QED BY <2>2, <2>3, <2>4 DEF Inv
<1> QED BY <1>1, <1>2

(* The invariant holds in every reachable state.                           *)
LEMMA AlwaysInv == Spec => []Inv
<1> QED BY InitCorrect, StepCorrect, PTL DEF Spec

-----------------------------------------------------------------------------
(* The loops of the quicksorts never leave the range they work on, and the *)
(* ranges never leave the window the client gave.                          *)
THEOREM SortTypeCorrect == Spec => []TypeOK
<1>1. Inv => TypeOK
  BY DEF Inv
<1> QED BY <1>1, AlwaysInv, PTL

(* What no range of the agenda holds together any more is in order, and    *)
(* pelib_is_increasing accepts an array that has been sorted as a whole.   *)
THEOREM PendingStaysSeparated == Spec => []PendingSeparated
<1>1. Inv => PendingSeparated
  <2> SUFFICES ASSUME Inv PROVE PendingSeparated
    OBVIOUS
  <2>1. ASSUME NEW p \in Window, NEW q \in Window, p < q
        PROVE  array[p] <= array[q] \/ \E r \in Pending : {p, q} \subseteq Indices(r)
    <3>1. array[p] <= array[q] \/ Together(p, q)
      BY <2>1 DEF Inv, Separated
    <3> QED BY <3>1 DEF Together
  <2>2. ASSUME Pending = {}, tune.begin = 0, tune.end = N, NEW k \in 1 .. N - 1
        PROVE  Compare(array[k - 1], array[k]) <= 0
    <3>1. k - 1 \in Window /\ k \in Window /\ k - 1 < k /\ k - 1 \in 0 .. N - 1 /\ k \in 0 .. N - 1
      BY <2>2, SortAssumption DEF Window
    <3>2. array[k - 1] <= array[k]
      <4>1. array[k - 1] <= array[k] \/ \E r \in Pending : {k - 1, k} \subseteq Indices(r)
        BY <2>1, <3>1
      <4> QED BY <2>2, <4>1
    <3>3. array[k - 1] \in Int32 /\ array[k] \in Int32
      BY <3>1 DEF Inv, TypeOK
    <3>4. Compare(array[k - 1], array[k]) = array[k - 1] - array[k]
      BY <3>3, CompareIsDifference
    <3>5. array[k - 1] \in Int /\ array[k] \in Int
      BY <3>3, SortAssumption
    <3> QED BY <3>2, <3>4, <3>5
  <2> QED BY <2>1, <2>2 DEF PendingSeparated, Window, IsIncreasing
<1> QED BY <1>1, AlwaysInv, PTL

(* sort.h is implemented: when a quicksort ends the window is in order and *)
(* holds each element as often as before, and nothing else has changed.    *)
THEOREM SortRefines == Spec => ImplementsSorting
<1>1. Init => Sorted!Init
  BY DEF Init, Sorted!Init
<1>2. Inv /\ Inv' /\ [Next]_vars => [Sorted!Sort]_(Sorted!vars)
  <2> SUFFICES ASSUME Inv, Inv', [Next]_vars PROVE [Sorted!Sort]_(Sorted!vars)
    OBVIOUS
  <2>0. tune' = tune /\ input' = input
    BY DEF Next, vars, TakeRange, Scan, EndScan, Shift, EndShift, InsertOne, EndInsert,
           PushRanges, Recurse, Finish
  <2>1. CASE Finish
    <3>0. pc = "driver" /\ pc' = "finished" /\ array' = array /\ res.done = 1 /\ stack = <<>>
      BY <2>1 DEF Finish
    <3>1. Pending = {}
      BY <3>0 DEF Pending
    <3>2. \A p, q \in Window : p < q => array[p] <= array[q]
      BY <3>1 DEF Inv, Separated, Together
    <3>3. Moves(input, array, Window) /\ Window \subseteq 0 .. N - 1
      BY PendingTypes DEF Inv, Permuted
    <3>4. ASSUME NEW v
          PROVE  Sorted!Count(array, v) = Sorted!Count(input, v)
      <4>1. CountIn(input, v) = CountIn(array, v)
        BY <3>3, MovesKeepCount
      <4>2. Sorted!Window = Window
        BY DEF Sorted!Window, Window, Bounds
      <4>3. \A a : Sorted!Count(a, v) = CountIn(a, v)
        BY <4>2 DEF Sorted!Count, CountIn, Sorted!Cardinality, Cardinality
      <4> QED BY <4>1, <4>3
    <3>5. \A k \in (0 .. N - 1) \ Window : array[k] = input[k]
      BY <3>3, MovesFrom
    <3>6. DOMAIN array = 0 .. N - 1 /\ DOMAIN input = 0 .. N - 1
      BY DEF Inv, TypeOK
    <3>7. Sorted!Window = Window /\ Sorted!Window' = Window
      BY <2>0 DEF Sorted!Window, Window, Bounds
    <3>8. Sorted!InOrder(array)
      BY <3>2, <3>7 DEF Sorted!InOrder
    <3>9. Sorted!Permutes(array, input)
      BY <3>4, <3>5, <3>6, <3>7 DEF Sorted!Permutes
    <3>10. /\ (IF pc = "finished" THEN array ELSE input)' = array
           /\ (IF pc = "finished" THEN array ELSE input) = input
           /\ Bounds(tune.begin, tune.end)' = Bounds(tune.begin, tune.end)
           /\ ~ (pc = "finished") /\ (pc = "finished")'
      BY <2>0, <3>0
    <3> QED BY <3>8, <3>9, <3>10, Zenon DEF Sorted!Sort
  <2>2. CASE ~ Finish
    <3>1. (pc' = "finished") <=> (pc = "finished")
      BY <2>2 DEF Next, vars, TakeRange, Scan, EndScan, Shift, EndShift, InsertOne, EndInsert,
                  PushRanges, Recurse, Finish
    <3>2. pc = "finished" => array' = array
      BY <2>2 DEF Next, vars, TakeRange, Scan, EndScan, Shift, EndShift, InsertOne, EndInsert,
                  PushRanges, Recurse, Finish
    <3> QED BY <2>0, <3>1, <3>2 DEF Sorted!vars
  <2> QED BY <2>1, <2>2
<1> QED BY <1>1, <1>2, AlwaysInv, PTL DEF Spec, ImplementsSorting, Sorted!Spec
=============================================================================
