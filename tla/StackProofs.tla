---------------------------- MODULE StackProofs ----------------------------
(***************************************************************************)
(* The theorems about module Stack, for every finite heap, any set of      *)
(* threads and any values: its type invariant and mutual exclusion, that   *)
(* every element is in exactly one place, that the four thread-safe        *)
(* operations implement a last-in first-out stack, and that the managed    *)
(* pop reads an element when no thread pops more than it pushed.           *)
(* First the links are followed: a list that ends and has no element twice *)
(* is what Follow returns, and how such lists grow, shrink and stay.  Then *)
(* the inductive invariant, one lemma per step.                            *)
(***************************************************************************)
EXTENDS Stack, FiniteSetTheorems, SequenceTheorems, TLAPS

(* A set that holds 0, and with a number below m the next one, holds 0..m: *)
(* the least number missing would follow one that is there.                *)
LEMMA IntervalInduction ==
  ASSUME NEW S, NEW m \in Nat, 0 \in S,
         \A n \in Nat : n < m /\ n \in S => n + 1 \in S
  PROVE  \A n \in 0 .. m : n \in S
<1> SUFFICES ASSUME NEW k \in 0 .. m, k \notin S PROVE FALSE
  OBVIOUS
<1> DEFINE T == {n \in Nat : n <= m /\ n \notin S}
           R == OpToRel(<, Nat)
<1>1. T \subseteq Nat /\ T # {}
  OBVIOUS
<1> HIDE DEF T, R
<1>2. PICK n \in T : \A j \in T : ~ (<<j, n>> \in R)
  BY <1>1, NatLessThanWellFounded, WFMin DEF R
<1>3. n \in Nat /\ n <= m /\ n \notin S /\ n - 1 \in Nat
  BY <1>2 DEF T
<1>4. n - 1 \in T
  <2>1. n - 1 < m /\ (n - 1) + 1 = n
    BY <1>3
  <2> QED BY <1>3, <2>1 DEF T
<1>5. <<n - 1, n>> \in R
  BY <1>3 DEF R, OpToRel
<1> QED BY <1>2, <1>4, <1>5

(* One row of Follow: the lists of at most n elements. *)
Row(nx, g, n) == [p \in Nodes \cup {NULL} |->
                    IF n = 0 \/ p = NULL THEN <<>> ELSE <<p>> \o g[n - 1][nx[p]]]

(* The function that follows the links exists: by induction on the fuel,   *)
(* the rows up to m define it for the row m + 1.                           *)
LEMMA FollowExists ==
  ASSUME NEW nx, NEW N \in Nat
  PROVE  \E g : g = [n \in 0 .. N |-> [p \in Nodes \cup {NULL} |->
           IF n = 0 \/ p = NULL THEN <<>> ELSE <<p>> \o g[n - 1][nx[p]]]]
<1>1. ASSUME NEW n \in Nat, NEW g, NEW h, n = 0 \/ g[n - 1] = h[n - 1]
      PROVE  Row(nx, g, n) = Row(nx, h, n)
  BY <1>1 DEF Row
<1> DEFINE S == {m \in 0 .. N : \E g : \A n \in 0 .. m : g[n] = Row(nx, g, n)}
<1>2. 0 \in S
  <2> DEFINE g == [n \in 0 .. N |-> [p \in Nodes \cup {NULL} |-> <<>>]]
  <2>1. \A n \in 0 .. 0 : g[n] = Row(nx, g, n)
    BY DEF Row
  <2> QED BY <2>1
<1>3. ASSUME NEW m \in Nat, m < N, m \in S PROVE m + 1 \in S
  <2>1. PICK g : \A n \in 0 .. m : g[n] = Row(nx, g, n)
    BY <1>3
  <2> DEFINE h == [n \in 0 .. N |-> IF n = m + 1 THEN Row(nx, g, n) ELSE g[n]]
  <2>2. ASSUME NEW n \in 0 .. m + 1 PROVE h[n] = Row(nx, h, n)
    <3>1. n \in Nat /\ (n = 0 \/ g[n - 1] = h[n - 1])
      BY <1>3
    <3>2. h[n] = Row(nx, g, n)
      BY <2>1, <1>3
    <3> HIDE DEF h
    <3>3. Row(nx, g, n) = Row(nx, h, n)
      BY <3>1, <1>1
    <3> QED BY <3>2, <3>3
  <2>3. m + 1 \in 0 .. N
    BY <1>3
  <2> QED BY <2>2, <2>3
<1> HIDE DEF S
<1>4. N \in S
  BY <1>2, <1>3, IntervalInduction
<1>5. PICK g : \A n \in 0 .. N : g[n] = Row(nx, g, n)
  BY <1>4 DEF S
<1> DEFINE h == [n \in 0 .. N |-> g[n]]
<1>6. ASSUME NEW n \in 0 .. N PROVE h[n] = Row(nx, h, n)
  <2>1. n \in Nat /\ (n = 0 \/ g[n - 1] = h[n - 1])
    OBVIOUS
  <2>2. h[n] = Row(nx, g, n)
    BY <1>5
  <2> HIDE DEF h
  <2> QED BY <2>1, <2>2, <1>1
<1>7. h = [n \in 0 .. N |-> h[n]]
  OBVIOUS
<1> HIDE DEF h
<1>8. h = [n \in 0 .. N |-> Row(nx, h, n)]
  BY <1>6, <1>7, Zenon
<1> QED BY <1>8 DEF Row

(* So Follow is what its definition says, row by row. *)
LEMMA FollowUnfolds ==
  ASSUME NEW nx, Cardinality(Nodes) \in Nat,
         NEW n \in 0 .. Cardinality(Nodes), NEW p \in Nodes \cup {NULL}
  PROVE  Follow(nx)[n][p] =
           IF n = 0 \/ p = NULL THEN <<>> ELSE <<p>> \o Follow(nx)[n - 1][nx[p]]
<1> DEFINE w == Follow(nx)
<1>1. w = [fuel \in 0 .. Cardinality(Nodes) |->
        [q \in Nodes \cup {NULL} |->
           IF fuel = 0 \/ q = NULL THEN <<>> ELSE <<q>> \o w[fuel - 1][nx[q]]]]
  BY FollowExists DEF Follow
<1> HIDE DEF w
<1>2. w[n] = Row(nx, w, n)
  BY <1>1, Zenon DEF Row
<1>3. w[n][p] = IF n = 0 \/ p = NULL THEN <<>> ELSE <<p>> \o w[n - 1][nx[p]]
  BY <1>2, Zenon DEF Row
<1> QED BY <1>3 DEF w

ChainOf(nx, p) == Follow(nx)[Cardinality(Nodes)][p]
ElementsOf(nx, p) == {ChainOf(nx, p)[i] : i \in 1 .. Len(ChainOf(nx, p))}

(* s is the list of the elements from p on: it ends, and no element of it  *)
(* is on it twice.                                                         *)
IsList(nx, s, p) ==
  /\ s \in Seq(Nodes)
  /\ p = IF s = <<>> THEN NULL ELSE s[1]
  /\ \A i \in 1 .. Len(s) : nx[s[i]] = IF i < Len(s) THEN s[i + 1] ELSE NULL
  /\ \A i, j \in 1 .. Len(s) : s[i] = s[j] => i = j

WellLinked(nx, p) == IsList(nx, ChainOf(nx, p), p)

(* The heap is finite. *)
LEMMA HeapSize == Cardinality(Nodes) \in Nat
  BY StackAssumption, FS_CardinalityType

(* A list of distinct elements is not longer than the heap. *)
LEMMA ListLength ==
  ASSUME NEW s \in Seq(Nodes), \A i, j \in 1 .. Len(s) : s[i] = s[j] => i = j
  PROVE  /\ Len(s) <= Cardinality(Nodes)
         /\ Cardinality({s[i] : i \in 1 .. Len(s)}) = Len(s)
<1> DEFINE T == {s[i] : i \in 1 .. Len(s)}
<1>1. Len(s) \in Nat /\ T \subseteq Nodes
  OBVIOUS
<1>2. IsFiniteSet(T) /\ Cardinality(T) <= Cardinality(Nodes)
  BY <1>1, StackAssumption, FS_Subset
<1>3. IsFiniteSet(1 .. Len(s)) /\ Cardinality(1 .. Len(s)) = Len(s)
  <2> DEFINE n == Len(s)
  <2>1. n \in Nat
    BY <1>1
  <2> HIDE DEF n
  <2>2. IsFiniteSet(1 .. n) /\ Cardinality(1 .. n) = IF 1 > n THEN 0 ELSE n - 1 + 1
    BY <2>1, FS_Interval
  <2>3. (IF 1 > n THEN 0 ELSE n - 1 + 1) = n
    BY <2>1
  <2> QED BY <2>2, <2>3 DEF n
<1> DEFINE f == [i \in 1 .. Len(s) |-> s[i]]
<1>4. f \in Bijection(1 .. Len(s), T)
  BY DEF Bijection, Injection, Surjection, IsInjective
<1>5. ExistsBijection(1 .. Len(s), T)
  BY <1>4 DEF ExistsBijection
<1>6. Cardinality(T) = Cardinality(1 .. Len(s))
  BY <1>3, <1>5, FS_Bijection
<1> QED BY <1>1, <1>2, <1>3, <1>6

(* Following the links of a list gives that list: fuel never runs out.     *)
LEMMA ChainIsList ==
  ASSUME NEW nx, NEW s, NEW p, IsList(nx, s, p)
  PROVE  ChainOf(nx, p) = s
<1> DEFINE N == Cardinality(Nodes)
           w == Follow(nx)
           L == Len(s)
           At1(i) == IF i <= L THEN s[i] ELSE NULL
           S == {n \in 0 .. N : \A i \in 1 .. L + 1 :
                   L + 1 - i <= n => w[n][At1(i)] = SubSeq(s, i, L)}
<1>1. s \in Seq(Nodes) /\ L \in Nat /\ N \in Nat /\ L <= N
  <2>1. s \in Seq(Nodes) /\ \A i, j \in 1 .. Len(s) : s[i] = s[j] => i = j
    BY DEF IsList
  <2>2. Len(s) <= Cardinality(Nodes)
    BY <2>1, ListLength
  <2> QED BY <2>1, <2>2, HeapSize
<1>2. \A i \in 1 .. L : s[i] \in Nodes /\ s[i] # NULL /\ nx[s[i]] = At1(i + 1)
  BY <1>1, StackAssumption DEF IsList
<1>3. \A i \in 1 .. L + 1 : At1(i) \in Nodes \cup {NULL} /\ (At1(i) = NULL <=> i = L + 1)
  BY <1>1, <1>2
<1>4. SubSeq(s, L + 1, L) = <<>>
  BY <1>1, SubSeqEmpty
<1>5. \A n \in 0 .. N : \A q \in Nodes \cup {NULL} :
        w[n][q] = IF n = 0 \/ q = NULL THEN <<>> ELSE <<q>> \o w[n - 1][nx[q]]
  BY <1>1, FollowUnfolds
<1> HIDE DEF w
<1>6. 0 \in S
  <2>1. ASSUME NEW i \in 1 .. L + 1, L + 1 - i <= 0 PROVE w[0][At1(i)] = SubSeq(s, i, L)
    <3>1. i = L + 1
      BY <2>1, <1>1
    <3>2. w[0][At1(i)] = <<>>
      <4>1. 0 \in 0 .. N /\ At1(i) \in Nodes \cup {NULL}
        BY <1>1, <1>3
      <4> HIDE DEF At1, N
      <4> QED BY <4>1, <1>5
    <3> QED BY <3>1, <3>2, <1>4
  <2> QED BY <2>1, <1>1
<1>7. ASSUME NEW n \in Nat, n < N, n \in S PROVE n + 1 \in S
  <2>1. ASSUME NEW i \in 1 .. L + 1, L + 1 - i <= n + 1
        PROVE  w[n + 1][At1(i)] = SubSeq(s, i, L)
    <3>1. n + 1 \in 0 .. N /\ (n + 1) - 1 = n /\ n + 1 # 0
      BY <1>1, <1>7
    <3>2. w[n + 1][At1(i)] = IF At1(i) = NULL THEN <<>> ELSE <<At1(i)>> \o w[n][nx[At1(i)]]
      BY <3>1, <1>3, <1>5
    <3>3. CASE i = L + 1
      BY <3>2, <3>3, <1>3, <1>4
    <3>4. CASE i # L + 1
      <4>1. i \in 1 .. L /\ i + 1 \in 1 .. L + 1 /\ L + 1 - (i + 1) <= n /\ L \in i .. L
        BY <2>1, <3>4, <1>1
      <4>2. At1(i) = s[i] /\ At1(i) # NULL /\ nx[At1(i)] = At1(i + 1)
        BY <4>1, <1>2
      <4>3. w[n][At1(i + 1)] = SubSeq(s, i + 1, L)
        BY <4>1, <1>7
      <4>4. SubSeq(s, i, L) = <<s[i]>> \o SubSeq(s, i + 1, L)
        BY <4>1, <1>1, SubSeqRecursiveFirst
      <4> QED BY <4>2, <4>3, <4>4, <3>2
    <3> QED BY <3>3, <3>4
  <2> QED BY <2>1, <1>1, <1>7
<1>8. \A n \in 0 .. N : n \in S
  <2> HIDE DEF S, N
  <2> QED BY <1>1, <1>6, <1>7, IntervalInduction
<1>9. w[N][At1(1)] = SubSeq(s, 1, L)
  <2>1. N \in 0 .. N /\ 1 \in 1 .. L + 1 /\ L + 1 - 1 <= N
    BY <1>1
  <2>2. \A i \in 1 .. L + 1 : L + 1 - i <= N => w[N][At1(i)] = SubSeq(s, i, L)
    BY <2>1, <1>8
  <2> HIDE DEF At1, N, L
  <2> QED BY <2>1, <2>2
<1>10. At1(1) = p
  BY <1>1 DEF IsList
<1>11. SubSeq(s, 1, L) = s
  BY <1>1
<1> QED BY <1>9, <1>10, <1>11 DEF ChainOf, w

(* The list of no element. *)
LEMMA EmptyList ==
  ASSUME NEW nx
  PROVE  WellLinked(nx, NULL) /\ ChainOf(nx, NULL) = <<>> /\ ElementsOf(nx, NULL) = {}
<1>1. IsList(nx, <<>>, NULL)
  BY DEF IsList
<1>2. ChainOf(nx, NULL) = <<>>
  BY <1>1, ChainIsList
<1> QED BY <1>1, <1>2 DEF WellLinked, ElementsOf

(* What is known of a list that ends and has no element twice. *)
LEMMA ListFacts ==
  ASSUME NEW nx, NEW p, WellLinked(nx, p)
  PROVE  /\ p \in Nodes \cup {NULL}
         /\ ChainOf(nx, p) \in Seq(Nodes)
         /\ ElementsOf(nx, p) \subseteq Nodes
         /\ p # NULL => p \in ElementsOf(nx, p)
         /\ p = NULL <=> ChainOf(nx, p) = <<>>
         /\ Len(ChainOf(nx, p)) = Cardinality(ElementsOf(nx, p))
<1> DEFINE s == ChainOf(nx, p)
<1>1. IsList(nx, s, p)
  BY DEF WellLinked
<1>2. Cardinality({s[i] : i \in 1 .. Len(s)}) = Len(s)
  BY <1>1, ListLength DEF IsList
<1>3. ElementsOf(nx, p) = {s[i] : i \in 1 .. Len(s)}
  BY DEF ElementsOf
<1> HIDE DEF s
<1>4. s = <<>> \/ 1 \in 1 .. Len(s)
  BY <1>1 DEF IsList
<1>5. \A i \in 1 .. Len(s) : s[i] \in Nodes
  BY <1>1 DEF IsList
<1>6. /\ p \in Nodes \cup {NULL}
      /\ p # NULL => p \in {s[i] : i \in 1 .. Len(s)}
      /\ p = NULL <=> s = <<>>
  BY <1>1, <1>4, <1>5, StackAssumption DEF IsList
<1>7. s \in Seq(Nodes) /\ {s[i] : i \in 1 .. Len(s)} \subseteq Nodes
  BY <1>1, <1>5 DEF IsList
<1>8. Len(s) = Cardinality(ElementsOf(nx, p))
  BY <1>2, <1>3
<1> QED BY <1>3, <1>6, <1>7, <1>8 DEF s

(* A list does not depend on the links of the elements that are not on it. *)
LEMMA ListFrame ==
  ASSUME NEW nx, NEW p, WellLinked(nx, p), NEW nx2,
         \A e \in ElementsOf(nx, p) : nx2[e] = nx[e]
  PROVE  /\ WellLinked(nx2, p)
         /\ ChainOf(nx2, p) = ChainOf(nx, p)
         /\ ElementsOf(nx2, p) = ElementsOf(nx, p)
<1> DEFINE s == ChainOf(nx, p)
<1>1. IsList(nx, s, p)
  BY DEF WellLinked
<1>2. \A i \in 1 .. Len(s) : nx2[s[i]] = nx[s[i]]
  BY DEF ElementsOf
<1> HIDE DEF s
<1>3. IsList(nx2, s, p)
  BY <1>1, <1>2 DEF IsList
<1>4. ChainOf(nx2, p) = s
  BY <1>3, ChainIsList
<1> QED BY <1>3, <1>4 DEF WellLinked, ElementsOf, s

(* An element linked in front of a list. *)
LEMMA ListCons ==
  ASSUME NEW nx, NEW p, WellLinked(nx, p), NEW e \in Nodes,
         e \notin ElementsOf(nx, p), nx[e] = p
  PROVE  /\ WellLinked(nx, e)
         /\ ChainOf(nx, e) = <<e>> \o ChainOf(nx, p)
         /\ ElementsOf(nx, e) = ElementsOf(nx, p) \cup {e}
<1> DEFINE s == ChainOf(nx, p)
           u == <<e>> \o s
<1>1. IsList(nx, s, p)
  BY DEF WellLinked
<1>2. \A i \in 1 .. Len(s) : s[i] # e
  BY DEF ElementsOf
<1> HIDE DEF s
<1>3. s \in Seq(Nodes) /\ Len(s) \in Nat
  BY <1>1 DEF IsList
<1>4. /\ u \in Seq(Nodes) /\ Len(u) = Len(s) + 1
      /\ u[1] = e /\ \A i \in 1 .. Len(s) : u[i + 1] = s[i]
  BY <1>3
<1> HIDE DEF u
<1>5. \A k \in 1 .. Len(u) : k = 1 \/ (k - 1 \in 1 .. Len(s) /\ u[k] = s[k - 1])
  <2> TAKE k \in 1 .. Len(u)
  <2>1. k = 1 \/ k - 1 \in 1 .. Len(s)
    BY <1>3, <1>4
  <2>2. (k - 1) + 1 = k
    OBVIOUS
  <2> QED BY <2>1, <2>2, <1>4
<1>6. \A k \in 1 .. Len(u) : nx[u[k]] = IF k < Len(u) THEN u[k + 1] ELSE NULL
  <2> TAKE k \in 1 .. Len(u)
  <2>1. CASE k = 1
    <3>1. nx[u[k]] = p
      BY <2>1, <1>4
    <3>2. CASE s = <<>>
      <4>1. ~(k < Len(u))
        BY <3>2, <2>1, <1>4
      <4> QED BY <3>1, <3>2, <4>1, <1>1 DEF IsList
    <3>3. CASE s # <<>>
      <4>1. 1 \in 1 .. Len(s) /\ k < Len(u)
        BY <3>3, <2>1, <1>3, <1>4
      <4>2. u[k + 1] = s[1]
        BY <4>1, <2>1, <1>4
      <4> QED BY <3>1, <3>3, <4>1, <4>2, <1>1 DEF IsList
    <3> QED BY <3>2, <3>3
  <2>2. CASE k # 1
    <3> DEFINE i == k - 1
    <3>1. i \in 1 .. Len(s) /\ u[k] = s[i] /\ i + 1 = k
      BY <2>2, <1>5
    <3>2. nx[s[i]] = IF i < Len(s) THEN s[i + 1] ELSE NULL
      BY <3>1, <1>1 DEF IsList
    <3>3. k < Len(u) <=> i < Len(s)
      BY <1>3, <1>4
    <3>4. i < Len(s) => u[k + 1] = s[i + 1]
      <4>1. i < Len(s) => i + 1 \in 1 .. Len(s)
        BY <3>1, <1>3
      <4> QED BY <4>1, <3>1, <1>4
    <3> HIDE DEF i
    <3> QED BY <3>1, <3>2, <3>3, <3>4
  <2> QED BY <2>1, <2>2
<1>7. \A k, l \in 1 .. Len(u) : u[k] = u[l] => k = l
  <2> TAKE k, l \in 1 .. Len(u)
  <2> HAVE u[k] = u[l]
  <2>1. k = 1 <=> l = 1
    BY <1>2, <1>4, <1>5
  <2>2. k # 1 /\ l # 1 => k - 1 = l - 1
    BY <1>5, <1>1 DEF IsList
  <2> QED BY <2>1, <2>2
<1>8. e = IF u = <<>> THEN NULL ELSE u[1]
  BY <1>3, <1>4
<1>9. IsList(nx, u, e)
  BY <1>4, <1>6, <1>7, <1>8 DEF IsList
<1>10. ChainOf(nx, e) = u
  BY <1>9, ChainIsList
<1>11. {u[k] : k \in 1 .. Len(u)} = {s[i] : i \in 1 .. Len(s)} \cup {e}
  <2>1. \A k \in 1 .. Len(u) : u[k] \in {s[i] : i \in 1 .. Len(s)} \cup {e}
    BY <1>4, <1>5
  <2>2. \A i \in 1 .. Len(s) : i + 1 \in 1 .. Len(u) /\ u[i + 1] = s[i]
    BY <1>3, <1>4
  <2>3. 1 \in 1 .. Len(u)
    BY <1>3, <1>4
  <2> QED BY SMTT(60), <2>1, <2>2, <2>3, <1>4
<1> QED BY <1>9, <1>10, <1>11 DEF WellLinked, ElementsOf, s, u

(* The first element and the rest of a list. *)
LEMMA ListUncons ==
  ASSUME NEW nx, NEW p, WellLinked(nx, p), p # NULL
  PROVE  /\ p \in Nodes
         /\ WellLinked(nx, nx[p])
         /\ p \notin ElementsOf(nx, nx[p])
         /\ ChainOf(nx, p) = <<p>> \o ChainOf(nx, nx[p])
         /\ ElementsOf(nx, p) = ElementsOf(nx, nx[p]) \cup {p}
<1> DEFINE s == ChainOf(nx, p)
           u == Tail(s)
<1>1. IsList(nx, s, p)
  BY DEF WellLinked
<1> HIDE DEF s
<1>2. s \in Seq(Nodes) /\ Len(s) \in Nat /\ s # <<>> /\ p = s[1] /\ Len(s) >= 1
  BY <1>1 DEF IsList
<1>3. /\ u \in Seq(Nodes) /\ Len(u) = Len(s) - 1
      /\ \A i \in 1 .. Len(u) : u[i] = s[i + 1]
  BY <1>2
<1> HIDE DEF u
<1>4. p \in Nodes /\ nx[p] = IF u = <<>> THEN NULL ELSE u[1]
  <2>1. nx[s[1]] = IF 1 < Len(s) THEN s[2] ELSE NULL
    BY <1>1, <1>2 DEF IsList
  <2>2. u = <<>> <=> ~(1 < Len(s))
    BY <1>2, <1>3
  <2>3. 1 < Len(s) => u[1] = s[2]
    BY <1>2, <1>3
  <2>4. s[1] \in Nodes
    BY <1>2
  <2> QED BY <2>1, <2>2, <2>3, <2>4, <1>2
<1>5. \A i \in 1 .. Len(u) : i + 1 \in 1 .. Len(s)
  BY <1>2, <1>3
<1>6. \A i \in 1 .. Len(u) : nx[u[i]] = IF i < Len(u) THEN u[i + 1] ELSE NULL
  <2> TAKE i \in 1 .. Len(u)
  <2>1. nx[s[i + 1]] = IF i + 1 < Len(s) THEN s[(i + 1) + 1] ELSE NULL
    BY <1>1, <1>5 DEF IsList
  <2>2. i + 1 < Len(s) <=> i < Len(u)
    BY <1>2, <1>3
  <2>3. i < Len(u) => u[i + 1] = s[(i + 1) + 1]
    BY <1>2, <1>3
  <2> QED BY <2>1, <2>2, <2>3, <1>3
<1>7. \A i, j \in 1 .. Len(u) : u[i] = u[j] => i = j
  <2> TAKE i, j \in 1 .. Len(u)
  <2>1. s[i + 1] = s[j + 1] => i + 1 = j + 1
    BY <1>1, <1>5 DEF IsList
  <2> QED BY <2>1, <1>3
<1>8. IsList(nx, u, nx[p])
  BY <1>3, <1>4, <1>6, <1>7 DEF IsList
<1>9. ChainOf(nx, nx[p]) = u
  BY <1>8, ChainIsList
<1>10. WellLinked(nx, nx[p]) /\ ElementsOf(nx, nx[p]) = {u[i] : i \in 1 .. Len(u)}
  BY <1>8, <1>9 DEF WellLinked, ElementsOf
<1>11. p \notin ElementsOf(nx, nx[p])
  <2>1. \A i \in 1 .. Len(u) : s[i + 1] # s[1]
    <3> TAKE i \in 1 .. Len(u)
    <3>1. 1 \in 1 .. Len(s) /\ i + 1 # 1
      BY <1>2
    <3> QED BY <3>1, <1>1, <1>5 DEF IsList
  <2> QED BY <2>1, <1>2, <1>3, <1>10
<1>12. ChainOf(nx, p) = <<p>> \o ChainOf(nx, nx[p]) /\ ElementsOf(nx, p) = ElementsOf(nx, nx[p]) \cup {p}
  BY <1>4, <1>10, <1>11, ListCons DEF s
<1> QED BY <1>4, <1>10, <1>11, <1>12

-----------------------------------------------------------------------------
PcType == InLock \cup {"idle", "prepare", "lock", "read", "recycle", "crashed"}
ThreadType == [pc: PcType, op: PushOps \cup PopOps \cup {"none"},
               elem: Nodes \cup {NULL}, val: Value \cup {None}]

(* The types, but for what says that top and the pools are allocated; and  *)
(* mutual exclusion: the thread between Lock and Unlock holds the mutex.   *)
Types ==
  /\ top \in Nodes \cup {NULL}
  /\ next \in [Nodes -> Nodes \cup {NULL}]
  /\ buffer \in [Nodes -> Value]
  /\ allocated \subseteq Nodes
  /\ lock \in Threads \cup {None}
  /\ pool \in [Threads -> Nodes \cup {NULL}]
  /\ thread \in [Threads -> ThreadType]
  /\ client \in Clients
  /\ balance \in [Threads -> Nat]
  /\ \A t \in Threads : (thread[t].pc \in InLock) <=> (lock = t)

(* What a thread knows at each point of its operation. *)
Local(t) ==
  LET th == thread[t]
  IN /\ th.pc # "idle" => th.op \in OpsOf(client)
     /\ th.pc = "prepare" => th.op = "push_safe_managed"
     /\ th.pc = "alloc" => th.op = "push_safe"
     /\ th.pc \in {"link", "publish"} => th.op \in PushOps
     /\ th.pc = "peek" => th.op = "pop_safe"
     /\ th.pc \in {"take", "advance", "detach"} => th.op \in PopOps
     /\ th.pc \in {"read", "recycle", "crashed"} => th.op = "pop_safe_managed"
     /\ th.pc # "idle" /\ th.op \in PushOps => th.val \in Value
     /\ th.pc = "lock" /\ th.op = "push_safe" => th.elem = NULL
     /\ th.pc \in {"lock", "peek", "take"} /\ th.op \in PopOps => th.elem = NULL
     /\ th.pc \in {"lock", "peek"} /\ th.op = "pop_safe" => th.val = None
     /\ (th.pc = "lock" /\ th.op = "push_safe_managed") \/ th.pc \in {"link", "publish"} =>
          th.elem # NULL /\ buffer[th.elem] = th.val
     /\ th.pc = "publish" => next[th.elem] = top
     /\ th.pc = "take" /\ th.op = "pop_safe" => top # NULL /\ th.val = buffer[top]
     /\ th.pc = "advance" =>
          /\ top # NULL /\ th.elem = top
          /\ th.op = "pop_safe" => th.val = buffer[top]
     /\ th.pc \in {"detach", "recycle"} => th.elem # NULL

(* The elements in one place, for any function H from the places. *)
Partition(H, elements) ==
  /\ \A place \in Places : H[place] \subseteq elements
  /\ \A e \in elements : \E place \in Places : e \in H[place]
  /\ \A p1, p2 \in Places : \A e \in H[p1] : e \in H[p2] => p1 = p2

HeldNow == [place \in Places |-> Held(place)]

Lists ==
  /\ WellLinked(next, top)
  /\ \A t \in Threads : WellLinked(next, pool[t])

Inv ==
  /\ Types
  /\ \A t \in Threads : Local(t)
  /\ Lists
  /\ Partition(HeldNow, allocated)

(* What Goto, GotoWith and the calls do to the threads. *)
Moved(t, pc, op, elem, val) ==
  /\ thread' \in [Threads -> ThreadType]
  /\ thread'[t] = [pc |-> pc, op |-> op, elem |-> elem, val |-> val]
  /\ \A u \in Threads : u # t => thread'[u] = thread[u]

(* The fields of a thread, one by one. *)
LEMMA ThreadFields ==
  ASSUME Types, NEW t \in Threads
  PROVE  /\ thread[t].pc \in PcType /\ thread[t].op \in PushOps \cup PopOps \cup {"none"}
         /\ thread[t].elem \in Nodes \cup {NULL} /\ thread[t].val \in Value \cup {None}
         /\ thread[t] = [pc |-> thread[t].pc, op |-> thread[t].op,
                         elem |-> thread[t].elem, val |-> thread[t].val]
<1>1. thread[t] \in ThreadType
  BY DEF Types
<1> QED BY <1>1 DEF ThreadType

(* A thread is replaced as a whole, as by a call. *)
LEMMA MovedTo ==
  ASSUME Types, NEW t \in Threads, NEW pc \in PcType,
         NEW op \in PushOps \cup PopOps \cup {"none"},
         NEW elem \in Nodes \cup {NULL}, NEW val \in Value \cup {None},
         thread' = [thread EXCEPT ![t] = [pc |-> pc, op |-> op, elem |-> elem, val |-> val]]
  PROVE  Moved(t, pc, op, elem, val)
<1>1. [pc |-> pc, op |-> op, elem |-> elem, val |-> val] \in ThreadType
  BY DEF ThreadType
<1>2. thread \in [Threads -> ThreadType]
  BY DEF Types
<1> HIDE DEF ThreadType
<1> QED BY <1>1, <1>2 DEF Moved

(* A thread goes on with what it has at hand. *)
LEMMA GotoMoves ==
  ASSUME Types, NEW t \in Threads, NEW pc \in PcType, Goto(t, pc)
  PROVE  Moved(t, pc, thread[t].op, thread[t].elem, thread[t].val)
<1>1. thread[t] = [pc |-> thread[t].pc, op |-> thread[t].op,
                   elem |-> thread[t].elem, val |-> thread[t].val]
  BY ThreadFields
<1>2. [thread[t] EXCEPT !.pc = pc] = [pc |-> pc, op |-> thread[t].op,
                                      elem |-> thread[t].elem, val |-> thread[t].val]
  BY <1>1
<1>3. thread' = [thread EXCEPT ![t] = [pc |-> pc, op |-> thread[t].op,
                                       elem |-> thread[t].elem, val |-> thread[t].val]]
  BY <1>2 DEF Goto
<1> QED BY <1>3, ThreadFields, MovedTo

(* A thread goes on with another element and value at hand. *)
LEMMA GotoWithMoves ==
  ASSUME Types, NEW t \in Threads, NEW pc \in PcType,
         NEW elem \in Nodes \cup {NULL}, NEW val \in Value \cup {None},
         GotoWith(t, pc, elem, val)
  PROVE  Moved(t, pc, thread[t].op, elem, val)
<1>1. thread \in [Threads -> ThreadType]
  BY DEF Types
<1>2. thread[t] = [pc |-> thread[t].pc, op |-> thread[t].op,
                   elem |-> thread[t].elem, val |-> thread[t].val]
  BY ThreadFields
<1>3. thread' = [thread EXCEPT ![t] = [pc |-> pc, op |-> thread[t].op,
                                       elem |-> elem, val |-> val]]
  <2>1. thread'[t] = [pc |-> pc, op |-> thread[t].op, elem |-> elem, val |-> val]
    BY <1>1, <1>2 DEF GotoWith
  <2>2. \A u \in Threads : u # t => thread'[u] = thread[u]
    BY <1>1 DEF GotoWith
  <2>3. thread' = [u \in Threads |-> thread'[u]]
    BY <1>1 DEF GotoWith
  <2> QED BY <1>1, <2>1, <2>2, <2>3
<1> QED BY <1>3, ThreadFields, MovedTo

(* The types after a step, given what the step does to the mutex. *)
LEMMA TypesKept ==
  ASSUME Types, NEW t \in Threads,
         NEW pc, NEW op, NEW elem, NEW val, Moved(t, pc, op, elem, val),
         top' \in Nodes \cup {NULL}, next' \in [Nodes -> Nodes \cup {NULL}],
         buffer' \in [Nodes -> Value], allocated' \subseteq Nodes,
         pool' \in [Threads -> Nodes \cup {NULL}],
         client' = client, balance' \in [Threads -> Nat],
         \/ lock' = lock /\ (pc \in InLock <=> thread[t].pc \in InLock)
         \/ lock = None /\ lock' = t /\ pc \in InLock
         \/ lock = t /\ lock' = None /\ pc \notin InLock
  PROVE  Types'
<1>1. \A u \in Threads : (thread'[u].pc \in InLock) <=> (lock' = u)
  <2>1. thread'[t].pc = pc
    BY DEF Moved
  <2>2. \A u \in Threads : (thread[u].pc \in InLock) <=> (lock = u)
    BY DEF Types
  <2> QED BY <2>1, <2>2, StackAssumption DEF Moved
<1>2. lock' \in Threads \cup {None}
  BY DEF Types
<1>3. thread' \in [Threads -> ThreadType] /\ client' \in Clients
  BY DEF Types, Moved
<1> QED BY <1>1, <1>2, <1>3 DEF Types

(* What another thread knows does not change, if its element does not and, *)
(* while it holds the mutex, neither does the top of the stack.            *)
LEMMA LocalKept ==
  ASSUME Types, NEW t \in Threads, NEW u \in Threads, u # t, Local(u),
         thread'[u] = thread[u], client' = client,
         \A e \in PrivateElem(u) : buffer'[e] = buffer[e] /\ next'[e] = next[e],
         lock = t \/ (top' = top /\ (top # NULL => buffer'[top] = buffer[top]))
  PROVE  Local(u)'
<1>1. lock = t => thread[u].pc \notin InLock
  BY DEF Types
<1>2. ASSUME thread[u].op \in PushOps, thread[u].pc \in {"lock", "link", "publish"},
             thread[u].elem # NULL
      PROVE  buffer'[thread[u].elem] = buffer[thread[u].elem] /\ next'[thread[u].elem] = next[thread[u].elem]
  <2>1. thread[u].elem \in PrivateElem(u)
    BY <1>2 DEF PrivateElem, Private
  <2> QED BY <2>1
<1> QED BY ZenonT(60), <1>1, <1>2 DEF Local, OpsOf, InLock, PushOps, PopOps

-----------------------------------------------------------------------------
(* An element moves to place to, or out of all places: no place shares it. *)
MovesTo(H, al, H2, al2, e, to) ==
  /\ \A place \in Places : \A x :
       x \in H2[place] <=> (x = e /\ place = to) \/ (x # e /\ x \in H[place])
  /\ \A x : x \in al2 <=> (x = e /\ to \in Places) \/ (x # e /\ x \in al)

(* Moving one element keeps every element in exactly one place. *)
LEMMA PartitionMoves ==
  ASSUME NEW H, NEW al, NEW H2, NEW al2, NEW e, NEW to,
         Partition(H, al), MovesTo(H, al, H2, al2, e, to)
  PROVE  Partition(H2, al2)
<1>1. \A place \in Places : \A x :
        x \in H2[place] <=> (x = e /\ place = to) \/ (x # e /\ x \in H[place])
  BY DEF MovesTo
<1>2. \A x : x \in al2 <=> (x = e /\ to \in Places) \/ (x # e /\ x \in al)
  BY DEF MovesTo
<1>3. \A place \in Places : H2[place] \subseteq al2
  BY <1>1, <1>2 DEF Partition
<1>4. ASSUME NEW x \in al2 PROVE \E place \in Places : x \in H2[place]
  <2>1. CASE x = e
    BY <2>1, <1>1, <1>2
  <2>2. CASE x # e
    <3>1. PICK place \in Places : x \in H[place]
      BY <2>2, <1>2 DEF Partition
    <3> QED BY <3>1, <2>2, <1>1
  <2> QED BY <2>1, <2>2
<1>5. ASSUME NEW p1 \in Places, NEW p2 \in Places, NEW x \in H2[p1], x \in H2[p2]
      PROVE  p1 = p2
  BY <1>1, <1>5 DEF Partition
<1> QED BY <1>3, <1>4, <1>5 DEF Partition

PoolOf(t) == <<"pool", t>>
HandsOf(t) == <<"thread", t>>
OnStack == <<"stack", NULL>>
InHeap == <<"heap", NULL>>

(* The places, what they hold, and that they are all different. *)
LEMMA PlaceFacts ==
  /\ Places = {OnStack} \cup {PoolOf(t) : t \in Threads} \cup {HandsOf(t) : t \in Threads}
  /\ InHeap \notin Places
  /\ Held(OnStack) = ElementsOf(next, top)
  /\ \A t : Held(PoolOf(t)) = ElementsOf(next, pool[t])
  /\ \A t : Held(HandsOf(t)) = PrivateElem(t)
  /\ Held(OnStack)' = ElementsOf(next', top')
  /\ \A t : Held(PoolOf(t))' = ElementsOf(next', pool'[t])
  /\ \A t : Held(HandsOf(t))' = PrivateElem(t)'
  /\ \A t, u : /\ PoolOf(t) # OnStack /\ HandsOf(t) # OnStack /\ PoolOf(t) # HandsOf(u)
               /\ PoolOf(t) = PoolOf(u) <=> t = u
               /\ HandsOf(t) = HandsOf(u) <=> t = u
<1> USE DEF OnStack, PoolOf, HandsOf, InHeap
<1>1. Places = {OnStack} \cup {PoolOf(t) : t \in Threads} \cup {HandsOf(t) : t \in Threads}
  BY DEF Places
<1>2. /\ \A p : Elements(p) = ElementsOf(next, p)
      /\ Elements(top)' = ElementsOf(next', top')
      /\ \A t : Elements(pool[t])' = ElementsOf(next', pool'[t])
  BY DEF Elements, ElementsOf, Chain, ChainOf
<1>3. /\ Held(OnStack) = Elements(top) /\ Held(OnStack)' = Elements(top)'
      /\ \A t : Held(PoolOf(t)) = Elements(pool[t]) /\ Held(PoolOf(t))' = Elements(pool[t])'
      /\ \A t : Held(HandsOf(t)) = PrivateElem(t) /\ Held(HandsOf(t))' = PrivateElem(t)'
  BY DEF Held
<1>4. InHeap \notin Places
  BY DEF Places
<1> QED BY <1>1, <1>2, <1>3, <1>4

(* Where the elements are, spelled out. *)
LEMMA Apart ==
  ASSUME Partition(HeldNow, allocated)
  PROVE  /\ ElementsOf(next, top) \subseteq allocated
         /\ \A t \in Threads : /\ ElementsOf(next, pool[t]) \subseteq allocated
                               /\ PrivateElem(t) \subseteq allocated
                               /\ ElementsOf(next, top) \cap ElementsOf(next, pool[t]) = {}
                               /\ ElementsOf(next, top) \cap PrivateElem(t) = {}
         /\ \A t, u \in Threads :
              /\ ElementsOf(next, pool[t]) \cap PrivateElem(u) = {}
              /\ t # u => ElementsOf(next, pool[t]) \cap ElementsOf(next, pool[u]) = {}
              /\ t # u => PrivateElem(t) \cap PrivateElem(u) = {}
<1>1. /\ OnStack \in Places /\ HeldNow[OnStack] = ElementsOf(next, top)
      /\ \A t \in Threads : /\ PoolOf(t) \in Places /\ HeldNow[PoolOf(t)] = ElementsOf(next, pool[t])
                            /\ HandsOf(t) \in Places /\ HeldNow[HandsOf(t)] = PrivateElem(t)
  BY PlaceFacts DEF HeldNow
<1>2. /\ \A place \in Places : HeldNow[place] \subseteq allocated
      /\ \A p1, p2 \in Places : p1 # p2 => HeldNow[p1] \cap HeldNow[p2] = {}
  BY DEF Partition
<1> HIDE DEF HeldNow
<1>3. ASSUME NEW t \in Threads
      PROVE  /\ ElementsOf(next, pool[t]) \subseteq allocated
             /\ PrivateElem(t) \subseteq allocated
             /\ ElementsOf(next, top) \cap ElementsOf(next, pool[t]) = {}
             /\ ElementsOf(next, top) \cap PrivateElem(t) = {}
  <2>1. PoolOf(t) # OnStack /\ HandsOf(t) # OnStack
    BY PlaceFacts
  <2> QED BY <1>1, <1>2, <2>1
<1>4. ASSUME NEW t \in Threads, NEW u \in Threads
      PROVE  /\ ElementsOf(next, pool[t]) \cap PrivateElem(u) = {}
             /\ t # u => ElementsOf(next, pool[t]) \cap ElementsOf(next, pool[u]) = {}
             /\ t # u => PrivateElem(t) \cap PrivateElem(u) = {}
  <2>1. /\ PoolOf(t) # HandsOf(u)
        /\ t # u => PoolOf(t) # PoolOf(u) /\ HandsOf(t) # HandsOf(u)
    BY PlaceFacts
  <2> QED BY <1>1, <1>2, <2>1
<1> QED BY <1>1, <1>2, <1>3, <1>4

With(S, e, in) == IF in THEN S \cup {e} ELSE S \ {e}

(* A step moves element e to place to, and nothing else. *)
LEMMA PlacesMove ==
  ASSUME Partition(HeldNow, allocated), NEW e, NEW to,
         ElementsOf(next', top') = With(ElementsOf(next, top), e, to = OnStack),
         \A u \in Threads : ElementsOf(next', pool'[u]) = With(ElementsOf(next, pool[u]), e, to = PoolOf(u)),
         \A u \in Threads : PrivateElem(u)' = With(PrivateElem(u), e, to = HandsOf(u)),
         allocated' = With(allocated, e, to \in Places)
  PROVE  Partition(HeldNow, allocated)'
<1> DEFINE H2 == [place \in Places |-> Held(place)']
<1>1. ASSUME NEW place \in Places
      PROVE  H2[place] = IF place = to THEN HeldNow[place] \cup {e} ELSE HeldNow[place] \ {e}
  <2>1. HeldNow[place] = Held(place) /\ H2[place] = Held(place)'
    BY DEF HeldNow
  <2> HIDE DEF H2
  <2>2. CASE place = OnStack
    BY <2>1, <2>2, PlaceFacts DEF With
  <2>3. ASSUME NEW u \in Threads, place = PoolOf(u)
        PROVE  H2[place] = IF place = to THEN HeldNow[place] \cup {e} ELSE HeldNow[place] \ {e}
    <3>1. /\ Held(PoolOf(u)) = ElementsOf(next, pool[u])
          /\ Held(PoolOf(u))' = ElementsOf(next', pool'[u])
      BY PlaceFacts
    <3>2. ElementsOf(next', pool'[u]) = With(ElementsOf(next, pool[u]), e, to = PoolOf(u))
      OBVIOUS
    <3> QED BY <2>1, <2>3, <3>1, <3>2 DEF With
  <2>4. ASSUME NEW u \in Threads, place = HandsOf(u)
        PROVE  H2[place] = IF place = to THEN HeldNow[place] \cup {e} ELSE HeldNow[place] \ {e}
    BY <2>1, <2>4, PlaceFacts DEF With
  <2> QED BY <2>2, <2>3, <2>4, PlaceFacts
<1>2. H2 = HeldNow'
  BY DEF HeldNow, Places
<1> HIDE DEF H2
<1>3. Partition(H2, allocated')
  <2>1. allocated' = IF to \in Places THEN allocated \cup {e} ELSE allocated \ {e}
    BY DEF With
  <2>2. \A place \in Places : \A x :
          x \in H2[place] <=> (x = e /\ place = to) \/ (x # e /\ x \in HeldNow[place])
    BY <1>1
  <2>5. \A x : x \in allocated' <=> (x = e /\ to \in Places) \/ (x # e /\ x \in allocated)
    BY <2>1
  <2>3. MovesTo(HeldNow, allocated, H2, allocated', e, to)
    BY <2>2, <2>5 DEF MovesTo
  <2> QED BY <2>3, PartitionMoves
<1> QED BY <1>2, <1>3 DEF Partition, Places

(* A step moves no element. *)
LEMMA PlacesKept ==
  ASSUME Partition(HeldNow, allocated),
         ElementsOf(next', top') = ElementsOf(next, top),
         \A u \in Threads : ElementsOf(next', pool'[u]) = ElementsOf(next, pool[u]),
         \A u \in Threads : PrivateElem(u)' = PrivateElem(u),
         allocated' = allocated
  PROVE  Partition(HeldNow, allocated)'
<1>1. ASSUME NEW place \in Places PROVE Held(place)' = Held(place)
  <2>1. CASE place = OnStack
    BY <2>1, PlaceFacts
  <2>2. ASSUME NEW u \in Threads, place = PoolOf(u) PROVE Held(place)' = Held(place)
    <3>1. /\ Held(PoolOf(u)) = ElementsOf(next, pool[u])
          /\ Held(PoolOf(u))' = ElementsOf(next', pool'[u])
      BY PlaceFacts
    <3>2. ElementsOf(next', pool'[u]) = ElementsOf(next, pool[u])
      OBVIOUS
    <3> QED BY <2>2, <3>1, <3>2
  <2>3. ASSUME NEW u \in Threads, place = HandsOf(u) PROVE Held(place)' = Held(place)
    BY <2>3, PlaceFacts
  <2> QED BY <2>1, <2>2, <2>3, PlaceFacts
<1>2. HeldNow' = HeldNow
  BY <1>1 DEF HeldNow, Places
<1> QED BY <1>2 DEF Partition, Places

(* The elements on the stack, in order, and their values stay. *)
StackKept ==
  /\ ChainOf(next', top') = ChainOf(next, top)
  /\ \A e \in ElementsOf(next, top) : buffer'[e] = buffer[e]

(* What a thread has in its hands does not depend on the other threads. *)
LEMMA PrivateKept ==
  ASSUME NEW u, thread'[u] = thread[u]
  PROVE  PrivateElem(u)' = PrivateElem(u)
  BY DEF PrivateElem, Private

(* The steps that change no list, no element and no other thread. *)
LEMMA QuietStep ==
  ASSUME Inv, NEW t \in Threads, NEW pc, NEW op, NEW elem, NEW val,
         Moved(t, pc, op, elem, val), client' = client,
         top' = top, next' = next, buffer' = buffer, pool' = pool, allocated' = allocated,
         PrivateElem(t)' = PrivateElem(t), Types', Local(t)'
  PROVE  Inv' /\ StackKept
<1>1. \A u \in Threads : u # t => thread'[u] = thread[u]
  BY DEF Moved
<1>2. \A u \in Threads : Local(u)'
  <2> TAKE u \in Threads
  <2>1. CASE u = t
    BY <2>1
  <2>2. CASE u # t
    BY <2>2, <1>1, LocalKept DEF Inv
  <2> QED BY <2>1, <2>2
<1>3. \A u \in Threads : PrivateElem(u)' = PrivateElem(u)
  BY <1>1, PrivateKept
<1>4. Partition(HeldNow, allocated)'
  BY <1>3, PlacesKept DEF Inv
<1>5. Lists' /\ StackKept
  BY DEF Inv, Lists, StackKept
<1> QED BY <1>2, <1>4, <1>5 DEF Inv

(* Links are changed in one element, and no list has it. *)
LEMMA ListsFramed ==
  ASSUME Lists, NEW e,
         e \notin ElementsOf(next, top),
         \A u \in Threads : e \notin ElementsOf(next, pool[u]),
         \A n \in Nodes : n # e => next'[n] = next[n]
  PROVE  /\ WellLinked(next', top)
         /\ ChainOf(next', top) = ChainOf(next, top)
         /\ ElementsOf(next', top) = ElementsOf(next, top)
         /\ \A u \in Threads : /\ WellLinked(next', pool[u])
                               /\ ElementsOf(next', pool[u]) = ElementsOf(next, pool[u])
<1>1. ASSUME NEW p, WellLinked(next, p), e \notin ElementsOf(next, p)
      PROVE  /\ WellLinked(next', p)
             /\ ChainOf(next', p) = ChainOf(next, p)
             /\ ElementsOf(next', p) = ElementsOf(next, p)
  <2>1. \A n \in ElementsOf(next, p) : next'[n] = next[n]
    BY <1>1, ListFacts
  <2> QED BY <1>1, <2>1, ListFrame
<1> QED BY <1>1 DEF Lists

-----------------------------------------------------------------------------
(* The steps, one by one.                                                  *)
LEMMA OpsAre ==
  ASSUME Types
  PROVE  OpsOf(client) \subseteq PushOps \cup PopOps
<1>1. client \in {"safe", "managed", "reckless"}
  BY StackAssumption DEF Types
<1> QED BY <1>1 DEF OpsOf, PushOps, PopOps

(* Calling push_safe or push_safe_managed. *)
LEMMA CallPushStep ==
  ASSUME Inv, NEW t \in Threads, NEW op \in OpsOf(client), NEW v \in Value, CallPush(t, op, v)
  PROVE  Inv' /\ StackKept
<1> DEFINE pc == IF op = "push_safe_managed" THEN "prepare" ELSE "lock"
<1>1. Types /\ op \in PushOps /\ thread[t].pc = "idle"
  BY DEF Inv, CallPush, At
<1>2. Moved(t, pc, op, NULL, v)
  <2>1. pc \in PcType
    BY DEF PcType
  <2>2. thread' = [thread EXCEPT ![t] = [pc |-> pc, op |-> op, elem |-> NULL, val |-> v]]
    BY DEF CallPush
  <2> HIDE DEF pc
  <2> QED BY <1>1, <2>1, <2>2, MovedTo
<1>3. Types'
  <2>1. balance' \in [Threads -> Nat]
    BY <1>1 DEF Types, CallPush
  <2>2. pc \notin InLock /\ thread[t].pc \notin InLock
    BY <1>1 DEF InLock
  <2> QED BY <1>1, <1>2, <2>1, <2>2, TypesKept DEF Types, CallPush
<1>4. Local(t)'
  BY <1>1, <1>2 DEF Moved, Local, PushOps, PopOps, CallPush
<1>5. PrivateElem(t)' = PrivateElem(t)
  BY <1>1, <1>2 DEF Moved, PrivateElem, Private
<1> QED BY <1>2, <1>3, <1>4, <1>5, QuietStep DEF CallPush

(* Calling pop_safe or pop_safe_managed. *)
LEMMA CallPopStep ==
  ASSUME Inv, NEW t \in Threads, NEW op \in OpsOf(client), CallPop(t, op)
  PROVE  Inv' /\ StackKept
<1>1. Types /\ op \in PopOps /\ thread[t].pc = "idle"
  BY DEF Inv, CallPop, At
<1>2. Moved(t, "lock", op, NULL, None)
  <2>1. "lock" \in PcType
    BY DEF PcType
  <2>2. thread' = [thread EXCEPT ![t] = [pc |-> "lock", op |-> op, elem |-> NULL, val |-> None]]
    BY DEF CallPop
  <2> QED BY <1>1, <2>1, <2>2, MovedTo
<1>3. Types'
  <2>1. balance' \in [Threads -> Nat]
    BY <1>1 DEF Types, CallPop
  <2>2. "lock" \notin InLock /\ thread[t].pc \notin InLock
    BY <1>1 DEF InLock
  <2> QED BY <1>1, <1>2, <2>1, <2>2, TypesKept DEF Types, CallPop
<1>4. Local(t)'
  BY <1>1, <1>2 DEF Moved, Local, PushOps, PopOps, CallPop
<1>5. PrivateElem(t)' = PrivateElem(t)
  BY <1>1, <1>2 DEF Moved, PrivateElem, Private, PushOps, PopOps
<1> QED BY <1>2, <1>3, <1>4, <1>5, QuietStep DEF CallPop

(* pthread_mutex_lock, at the start of every operation. *)
LEMMA LockStep ==
  ASSUME Inv, NEW t \in Threads, Lock(t)
  PROVE  Inv' /\ StackKept
<1> DEFINE pc == FirstLocked(thread[t].op)
<1>1. /\ Types /\ Local(t) /\ thread[t].pc = "lock" /\ thread[t].op \in PushOps \cup PopOps
      /\ lock = None /\ lock' = t
  BY OpsAre DEF Inv, Lock, At, Local
<1>2. pc \in {"alloc", "link", "peek", "take"}
  BY <1>1 DEF FirstLocked, PushOps, PopOps
<1>3. Moved(t, pc, thread[t].op, thread[t].elem, thread[t].val)
  <2>1. pc \in PcType
    BY <1>2 DEF PcType, InLock
  <2>2. Goto(t, pc)
    BY DEF Lock
  <2> HIDE DEF pc
  <2> QED BY <1>1, <2>1, <2>2, GotoMoves
<1>4. Types'
  <2>1. pc \in InLock
    BY <1>2 DEF InLock
  <2> HIDE DEF pc
  <2> QED BY <1>1, <1>3, <2>1, TypesKept DEF Types, Lock
<1>5. Local(t)'
  BY <1>1, <1>3 DEF Moved, Local, PushOps, PopOps, Lock, FirstLocked
<1>6. PrivateElem(t)' = PrivateElem(t)
  BY <1>1, <1>3 DEF Moved, PrivateElem, Private, PushOps, PopOps, FirstLocked, Local
<1> QED BY <1>3, <1>4, <1>5, <1>6, QuietStep DEF Lock

(* pelib_stack_peek of pop_safe. *)
LEMMA PeekStep ==
  ASSUME Inv, NEW t \in Threads, Peek(t)
  PROVE  Inv' /\ StackKept
<1>1. /\ Types /\ Local(t) /\ thread[t].pc = "peek" /\ thread[t].op = "pop_safe"
      /\ thread[t].elem = NULL
  BY DEF Inv, Peek, At, Local, PopOps
<1>2. /\ \/ top = NULL /\ Moved(t, "unlock", thread[t].op, thread[t].elem, thread[t].val)
         \/ top # NULL /\ Moved(t, "take", thread[t].op, NULL, buffer[top])
  <2>1. "unlock" \in PcType /\ "take" \in PcType
    BY DEF PcType, InLock
  <2>2. CASE top = NULL /\ Goto(t, "unlock")
    BY <1>1, <2>1, <2>2, GotoMoves
  <2>3. CASE top # NULL /\ GotoWith(t, "take", NULL, buffer[top])
    <3>1. buffer[top] \in Value \cup {None}
      BY <1>1, <2>3 DEF Types
    <3> QED BY <1>1, <2>1, <2>3, <3>1, GotoWithMoves
  <2> QED BY <2>2, <2>3 DEF Peek
<1>3. PICK pc, elem, val : Moved(t, pc, thread[t].op, elem, val) /\ pc \in {"unlock", "take"}
  BY <1>2
<1>4. Types'
  <2>1. pc \in InLock /\ thread[t].pc \in InLock
    BY <1>1, <1>3 DEF InLock
  <2> QED BY <1>1, <1>3, <2>1, TypesKept DEF Types, Peek
<1>5. Local(t)'
  BY <1>1, <1>2 DEF Moved, Local, PushOps, PopOps, Peek
<1>6. PrivateElem(t)' = PrivateElem(t)
  BY <1>1, <1>2 DEF Moved, PrivateElem, Private, PushOps, PopOps
<1> QED BY <1>3, <1>4, <1>5, <1>6, QuietStep DEF Peek

(* *elem = s->top. *)
LEMMA TakeStep ==
  ASSUME Inv, NEW t \in Threads, Take(t)
  PROVE  Inv' /\ StackKept
<1>1. /\ Types /\ Local(t) /\ thread[t].pc = "take" /\ thread[t].op \in PopOps
      /\ thread[t].elem = NULL
  BY DEF Inv, Take, At, Local
<1>2. /\ \/ top = NULL /\ Moved(t, "unlock", thread[t].op, thread[t].elem, thread[t].val)
         \/ top # NULL /\ Moved(t, "advance", thread[t].op, top, thread[t].val)
  <2>1. "unlock" \in PcType /\ "advance" \in PcType
    BY DEF PcType, InLock
  <2>2. CASE top = NULL /\ Goto(t, "unlock")
    BY <1>1, <2>1, <2>2, GotoMoves
  <2>3. CASE top # NULL /\ GotoWith(t, "advance", top, thread[t].val)
    <3>1. top \in Nodes \cup {NULL} /\ thread[t].val \in Value \cup {None}
      BY <1>1, ThreadFields DEF Types
    <3> QED BY <1>1, <2>1, <2>3, <3>1, GotoWithMoves
  <2> QED BY <2>2, <2>3 DEF Take
<1>3. PICK pc, elem, val : Moved(t, pc, thread[t].op, elem, val) /\ pc \in {"unlock", "advance"}
  BY <1>2
<1>4. Types'
  <2>1. pc \in InLock /\ thread[t].pc \in InLock
    BY <1>1, <1>3 DEF InLock
  <2> QED BY <1>1, <1>3, <2>1, TypesKept DEF Types, Take
<1>5. Local(t)'
  BY <1>1, <1>2 DEF Moved, Local, PushOps, PopOps, Take
<1>6. PrivateElem(t)' = PrivateElem(t)
  BY <1>1, <1>2 DEF Moved, PrivateElem, Private, PushOps, PopOps
<1> QED BY <1>3, <1>4, <1>5, <1>6, QuietStep DEF Take

(* pthread_mutex_unlock; all but pop_safe_managed return then. *)
LEMMA UnlockStep ==
  ASSUME Inv, NEW t \in Threads, Unlock(t)
  PROVE  Inv' /\ StackKept
<1>1. /\ Types /\ Local(t) /\ thread[t].pc = "unlock" /\ thread[t].op \in PushOps \cup PopOps
      /\ lock = t /\ lock' = None
  <2>1. Types /\ Local(t) /\ thread[t].pc = "unlock" /\ lock' = None
    BY DEF Inv, Unlock, At
  <2>2. lock = t
    BY <2>1 DEF Types, InLock
  <2>3. thread[t].op \in PushOps \cup PopOps
    BY <2>1, OpsAre DEF Local
  <2> QED BY <2>1, <2>2, <2>3
<1>2. \/ /\ thread[t].op = "pop_safe_managed"
         /\ Moved(t, "read", thread[t].op, thread[t].elem, thread[t].val)
      \/ thread[t].op # "pop_safe_managed" /\ Moved(t, "idle", "none", NULL, None)
  <2>1. "read" \in PcType /\ "idle" \in PcType
    BY DEF PcType, InLock
  <2>2. CASE thread[t].op = "pop_safe_managed"
    <3>1. Goto(t, "read")
      BY <2>2 DEF Unlock, Goto
    <3> QED BY <1>1, <2>1, <2>2, <3>1, GotoMoves
  <2>3. CASE thread[t].op # "pop_safe_managed"
    <3>1. thread' = [thread EXCEPT ![t] = [pc |-> "idle", op |-> "none", elem |-> NULL, val |-> None]]
      BY <2>3 DEF Unlock, Idle
    <3> QED BY <1>1, <2>1, <2>3, <3>1, MovedTo
  <2> QED BY <2>2, <2>3
<1>3. PICK pc, op, elem, val : Moved(t, pc, op, elem, val) /\ pc \in {"read", "idle"}
  BY <1>2
<1>4. Types'
  <2>1. pc \notin InLock
    BY <1>3 DEF InLock
  <2> QED BY <1>1, <1>3, <2>1, TypesKept DEF Types, Unlock
<1>5. Local(t)'
  BY <1>1, <1>2 DEF Moved, Local, PushOps, PopOps, Unlock
<1>6. PrivateElem(t)' = PrivateElem(t)
  BY <1>1, <1>2 DEF Moved, PrivateElem, Private, PushOps, PopOps
<1> QED BY <1>3, <1>4, <1>5, <1>6, QuietStep DEF Unlock

(* stackelem_read of pop_safe_managed, after the mutex was released. *)
LEMMA ReadStep ==
  ASSUME Inv, NEW t \in Threads, Read(t)
  PROVE  Inv' /\ StackKept
<1>1. Types /\ Local(t) /\ thread[t].pc = "read" /\ thread[t].op = "pop_safe_managed"
  BY DEF Inv, Read, At, Local
<1>2. \/ /\ thread[t].elem = NULL
         /\ Moved(t, "crashed", thread[t].op, thread[t].elem, thread[t].val)
      \/ /\ thread[t].elem # NULL
         /\ Moved(t, "recycle", thread[t].op, thread[t].elem, buffer[thread[t].elem])
  <2>1. "crashed" \in PcType /\ "recycle" \in PcType
    BY DEF PcType, InLock
  <2>2. CASE thread[t].elem = NULL
    <3>1. Goto(t, "crashed")
      BY <2>2 DEF Read
    <3> QED BY <1>1, <2>1, <2>2, <3>1, GotoMoves
  <2>3. CASE thread[t].elem # NULL
    <3>1. GotoWith(t, "recycle", thread[t].elem, buffer[thread[t].elem])
      BY <2>3 DEF Read
    <3>2. thread[t].elem \in Nodes
      BY <1>1, <2>3, ThreadFields
    <3>3. thread[t].elem \in Nodes \cup {NULL} /\ buffer[thread[t].elem] \in Value \cup {None}
      BY <1>1, <3>2 DEF Types
    <3> QED BY <1>1, <2>1, <2>3, <3>1, <3>3, GotoWithMoves
  <2> QED BY <2>2, <2>3
<1>3. PICK pc, elem, val : Moved(t, pc, thread[t].op, elem, val) /\ pc \in {"crashed", "recycle"}
  BY <1>2
<1>4. Types'
  <2>1. pc \notin InLock /\ thread[t].pc \notin InLock
    BY <1>1, <1>3 DEF InLock
  <2> QED BY <1>1, <1>3, <2>1, TypesKept DEF Types, Read
<1>5. Local(t)'
  BY <1>1, <1>2 DEF Moved, Local, PushOps, PopOps, Read
<1>6. PrivateElem(t)' = PrivateElem(t)
  BY <1>1, <1>2 DEF Moved, PrivateElem, Private, PushOps, PopOps
<1> QED BY <1>3, <1>4, <1>5, <1>6, QuietStep DEF Read

(* pelib_stack_push_elem's link: only the thread's own element changes. *)
LEMMA LinkStep ==
  ASSUME Inv, NEW t \in Threads, Link(t)
  PROVE  Inv' /\ StackKept
<1> DEFINE e == thread[t].elem
<1>1. /\ Types /\ Local(t) /\ thread[t].pc = "link" /\ thread[t].op \in PushOps
      /\ e # NULL /\ buffer[e] = thread[t].val /\ thread[t].val \in Value
      /\ lock = t /\ lock' = lock
  BY DEF Inv, Link, At, Local, Types, InLock
<1>2. Moved(t, "publish", thread[t].op, e, thread[t].val)
  <2>1. "publish" \in PcType /\ Goto(t, "publish")
    BY DEF PcType, InLock, Link
  <2> QED BY <1>1, <2>1, GotoMoves
<1>3. e \in Nodes /\ e \in PrivateElem(t)
  BY <1>1, ThreadFields DEF PrivateElem, Private
<1>4. next' \in [Nodes -> Nodes \cup {NULL}] /\ next'[e] = top /\ \A n \in Nodes : n # e => next'[n] = next[n]
  BY <1>1, <1>3 DEF Types, Link
<1>5. /\ top' = top /\ buffer' = buffer /\ allocated' = allocated /\ pool' = pool
      /\ client' = client /\ balance' = balance
  BY DEF Link
<1> HIDE DEF e
<1>6. Types'
  <2>1. "publish" \in InLock /\ thread[t].pc \in InLock
    BY <1>1 DEF InLock
  <2> QED BY <1>1, <1>2, <1>4, <1>5, <2>1, TypesKept DEF Types
<1>7. Local(t)'
  BY <1>1, <1>2, <1>4, <1>5 DEF Moved, Local, PushOps, PopOps, e
<1>8. \A u \in Threads : u # t => thread'[u] = thread[u]
  BY <1>2 DEF Moved
<1>9. /\ e \notin ElementsOf(next, top)
      /\ \A u \in Threads : e \notin ElementsOf(next, pool[u])
      /\ \A u \in Threads : u # t => e \notin PrivateElem(u)
      /\ \A u \in Threads : PrivateElem(u) \subseteq Nodes
  BY <1>3, Apart DEF Inv, Types
<1>10. \A u \in Threads : u # t => Local(u)'
  BY <1>1, <1>4, <1>5, <1>8, <1>9, LocalKept DEF Inv
<1>11. \A u \in Threads : PrivateElem(u)' = PrivateElem(u)
  <2>1. PrivateElem(t)' = PrivateElem(t)
    BY <1>1, <1>2 DEF Moved, PrivateElem, Private, e
  <2> QED BY <2>1, <1>8, PrivateKept
<1>12. /\ WellLinked(next', top')
       /\ ChainOf(next', top') = ChainOf(next, top)
       /\ ElementsOf(next', top') = ElementsOf(next, top)
       /\ \A u \in Threads : /\ WellLinked(next', pool'[u])
                             /\ ElementsOf(next', pool'[u]) = ElementsOf(next, pool[u])
  BY <1>4, <1>5, <1>9, ListsFramed DEF Inv
<1>13. Partition(HeldNow, allocated)'
  BY <1>5, <1>11, <1>12, PlacesKept DEF Inv
<1> QED BY <1>5, <1>6, <1>7, <1>10, <1>12, <1>13 DEF Inv, Lists, StackKept

(* The unlink of a popped element, and pelib_stack_pop's free. *)
LEMMA DetachStep ==
  ASSUME Inv, NEW t \in Threads, Detach(t)
  PROVE  Inv' /\ StackKept
<1> DEFINE e == thread[t].elem
<1>1. /\ Types /\ Local(t) /\ thread[t].pc = "detach" /\ thread[t].op \in PopOps
      /\ e # NULL /\ lock = t /\ lock' = lock
  BY DEF Inv, Detach, At, Local, Types, InLock
<1>2. Moved(t, "unlock", thread[t].op, e, thread[t].val)
  <2>1. "unlock" \in PcType /\ Goto(t, "unlock")
    BY DEF PcType, InLock, Detach
  <2> QED BY <1>1, <2>1, GotoMoves
<1>3. e \in Nodes /\ PrivateElem(t) = {e}
  BY <1>1, ThreadFields DEF PrivateElem, Private, PopOps
<1>4. next' \in [Nodes -> Nodes \cup {NULL}] /\ \A n \in Nodes : n # e => next'[n] = next[n]
  BY <1>1, <1>3, StackAssumption DEF Types, Detach
<1>5. /\ top' = top /\ buffer' = buffer /\ pool' = pool
      /\ client' = client /\ balance' = balance
      /\ allocated' = IF thread[t].op = "pop_safe" THEN allocated \ {e} ELSE allocated
  BY DEF Detach
<1> HIDE DEF e
<1>6. Types'
  <2>1. "unlock" \in InLock /\ thread[t].pc \in InLock
    BY <1>1 DEF InLock
  <2>2. allocated' \subseteq Nodes
    BY <1>1, <1>5 DEF Types
  <2> QED BY <1>1, <1>2, <1>4, <1>5, <2>1, <2>2, TypesKept DEF Types
<1>7. Local(t)'
  BY <1>1, <1>2, <1>5 DEF Moved, Local, PushOps, PopOps, e
<1>8. \A u \in Threads : u # t => thread'[u] = thread[u]
  BY <1>2 DEF Moved
<1>9. /\ e \notin ElementsOf(next, top)
      /\ \A u \in Threads : e \notin ElementsOf(next, pool[u])
      /\ \A u \in Threads : u # t => e \notin PrivateElem(u)
      /\ \A u \in Threads : PrivateElem(u) \subseteq Nodes
      /\ e \in allocated
  BY <1>3, Apart DEF Inv, Types
<1>10. \A u \in Threads : u # t => Local(u)'
  BY <1>1, <1>4, <1>5, <1>8, <1>9, LocalKept DEF Inv
<1>11. \A u \in Threads : u # t => PrivateElem(u)' = PrivateElem(u)
  BY <1>8, PrivateKept
<1>12. /\ WellLinked(next', top')
       /\ ChainOf(next', top') = ChainOf(next, top)
       /\ ElementsOf(next', top') = ElementsOf(next, top)
       /\ \A u \in Threads : /\ WellLinked(next', pool'[u])
                             /\ ElementsOf(next', pool'[u]) = ElementsOf(next, pool[u])
  BY <1>4, <1>5, <1>9, ListsFramed DEF Inv
<1>13. Partition(HeldNow, allocated)'
  <2>1. CASE thread[t].op = "pop_safe"
    <3>1. PrivateElem(t)' = {}
      BY <1>1, <1>2, <2>1 DEF Moved, PrivateElem, Private, PushOps, PopOps
    <3>2. InHeap # OnStack /\ InHeap \notin Places
          /\ \A u : InHeap # PoolOf(u) /\ InHeap # HandsOf(u)
      BY PlaceFacts DEF InHeap, OnStack, PoolOf, HandsOf
    <3>3. /\ ElementsOf(next', top') = With(ElementsOf(next, top), e, InHeap = OnStack)
          /\ \A u \in Threads :
               /\ ElementsOf(next', pool'[u]) = With(ElementsOf(next, pool[u]), e, InHeap = PoolOf(u))
               /\ PrivateElem(u)' = With(PrivateElem(u), e, InHeap = HandsOf(u))
          /\ allocated' = With(allocated, e, InHeap \in Places)
      BY <2>1, <3>1, <3>2, <1>3, <1>5, <1>9, <1>11, <1>12 DEF With
    <3> QED BY <3>3, PlacesMove DEF Inv
  <2>2. CASE thread[t].op # "pop_safe"
    <3>1. PrivateElem(t)' = {e}
      BY <1>1, <1>2, <2>2 DEF Moved, PrivateElem, Private, PushOps, PopOps
    <3>2. \A u \in Threads : PrivateElem(u)' = PrivateElem(u)
      BY <3>1, <1>3, <1>11
    <3> QED BY <2>2, <3>2, <1>5, <1>12, PlacesKept DEF Inv
  <2> QED BY <2>1, <2>2
<1> QED BY <1>5, <1>6, <1>7, <1>10, <1>12, <1>13 DEF Inv, Lists, StackKept

(* A new element, in the hands of the thread that allocated it. *)
LEMMA NewElemStep ==
  ASSUME Inv, NEW t \in Threads, NEW n \in Nodes, NewElem(t, n),
         NEW pc, NEW op, NEW elem, NEW val, Moved(t, pc, op, elem, val),
         PrivateElem(t) = {}, PrivateElem(t)' = {n},
         top' = top, pool' = pool, client' = client, Types', Local(t)'
  PROVE  Inv' /\ StackKept
<1>1. /\ Types /\ n \notin allocated /\ allocated' = allocated \cup {n}
      /\ \A m \in Nodes : m # n => next'[m] = next[m] /\ buffer'[m] = buffer[m]
  BY DEF Inv, Types, NewElem
<1>2. \A u \in Threads : u # t => thread'[u] = thread[u]
  BY DEF Moved
<1>3. /\ n \notin ElementsOf(next, top)
      /\ \A u \in Threads : n \notin ElementsOf(next, pool[u]) /\ n \notin PrivateElem(u)
      /\ \A u \in Threads : PrivateElem(u) \subseteq Nodes
      /\ ElementsOf(next, top) \subseteq Nodes
  BY <1>1, Apart DEF Inv, Types
<1>4. top # NULL => top \in ElementsOf(next, top)
  BY ListFacts DEF Inv, Lists
<1>5. ASSUME NEW u \in Threads, u # t PROVE Local(u)'
  <2>1. \A e \in PrivateElem(u) : buffer'[e] = buffer[e] /\ next'[e] = next[e]
    BY <1>1, <1>3
  <2>2. top' = top /\ (top # NULL => buffer'[top] = buffer[top])
    BY <1>1, <1>3, <1>4
  <2> QED BY <1>1, <1>2, <1>5, <2>1, <2>2, LocalKept DEF Inv
<1>6. /\ WellLinked(next', top')
      /\ ChainOf(next', top') = ChainOf(next, top)
      /\ ElementsOf(next', top') = ElementsOf(next, top)
      /\ \A u \in Threads : /\ WellLinked(next', pool'[u])
                            /\ ElementsOf(next', pool'[u]) = ElementsOf(next, pool[u])
  BY <1>1, <1>3, ListsFramed DEF Inv
<1>7. Partition(HeldNow, allocated)'
  <2>1. \A u \in Threads : u # t => PrivateElem(u)' = PrivateElem(u)
    BY <1>2, PrivateKept
  <2>2. HandsOf(t) # OnStack /\ HandsOf(t) \in Places
        /\ \A u : HandsOf(t) # PoolOf(u) /\ (HandsOf(t) = HandsOf(u) <=> t = u)
    BY PlaceFacts
  <2>3. /\ ElementsOf(next', top') = With(ElementsOf(next, top), n, HandsOf(t) = OnStack)
        /\ allocated' = With(allocated, n, HandsOf(t) \in Places)
    BY <2>2, <1>1, <1>3, <1>6 DEF With
  <2>4. ASSUME NEW u \in Threads
        PROVE  /\ ElementsOf(next', pool'[u]) = With(ElementsOf(next, pool[u]), n, HandsOf(t) = PoolOf(u))
               /\ PrivateElem(u)' = With(PrivateElem(u), n, HandsOf(t) = HandsOf(u))
    <3>1. ElementsOf(next', pool'[u]) = ElementsOf(next, pool[u]) \ {n}
      BY <1>3, <1>6
    <3>2. PrivateElem(u)' = IF u = t THEN PrivateElem(u) \cup {n} ELSE PrivateElem(u) \ {n}
      BY <2>1, <1>3
    <3> QED BY <2>2, <3>1, <3>2 DEF With
  <2> QED BY <2>3, <2>4, PlacesMove DEF Inv
<1>8. StackKept
  BY <1>1, <1>3, <1>6 DEF StackKept
<1> QED BY <1>5, <1>6, <1>7, <1>8 DEF Inv, Lists

(* push_safe allocates its element inside the mutex. *)
LEMMA AllocStep ==
  ASSUME Inv, NEW t \in Threads, Alloc(t)
  PROVE  Inv' /\ StackKept
<1>1. PICK n \in Nodes : NewElem(t, n) /\ GotoWith(t, "link", n, thread[t].val)
  BY DEF Alloc
<1>2. /\ Types /\ Local(t) /\ thread[t].pc = "alloc" /\ thread[t].op = "push_safe"
      /\ thread[t].val \in Value
  BY DEF Inv, Alloc, At, Local, PushOps
<1>3. Moved(t, "link", thread[t].op, n, thread[t].val)
  <2>1. "link" \in PcType /\ n \in Nodes \cup {NULL} /\ thread[t].val \in Value \cup {None}
    BY <1>2 DEF PcType, InLock
  <2> QED BY <1>1, <1>2, <2>1, GotoWithMoves
<1>4. PrivateElem(t) = {} /\ PrivateElem(t)' = {n}
  BY <1>2, <1>3, StackAssumption DEF Moved, PrivateElem, Private, PushOps
<1>5. /\ next' \in [Nodes -> Nodes \cup {NULL}] /\ buffer' \in [Nodes -> Value]
      /\ allocated' \subseteq Nodes /\ buffer'[n] = thread[t].val
  BY <1>1, <1>2 DEF Types, NewElem
<1>6. top' = top /\ pool' = pool /\ client' = client /\ lock' = lock /\ balance' = balance
  BY DEF Alloc
<1>7. Types'
  <2>1. "link" \in InLock /\ thread[t].pc \in InLock
    BY <1>2 DEF InLock
  <2> QED BY <1>2, <1>3, <1>5, <1>6, <2>1, TypesKept DEF Types
<1>8. Local(t)'
  BY <1>2, <1>3, <1>5, <1>6, StackAssumption DEF Moved, Local, PushOps, PopOps
<1> QED BY <1>1, <1>3, <1>4, <1>6, <1>7, <1>8, NewElemStep

(* push_safe_managed takes its element from the pool or allocates it,      *)
(* before it waits for the mutex.                                          *)
LEMMA PrepareStep ==
  ASSUME Inv, NEW t \in Threads, Prepare(t)
  PROVE  Inv' /\ StackKept
<1>1. /\ Types /\ Local(t) /\ thread[t].pc = "prepare" /\ thread[t].op = "push_safe_managed"
      /\ thread[t].val \in Value /\ PrivateElem(t) = {}
  BY DEF Inv, Prepare, At, Local, PushOps, PopOps, PrivateElem, Private
<1>2. top' = top /\ client' = client /\ lock' = lock /\ balance' = balance
  BY DEF Prepare
<1>3. "lock" \in PcType /\ "lock" \notin InLock /\ thread[t].pc \notin InLock
      /\ thread[t].val \in Value \cup {None}
  BY <1>1 DEF PcType, InLock
<1>4. ASSUME pool[t] = NULL, pool' = pool, NEW n \in Nodes, NewElem(t, n),
             GotoWith(t, "lock", n, thread[t].val)
      PROVE  Inv' /\ StackKept
  <2>1. Moved(t, "lock", thread[t].op, n, thread[t].val)
    <3>1. n \in Nodes \cup {NULL}
      OBVIOUS
    <3> QED BY <1>1, <1>3, <1>4, <3>1, GotoWithMoves
  <2>2. PrivateElem(t)' = {n}
    BY <1>1, <2>1, StackAssumption DEF Moved, PrivateElem, Private, PushOps
  <2>3. /\ next' \in [Nodes -> Nodes \cup {NULL}] /\ buffer' \in [Nodes -> Value]
        /\ allocated' \subseteq Nodes /\ buffer'[n] = thread[t].val
    BY <1>1, <1>4 DEF Types, NewElem
  <2>4. Types'
    BY <1>1, <1>2, <1>3, <1>4, <2>1, <2>3, TypesKept DEF Types
  <2>5. Local(t)'
    BY <1>1, <1>2, <2>1, <2>3, StackAssumption DEF Moved, Local, PushOps, PopOps
  <2> QED BY <1>1, <1>2, <1>4, <2>1, <2>2, <2>4, <2>5, NewElemStep
<1> DEFINE e == pool[t]
<1>5. ASSUME e # NULL, pool' = [pool EXCEPT ![t] = next[e]], next' = [next EXCEPT ![e] = NULL],
             buffer' = [buffer EXCEPT ![e] = thread[t].val], allocated' = allocated,
             GotoWith(t, "lock", e, thread[t].val)
      PROVE  Inv' /\ StackKept
  <2>1. /\ WellLinked(next, e) /\ e \in Nodes /\ WellLinked(next, next[e])
        /\ e \notin ElementsOf(next, next[e])
        /\ ElementsOf(next, e) = ElementsOf(next, next[e]) \cup {e}
        /\ e \in Nodes \cup {NULL}
    BY <1>5, ListUncons DEF Inv, Lists
  <2>2. Moved(t, "lock", thread[t].op, e, thread[t].val)
    BY <1>1, <1>3, <1>5, <2>1, GotoWithMoves
  <2>3. PrivateElem(t)' = {e}
    BY <1>1, <1>5, <2>2, StackAssumption DEF Moved, PrivateElem, Private, PushOps
  <2>4. /\ next' \in [Nodes -> Nodes \cup {NULL}] /\ buffer' \in [Nodes -> Value]
        /\ allocated' \subseteq Nodes /\ buffer'[e] = thread[t].val
        /\ pool' \in [Threads -> Nodes \cup {NULL}] /\ pool'[t] = next[e]
        /\ \A u \in Threads : u # t => pool'[u] = pool[u]
        /\ \A m \in Nodes : m # e => next'[m] = next[m] /\ buffer'[m] = buffer[m]
    BY <1>1, <1>5, <2>1 DEF Types
  <2>5. /\ e \notin ElementsOf(next, top) /\ e \in allocated
        /\ \A u \in Threads : e \notin PrivateElem(u)
        /\ \A u \in Threads : u # t => e \notin ElementsOf(next, pool[u])
        /\ \A u \in Threads : PrivateElem(u) \subseteq Nodes
        /\ ElementsOf(next, top) \subseteq Nodes
    BY <2>1, Apart DEF Inv, Types
  <2>6. top # NULL => top \in ElementsOf(next, top)
    BY ListFacts DEF Inv, Lists
  <2> HIDE DEF e
  <2>7. Types'
    BY <1>1, <1>2, <1>3, <2>2, <2>4, TypesKept DEF Types
  <2>8. Local(t)'
    BY <1>1, <1>2, <1>5, <2>2, <2>4 DEF Moved, Local, PushOps, PopOps
  <2>9. \A u \in Threads : u # t => thread'[u] = thread[u]
    BY <2>2 DEF Moved
  <2>10. ASSUME NEW u \in Threads, u # t PROVE Local(u)'
    <3>1. \A m \in PrivateElem(u) : buffer'[m] = buffer[m] /\ next'[m] = next[m]
      BY <2>4, <2>5
    <3>2. top' = top /\ (top # NULL => buffer'[top] = buffer[top])
      BY <1>2, <2>4, <2>5, <2>6
    <3> QED BY <1>1, <1>2, <2>9, <2>10, <3>1, <3>2, LocalKept DEF Inv
  <2>11. ASSUME NEW p, WellLinked(next, p), e \notin ElementsOf(next, p)
         PROVE  /\ WellLinked(next', p) /\ ChainOf(next', p) = ChainOf(next, p)
                /\ ElementsOf(next', p) = ElementsOf(next, p)
    <3>1. \A m \in ElementsOf(next, p) : next'[m] = next[m]
      BY <2>4, <2>11, ListFacts
    <3> QED BY <2>11, <3>1, ListFrame
  <2>12. /\ WellLinked(next', top') /\ ChainOf(next', top') = ChainOf(next, top)
         /\ ElementsOf(next', top') = ElementsOf(next, top)
    BY <1>2, <2>5, <2>11 DEF Inv, Lists
  <2>13. /\ WellLinked(next', pool'[t]) /\ ElementsOf(next', pool'[t]) = ElementsOf(next, pool[t]) \ {e}
    BY <2>1, <2>4, <2>11 DEF e
  <2>14. ASSUME NEW u \in Threads, u # t
         PROVE  WellLinked(next', pool'[u]) /\ ElementsOf(next', pool'[u]) = ElementsOf(next, pool[u])
    BY <2>4, <2>5, <2>11, <2>14 DEF Inv, Lists
  <2>15. Partition(HeldNow, allocated)'
    <3>1. \A u \in Threads : u # t => PrivateElem(u)' = PrivateElem(u)
      BY <2>9, PrivateKept
    <3>2. HandsOf(t) # OnStack /\ HandsOf(t) \in Places
          /\ \A u : HandsOf(t) # PoolOf(u) /\ (HandsOf(t) = HandsOf(u) <=> t = u)
      BY PlaceFacts
    <3>3. /\ ElementsOf(next', top') = With(ElementsOf(next, top), e, HandsOf(t) = OnStack)
          /\ allocated' = With(allocated, e, HandsOf(t) \in Places)
      BY <3>2, <1>5, <2>5, <2>12 DEF With
    <3>4. ASSUME NEW u \in Threads
          PROVE  /\ ElementsOf(next', pool'[u]) = With(ElementsOf(next, pool[u]), e, HandsOf(t) = PoolOf(u))
                 /\ PrivateElem(u)' = With(PrivateElem(u), e, HandsOf(t) = HandsOf(u))
      BY <3>1, <3>2, <1>1, <2>3, <2>5, <2>13, <2>14 DEF With
    <3> QED BY <3>3, <3>4, PlacesMove DEF Inv
  <2>16. StackKept
    BY <2>4, <2>5, <2>12 DEF StackKept
  <2> QED BY <2>7, <2>8, <2>10, <2>12, <2>13, <2>14, <2>15, <2>16 DEF Inv, Lists
<1> QED BY <1>4, <1>5 DEF Prepare

(* The element at hand becomes the top of the stack. *)
StackPushes(e) ==
  /\ ChainOf(next', top') = <<e>> \o ChainOf(next, top)
  /\ buffer' = buffer

(* s->top = elem. *)
LEMMA PublishStep ==
  ASSUME Inv, NEW t \in Threads, Publish(t)
  PROVE  Inv' /\ StackPushes(thread[t].elem)
<1> DEFINE e == thread[t].elem
<1>1. /\ Types /\ Local(t) /\ thread[t].pc = "publish" /\ thread[t].op \in PushOps
      /\ e # NULL /\ next[e] = top /\ lock = t /\ lock' = lock
      /\ thread[t].val \in Value /\ buffer[e] = thread[t].val
  BY DEF Inv, Publish, At, Local, Types, InLock
<1>2. Moved(t, "unlock", thread[t].op, e, thread[t].val)
  <2>1. "unlock" \in PcType /\ Goto(t, "unlock")
    BY DEF PcType, InLock, Publish
  <2> QED BY <1>1, <2>1, GotoMoves
<1>3. e \in Nodes /\ PrivateElem(t) = {e} /\ PrivateElem(t)' = {}
  <2>1. e \in Nodes
    BY <1>1, ThreadFields
  <2>2. PrivateElem(t) = {e}
    BY <1>1 DEF PrivateElem, Private
  <2>3. PrivateElem(t)' = {}
    BY <1>1, <1>2 DEF Moved, PrivateElem, Private, PushOps
  <2> QED BY <2>1, <2>2, <2>3
<1>4. /\ top' = e /\ next' = next /\ buffer' = buffer /\ pool' = pool /\ allocated' = allocated
      /\ client' = client /\ balance' = balance
  BY DEF Publish
<1> HIDE DEF e
<1>5. Types'
  <2>1. "unlock" \in InLock /\ thread[t].pc \in InLock /\ top' \in Nodes \cup {NULL}
    BY <1>1, <1>3, <1>4 DEF InLock
  <2> QED BY <1>1, <1>2, <1>4, <2>1, TypesKept DEF Types
<1>6. Local(t)'
  BY <1>1, <1>2, <1>4 DEF Moved, Local, PushOps, PopOps, e
<1>7. \A u \in Threads : u # t => thread'[u] = thread[u]
  BY <1>2 DEF Moved
<1>8. \A u \in Threads : u # t => Local(u)'
  BY <1>1, <1>4, <1>7, LocalKept DEF Inv
<1>9. /\ e \notin ElementsOf(next, top) /\ e \in allocated
      /\ \A u \in Threads : e \notin ElementsOf(next, pool[u])
      /\ \A u \in Threads : u # t => e \notin PrivateElem(u)
  BY <1>3, Apart DEF Inv
<1>10. /\ WellLinked(next', top')
       /\ ChainOf(next', top') = <<e>> \o ChainOf(next, top)
       /\ ElementsOf(next', top') = ElementsOf(next, top) \cup {e}
  BY <1>1, <1>3, <1>4, <1>9, ListCons DEF Inv, Lists
<1>11. Partition(HeldNow, allocated)'
  <2>1. \A u \in Threads : u # t => PrivateElem(u)' = PrivateElem(u)
    BY <1>7, PrivateKept
  <2>2. OnStack \in Places /\ \A u : OnStack # PoolOf(u) /\ OnStack # HandsOf(u)
    BY PlaceFacts
  <2>3. /\ ElementsOf(next', top') = With(ElementsOf(next, top), e, OnStack = OnStack)
        /\ allocated' = With(allocated, e, OnStack \in Places)
    BY <2>2, <1>4, <1>9, <1>10 DEF With
  <2>4. ASSUME NEW u \in Threads
        PROVE  /\ ElementsOf(next', pool'[u]) = With(ElementsOf(next, pool[u]), e, OnStack = PoolOf(u))
               /\ PrivateElem(u)' = With(PrivateElem(u), e, OnStack = HandsOf(u))
    BY <2>1, <2>2, <1>3, <1>4, <1>9 DEF With
  <2> QED BY <2>3, <2>4, PlacesMove DEF Inv
<1> QED BY <1>4, <1>5, <1>6, <1>8, <1>10, <1>11 DEF Inv, Lists, StackPushes, e

(* The top of the stack leaves it. *)
StackPops ==
  /\ top # NULL
  /\ ChainOf(next, top) = <<top>> \o ChainOf(next', top')
  /\ buffer' = buffer

(* s->top = elem->next. *)
LEMMA AdvanceStep ==
  ASSUME Inv, NEW t \in Threads, Advance(t)
  PROVE  Inv' /\ StackPops
<1> DEFINE e == thread[t].elem
<1>1. /\ Types /\ Local(t) /\ thread[t].pc = "advance" /\ thread[t].op \in PopOps
      /\ e # NULL /\ e = top /\ lock = t /\ lock' = lock
  BY DEF Inv, Advance, At, Local, Types, InLock
<1>2. Moved(t, "detach", thread[t].op, e, thread[t].val)
  <2>1. "detach" \in PcType /\ Goto(t, "detach")
    BY DEF PcType, InLock, Advance
  <2> QED BY <1>1, <2>1, GotoMoves
<1>3. e \in Nodes /\ PrivateElem(t) = {} /\ PrivateElem(t)' = {e}
  <2>1. e \in Nodes
    BY <1>1, ThreadFields
  <2>2. PrivateElem(t) = {}
    BY <1>1 DEF PrivateElem, Private
  <2>3. PrivateElem(t)' = {e}
    BY <1>1, <1>2 DEF Moved, PrivateElem, Private, PopOps
  <2> QED BY <2>1, <2>2, <2>3
<1>4. /\ top' = next[e] /\ next' = next /\ buffer' = buffer /\ pool' = pool /\ allocated' = allocated
      /\ client' = client /\ balance' = balance
  BY DEF Advance
<1> HIDE DEF e
<1>5. Types'
  <2>1. "detach" \in InLock /\ thread[t].pc \in InLock /\ top' \in Nodes \cup {NULL}
    BY <1>1, <1>3, <1>4 DEF InLock, Types
  <2> QED BY <1>1, <1>2, <1>4, <2>1, TypesKept DEF Types
<1>6. Local(t)'
  BY <1>1, <1>2, <1>4 DEF Moved, Local, PushOps, PopOps, e
<1>7. \A u \in Threads : u # t => thread'[u] = thread[u]
  BY <1>2 DEF Moved
<1>8. \A u \in Threads : u # t => Local(u)'
  BY <1>1, <1>4, <1>7, LocalKept DEF Inv
<1>9. /\ WellLinked(next', top')
      /\ ChainOf(next, top) = <<top>> \o ChainOf(next', top')
      /\ ElementsOf(next', top') = ElementsOf(next, top) \ {e}
      /\ e \in ElementsOf(next, top)
  BY <1>1, <1>4, ListUncons DEF Inv, Lists
<1>10. /\ e \in allocated
       /\ \A u \in Threads : e \notin ElementsOf(next, pool[u])
       /\ \A u \in Threads : e \notin PrivateElem(u)
  BY <1>9, Apart DEF Inv
<1>11. Partition(HeldNow, allocated)'
  <2>1. \A u \in Threads : u # t => PrivateElem(u)' = PrivateElem(u)
    BY <1>7, PrivateKept
  <2>2. HandsOf(t) # OnStack /\ HandsOf(t) \in Places
        /\ \A u : HandsOf(t) # PoolOf(u) /\ (HandsOf(t) = HandsOf(u) <=> t = u)
    BY PlaceFacts
  <2>3. /\ ElementsOf(next', top') = With(ElementsOf(next, top), e, HandsOf(t) = OnStack)
        /\ allocated' = With(allocated, e, HandsOf(t) \in Places)
    BY <2>2, <1>4, <1>9, <1>10 DEF With
  <2>4. ASSUME NEW u \in Threads
        PROVE  /\ ElementsOf(next', pool'[u]) = With(ElementsOf(next, pool[u]), e, HandsOf(t) = PoolOf(u))
               /\ PrivateElem(u)' = With(PrivateElem(u), e, HandsOf(t) = HandsOf(u))
    <3>1. ElementsOf(next', pool'[u]) = ElementsOf(next, pool[u]) \ {e}
      BY <1>4, <1>10
    <3>2. PrivateElem(u)' = IF u = t THEN PrivateElem(u) \cup {e} ELSE PrivateElem(u) \ {e}
      BY <2>1, <1>3, <1>10
    <3> QED BY <2>2, <3>1, <3>2 DEF With
  <2> QED BY <2>3, <2>4, PlacesMove DEF Inv
<1> QED BY <1>1, <1>4, <1>5, <1>6, <1>8, <1>9, <1>11 DEF Inv, Lists, StackPops

(* The popped element goes to the pool, after the mutex was released. *)
LEMMA RecycleStep ==
  ASSUME Inv, NEW t \in Threads, Recycle(t)
  PROVE  Inv' /\ StackKept
<1> DEFINE e == thread[t].elem
<1>1. /\ Types /\ Local(t) /\ thread[t].pc = "recycle" /\ thread[t].op = "pop_safe_managed"
      /\ e # NULL /\ lock' = lock
  BY DEF Inv, Recycle, At, Local
<1>2. Moved(t, "idle", "none", NULL, None)
  <2>1. "idle" \in PcType
    BY DEF PcType
  <2>2. thread' = [thread EXCEPT ![t] = [pc |-> "idle", op |-> "none", elem |-> NULL, val |-> None]]
    BY DEF Recycle, Idle
  <2> QED BY <1>1, <2>1, <2>2, MovedTo
<1>3. e \in Nodes /\ PrivateElem(t) = {e} /\ PrivateElem(t)' = {}
  <2>1. e \in Nodes
    BY <1>1, ThreadFields
  <2>2. PrivateElem(t) = {e}
    BY <1>1 DEF PrivateElem, Private
  <2>3. PrivateElem(t)' = {}
    BY <1>2 DEF Moved, PrivateElem, Private
  <2> QED BY <2>1, <2>2, <2>3
<1>4. /\ next' \in [Nodes -> Nodes \cup {NULL}] /\ next'[e] = pool[t]
      /\ \A n \in Nodes : n # e => next'[n] = next[n]
      /\ pool' \in [Threads -> Nodes \cup {NULL}] /\ pool'[t] = e
      /\ \A u \in Threads : u # t => pool'[u] = pool[u]
  BY <1>1, <1>3 DEF Recycle, Types
<1>5. /\ top' = top /\ buffer' = buffer /\ allocated' = allocated
      /\ client' = client /\ balance' = balance
  BY DEF Recycle
<1> HIDE DEF e
<1>6. Types'
  <2>1. "idle" \notin InLock /\ thread[t].pc \notin InLock
    BY <1>1 DEF InLock
  <2> QED BY <1>1, <1>2, <1>4, <1>5, <2>1, TypesKept DEF Types
<1>7. Local(t)'
  BY <1>2 DEF Moved, Local, PushOps, PopOps
<1>8. \A u \in Threads : u # t => thread'[u] = thread[u]
  BY <1>2 DEF Moved
<1>9. /\ e \notin ElementsOf(next, top) /\ e \in allocated
      /\ \A u \in Threads : e \notin ElementsOf(next, pool[u])
      /\ \A u \in Threads : u # t => e \notin PrivateElem(u)
      /\ \A u \in Threads : PrivateElem(u) \subseteq Nodes
  BY <1>3, Apart DEF Inv, Types
<1>10. \A u \in Threads : u # t => Local(u)'
  BY <1>1, <1>4, <1>5, <1>8, <1>9, LocalKept DEF Inv
<1>11. /\ WellLinked(next', top')
       /\ ChainOf(next', top') = ChainOf(next, top)
       /\ ElementsOf(next', top') = ElementsOf(next, top)
       /\ \A u \in Threads : /\ WellLinked(next', pool[u])
                             /\ ElementsOf(next', pool[u]) = ElementsOf(next, pool[u])
  BY <1>4, <1>5, <1>9, ListsFramed DEF Inv
<1>12. WellLinked(next', pool'[t]) /\ ElementsOf(next', pool'[t]) = ElementsOf(next, pool[t]) \cup {e}
  <2> DEFINE first == pool[t]
             links == next'
             elem == e
  <2>1. WellLinked(links, first) /\ ElementsOf(links, first) = ElementsOf(next, pool[t])
    BY <1>11
  <2>2. elem \in Nodes /\ elem \notin ElementsOf(links, first) /\ links[elem] = first
    BY <1>3, <1>4, <1>9, <2>1
  <2> HIDE DEF first, links, elem
  <2>3. /\ WellLinked(links, elem)
        /\ ChainOf(links, elem) = <<elem>> \o ChainOf(links, first)
        /\ ElementsOf(links, elem) = ElementsOf(links, first) \cup {elem}
    BY <2>1, <2>2, ListCons
  <2> QED BY <2>1, <2>3, <1>4 DEF links, elem
<1>13. Partition(HeldNow, allocated)'
  <2>1. \A u \in Threads : u # t => PrivateElem(u)' = PrivateElem(u)
    BY <1>8, PrivateKept
  <2>2. PoolOf(t) # OnStack /\ PoolOf(t) \in Places
        /\ \A u : PoolOf(t) # HandsOf(u) /\ (PoolOf(t) = PoolOf(u) <=> t = u)
    BY PlaceFacts
  <2>3. /\ ElementsOf(next', top') = With(ElementsOf(next, top), e, PoolOf(t) = OnStack)
        /\ allocated' = With(allocated, e, PoolOf(t) \in Places)
    BY <2>2, <1>5, <1>9, <1>11 DEF With
  <2>4. ASSUME NEW u \in Threads
        PROVE  /\ ElementsOf(next', pool'[u]) = With(ElementsOf(next, pool[u]), e, PoolOf(t) = PoolOf(u))
               /\ PrivateElem(u)' = With(PrivateElem(u), e, PoolOf(t) = HandsOf(u))
    BY <2>1, <2>2, <1>3, <1>4, <1>9, <1>11, <1>12 DEF With
  <2> QED BY <2>3, <2>4, PlacesMove DEF Inv
<1>14. \A u \in Threads : WellLinked(next', pool'[u])
  BY <1>4, <1>11, <1>12
<1> QED BY <1>5, <1>6, <1>7, <1>10, <1>11, <1>13, <1>14 DEF Inv, Lists, StackKept

-----------------------------------------------------------------------------
(* The empty stack and empty pools. *)
LEMMA InitInv == Init => Inv
<1> SUFFICES ASSUME Init PROVE Inv
  OBVIOUS
<1>1. Types
  <2>1. Idle \in ThreadType
    BY DEF Idle, ThreadType, PcType
  <2>2. \A t \in Threads : thread[t].pc = "idle"
    BY DEF Init, Idle
  <2>3. thread \in [Threads -> ThreadType]
    BY <2>1 DEF Init
  <2>4. \A t \in Threads : (thread[t].pc \in InLock) <=> (lock = t)
    BY <2>2, StackAssumption DEF Init, InLock
  <2> QED BY <2>3, <2>4 DEF Init, Types
<1>2. \A t \in Threads : Local(t) /\ PrivateElem(t) = {}
  BY DEF Init, Idle, Local, PrivateElem, Private, PushOps, PopOps
<1>3. Lists /\ ElementsOf(next, top) = {} /\ \A t \in Threads : ElementsOf(next, pool[t]) = {}
  BY EmptyList DEF Init, Lists
<1>4. Partition(HeldNow, allocated)
  <2>1. \A place \in Places : HeldNow[place] = {}
    BY <1>2, <1>3, PlaceFacts DEF HeldNow
  <2> QED BY <2>1 DEF Partition, Init
<1> QED BY <1>1, <1>2, <1>3, <1>4 DEF Inv

(* A step that changes nothing. *)
LEMMA StutterStep ==
  ASSUME Inv, UNCHANGED vars
  PROVE  Inv'
<1> USE DEF vars
<1>1. Types' /\ Lists' /\ \A t \in Threads : Local(t)'
  BY DEF Inv, Types, Lists, Local
<1>2. \A u \in Threads : PrivateElem(u)' = PrivateElem(u)
  BY PrivateKept
<1>3. Partition(HeldNow, allocated)'
  BY <1>2, PlacesKept DEF Inv
<1> QED BY <1>1, <1>3 DEF Inv

(* Every step keeps the invariant. *)
LEMMA StepInv == Inv /\ [Next]_vars => Inv'
<1> SUFFICES ASSUME Inv, [Next]_vars PROVE Inv'
  OBVIOUS
<1>1. ASSUME NEW t \in Threads, Step(t) PROVE Inv'
  <2>1. CASE Prepare(t) BY <2>1, PrepareStep
  <2>2. CASE Lock(t) BY <2>2, LockStep
  <2>3. CASE Alloc(t) BY <2>3, AllocStep
  <2>4. CASE Link(t) BY <2>4, LinkStep
  <2>5. CASE Publish(t) BY <2>5, PublishStep
  <2>6. CASE Peek(t) BY <2>6, PeekStep
  <2>7. CASE Take(t) BY <2>7, TakeStep
  <2>8. CASE Advance(t) BY <2>8, AdvanceStep
  <2>9. CASE Detach(t) BY <2>9, DetachStep
  <2>10. CASE Unlock(t) BY <2>10, UnlockStep
  <2>11. CASE Read(t) BY <2>11, ReadStep
  <2>12. CASE Recycle(t) BY <2>12, RecycleStep
  <2> QED BY <1>1, <2>1, <2>2, <2>3, <2>4, <2>5, <2>6, <2>7, <2>8, <2>9, <2>10, <2>11, <2>12 DEF Step
<1>2. ASSUME NEW t \in Threads, NEW op \in OpsOf(client), CallPop(t, op) PROVE Inv'
  BY <1>2, CallPopStep
<1>3. ASSUME NEW t \in Threads, NEW op \in OpsOf(client), NEW v \in Value, CallPush(t, op, v) PROVE Inv'
  BY <1>3, CallPushStep
<1>4. CASE UNCHANGED vars
  BY <1>4, StutterStep
<1> QED BY <1>1, <1>2, <1>3, <1>4 DEF Next

(* The inductive invariant holds in every reachable state. *)
LEMMA Invariant == Spec => []Inv
<1> QED BY InitInv, StepInv, PTL DEF Spec

(* The variables stay in their types, the top of the stack and of every    *)
(* pool is an element that malloc returned and nobody freed, and the       *)
(* thread between lock and unlock, and no other, holds the mutex.          *)
THEOREM StackTypeCorrect == Spec => []TypeOK
<1>1. Inv => TypeOK
  <2> SUFFICES ASSUME Inv PROVE TypeOK
    OBVIOUS
  <2>1. Types
    BY DEF Inv
  <2>2. top \in allocated \cup {NULL}
    BY Apart, ListFacts DEF Inv, Lists
  <2>3. \A t \in Threads : pool[t] \in allocated \cup {NULL}
    BY Apart, ListFacts DEF Inv, Lists
  <2>4. pool \in [Threads -> allocated \cup {NULL}]
    BY <2>1, <2>3 DEF Types
  <2> QED BY <2>1, <2>2, <2>4 DEF Types, TypeOK, ThreadType, PcType
<1> QED BY <1>1, Invariant, PTL

(* Every allocated element is in exactly one place, and on a list once.    *)
THEOREM PlacesCorrect == Spec => []ElementsInOnePlace
<1>1. Inv => ElementsInOnePlace
  <2> SUFFICES ASSUME Inv PROVE ElementsInOnePlace
    OBVIOUS
  <2>1. \A p : Chain(p) = ChainOf(next, p) /\ Elements(p) = ElementsOf(next, p)
    BY DEF Chain, ChainOf, Elements, ElementsOf
  <2>2. /\ \A t \in Threads : Len(Chain(pool[t])) = Cardinality(Elements(pool[t]))
        /\ Len(Chain(top)) = Cardinality(Elements(top))
    BY <2>1, ListFacts DEF Inv, Lists
  <2>3. Partition(HeldNow, allocated) /\ \A place \in Places : HeldNow[place] = Held(place)
    BY DEF Inv, HeldNow
  <2>4. UNION {Held(place) : place \in Places} = allocated
    BY <2>3 DEF Partition
  <2>5. \A p1, p2 \in Places : p1 # p2 => Held(p1) \cap Held(p2) = {}
    BY <2>3 DEF Partition
  <2> QED BY <2>2, <2>4, <2>5 DEF ElementsInOnePlace
<1> QED BY <1>1, Invariant, PTL

-----------------------------------------------------------------------------
(* PendingOf, from the fields of the thread and the values buf. *)
Pending(pc, op, elem, val, buf) ==
  CASE pc = "idle" -> [op |-> "idle", val |-> None]
    [] op \in PushOps /\ pc # "idle" ->
         IF pc = "unlock" THEN [op |-> "done", val |-> None]
         ELSE [op |-> "push", val |-> val]
    [] op = "pop_safe" /\ pc # "idle" ->
         IF pc \in {"detach", "unlock"} THEN [op |-> "done", val |-> val]
         ELSE [op |-> "pop", val |-> None]
    [] op = "pop_safe_managed" /\ pc # "idle" ->
         IF pc \in {"detach", "unlock", "read"} /\ elem # NULL
         THEN [op |-> "done", val |-> buf[elem]]
         ELSE IF pc = "recycle" THEN [op |-> "done", val |-> val]
         ELSE [op |-> "pop", val |-> None]

(* Pending, case by case. *)
LEMMA PendingFacts ==
  ASSUME NEW pc, NEW op, NEW elem, NEW val, NEW buf
  PROVE  /\ Pending("idle", op, elem, val, buf) = [op |-> "idle", val |-> None]
         /\ pc # "idle" /\ op \in PushOps =>
              Pending(pc, op, elem, val, buf) =
                IF pc = "unlock" THEN [op |-> "done", val |-> None] ELSE [op |-> "push", val |-> val]
         /\ pc # "idle" /\ op = "pop_safe" =>
              Pending(pc, op, elem, val, buf) =
                IF pc \in {"detach", "unlock"} THEN [op |-> "done", val |-> val]
                ELSE [op |-> "pop", val |-> None]
         /\ pc # "idle" /\ op = "pop_safe_managed" =>
              Pending(pc, op, elem, val, buf) =
                IF pc \in {"detach", "unlock", "read"} /\ elem # NULL
                THEN [op |-> "done", val |-> buf[elem]]
                ELSE IF pc = "recycle" THEN [op |-> "done", val |-> val]
                ELSE [op |-> "pop", val |-> None]
<1>1. op \in PushOps => op # "pop_safe" /\ op # "pop_safe_managed"
  BY DEF PushOps
<1> QED BY <1>1 DEF Pending

(* PendingOf before a step ... *)
LEMMA PendingNow ==
  ASSUME NEW t
  PROVE  PendingOf(t) = Pending(thread[t].pc, thread[t].op, thread[t].elem, thread[t].val, buffer)
  BY DEF PendingOf, Pending

(* ... and after it. *)
LEMMA PendingNext ==
  ASSUME NEW t \in Threads, NEW pc, NEW op, NEW elem, NEW val, Moved(t, pc, op, elem, val)
  PROVE  PendingOf(t)' = Pending(pc, op, elem, val, buffer')
<1>1. /\ thread'[t].pc = pc /\ thread'[t].op = op
      /\ thread'[t].elem = elem /\ thread'[t].val = val
  BY DEF Moved
<1> QED BY <1>1 DEF PendingOf, Pending

(* A call in progress does not change while other threads step. *)
OthersKept(t) == \A u \in Threads : u # t => PendingOf(u)' = PendingOf(u)

(* It depends on the thread, and on the value of the element in its hands. *)
LEMMA OtherKept ==
  ASSUME NEW u, thread'[u] = thread[u],
         \A e \in PrivateElem(u) : buffer'[e] = buffer[e]
  PROVE  PendingOf(u)' = PendingOf(u)
<1>1. ASSUME thread[u].op = "pop_safe_managed", thread[u].pc \in {"detach", "unlock", "read"},
             thread[u].elem # NULL
      PROVE  buffer'[thread[u].elem] = buffer[thread[u].elem]
  <2>1. thread[u].elem \in PrivateElem(u)
    BY <1>1 DEF PrivateElem, Private
  <2> QED BY <2>1
<1>2. /\ thread'[u].pc = thread[u].pc /\ thread'[u].op = thread[u].op
      /\ thread'[u].elem = thread[u].elem /\ thread'[u].val = thread[u].val
  OBVIOUS
<1> QED BY <1>1, <1>2 DEF PendingOf, PushOps

(* No step writes the element in the hands of another thread: only Prepare *)
(* and Alloc write a value, in an element of the own pool and in a new     *)
(* one.                                                                    *)
LEMMA OthersKeptByStep ==
  ASSUME Inv, NEW t \in Threads,
         \/ Step(t)
         \/ \E op \in OpsOf(client) : CallPop(t, op) \/ \E v \in Value : CallPush(t, op, v)
  PROVE  OthersKept(t)
<1>1. Types /\ thread \in [Threads -> ThreadType] /\ buffer \in [Nodes -> Value]
  BY DEF Inv, Types
<1>2. ASSUME NEW u \in Threads, u # t PROVE thread'[u] = thread[u]
  BY <1>1, <1>2 DEF Step, CallPop, CallPush, Prepare, Lock, Alloc, Link, Publish, Peek, Take,
                    Advance, Detach, Unlock, Read, Recycle, Goto, GotoWith
<1>3. ASSUME NEW u \in Threads, u # t, NEW e \in PrivateElem(u) PROVE buffer'[e] = buffer[e]
  <2>1. e \in Nodes /\ e \in allocated /\ e \notin ElementsOf(next, pool[t])
    BY <1>1, <1>3, Apart DEF Inv, Types
  <2>2. CASE Prepare(t)
    <3>1. CASE pool[t] # NULL /\ buffer' = [buffer EXCEPT ![pool[t]] = thread[t].val]
      <4>1. pool[t] \in ElementsOf(next, pool[t])
        BY <3>1, ListFacts DEF Inv, Lists
      <4> QED BY <1>1, <2>1, <3>1, <4>1
    <3>2. ASSUME NEW n \in Nodes, NewElem(t, n) PROVE buffer'[e] = buffer[e]
      BY <1>1, <2>1, <3>2 DEF NewElem
    <3> QED BY <2>2, <3>1, <3>2 DEF Prepare
  <2>3. CASE Alloc(t)
    BY <1>1, <2>1, <2>3 DEF Alloc, NewElem
  <2>4. CASE ~Prepare(t) /\ ~Alloc(t)
    <3>1. buffer' = buffer
      BY <2>4 DEF Step, CallPop, CallPush, Lock, Link, Publish, Peek, Take,
                  Advance, Detach, Unlock, Read, Recycle
    <3> QED BY <3>1
  <2> QED BY <2>2, <2>3, <2>4
<1> QED BY <1>2, <1>3, OtherKept DEF OthersKept

(* The calls in progress after a step of thread t. *)
LEMMA PendingMoves ==
  ASSUME NEW t \in Threads, OthersKept(t), NEW rec, PendingOf(t)' = rec
  PROVE  [u \in Threads |-> PendingOf(u)]' = [[u \in Threads |-> PendingOf(u)] EXCEPT ![t] = rec]
  BY DEF OthersKept

(* The content of the stack: unchanged, with a new top, without its top.   *)
LEMMA ContentKept ==
  ASSUME Inv, StackKept
  PROVE  Values(Chain(top))' = Values(Chain(top))
<1> DEFINE s == ChainOf(next, top)
<1>1. Chain(top) = s /\ Chain(top)' = s
  BY DEF Chain, ChainOf, StackKept
<1>2. \A i \in 1 .. Len(s) : buffer'[s[i]] = buffer[s[i]]
  BY DEF StackKept, ElementsOf
<1> HIDE DEF s
<1>3. Values(Chain(top)) = [i \in 1 .. Len(s) |-> buffer[s[i]]]
  BY <1>1 DEF Values
<1>4. Values(Chain(top))' = [i \in 1 .. Len(s) |-> buffer'[s[i]]]
  BY <1>1 DEF Values
<1> QED BY <1>2, <1>3, <1>4

ValuesOf(buf, s) == [i \in 1 .. Len(s) |-> buf[s[i]]]

(* The values of a stack with one more element. *)
LEMMA ValuesCons ==
  ASSUME NEW buf, NEW e \in Nodes, NEW s \in Seq(Nodes), buf \in [Nodes -> Value]
  PROVE  /\ ValuesOf(buf, s) \in Seq(Value)
         /\ ValuesOf(buf, <<e>> \o s) = <<buf[e]>> \o ValuesOf(buf, s)
         /\ Head(ValuesOf(buf, <<e>> \o s)) = buf[e]
         /\ Tail(ValuesOf(buf, <<e>> \o s)) = ValuesOf(buf, s)
         /\ ValuesOf(buf, <<e>> \o s) # <<>>
<1> DEFINE w == <<e>> \o s
           vs == ValuesOf(buf, s)
           x == buf[e]
<1>1. /\ Len(w) = Len(s) + 1 /\ w \in Seq(Nodes) /\ Len(s) \in Nat
      /\ \A i \in 1 .. Len(w) : w[i] = IF i = 1 THEN e ELSE s[i - 1]
  OBVIOUS
<1>2. /\ \A i \in 1 .. Len(s) : s[i] \in Nodes
      /\ x \in Value
  OBVIOUS
<1>3. vs \in Seq(Value) /\ Len(vs) = Len(s) /\ \A i \in 1 .. Len(s) : vs[i] = buf[s[i]]
  <2>1. vs = [i \in 1 .. Len(s) |-> buf[s[i]]] /\ \A i \in 1 .. Len(s) : buf[s[i]] \in Value
    BY <1>2 DEF ValuesOf
  <2> HIDE DEF vs
  <2> QED BY <1>1, <2>1
<1>4. ValuesOf(buf, w) = [i \in 1 .. Len(w) |-> buf[w[i]]]
  BY DEF ValuesOf
<1> HIDE DEF w, vs, x
<1>5. <<x>> \o vs = [i \in 1 .. Len(w) |-> IF i = 1 THEN x ELSE vs[i - 1]]
  BY <1>1, <1>2, <1>3
<1>6. \A i \in 1 .. Len(w) : buf[w[i]] = IF i = 1 THEN x ELSE vs[i - 1]
  <2> TAKE i \in 1 .. Len(w)
  <2>1. i # 1 => i - 1 \in 1 .. Len(s)
    BY <1>1
  <2> QED BY <2>1, <1>1, <1>3 DEF x
<1>7. ValuesOf(buf, w) = <<x>> \o vs
  BY <1>4, <1>5, <1>6
<1>8. Head(<<x>> \o vs) = x /\ Tail(<<x>> \o vs) = vs /\ <<x>> \o vs # <<>>
  BY <1>2, <1>3
<1> QED BY <1>3, <1>7, <1>8 DEF w, vs, x

PendingNowAll == [u \in Threads |-> PendingOf(u)]

(* A step of the stack is one of the abstract stack's, or none.            *)
LEMMA Stutters ==
  ASSUME Inv, NEW t \in Threads, OthersKept(t), StackKept, PendingOf(t)' = PendingOf(t)
  PROVE  UNCHANGED LIFO!vars
<1>1. PendingNowAll' = PendingNowAll
  BY DEF OthersKept, PendingNowAll
<1> QED BY <1>1, ContentKept DEF LIFO!vars, PendingNowAll

(* A step that leaves the stack as it is and forgets a call that took      *)
(* effect.                                                                 *)
LEMMA Returns ==
  ASSUME Inv, NEW t \in Threads, OthersKept(t), StackKept,
         PendingOf(t).op = "done", PendingOf(t)' = [op |-> "idle", val |-> None]
  PROVE  LIFO!Return(t)
<1>1. PendingNowAll' = [PendingNowAll EXCEPT ![t] = [op |-> "idle", val |-> None]]
  BY PendingMoves DEF PendingNowAll
<1> QED BY <1>1, ContentKept DEF LIFO!Return, LIFO!Idle, PendingNowAll

(* A push starts. *)
LEMMA PushRefines ==
  ASSUME Inv, NEW t \in Threads, NEW op \in OpsOf(client), NEW v \in Value, CallPush(t, op, v)
  PROVE  LIFO!CallPush(t, v)
<1> DEFINE pc == IF op = "push_safe_managed" THEN "prepare" ELSE "lock"
<1>1. Types /\ op \in PushOps /\ thread[t].pc = "idle" /\ StackKept /\ OthersKept(t)
  BY CallPushStep, OthersKeptByStep DEF Inv, CallPush, At
<1>2. Moved(t, pc, op, NULL, v)
  <2>1. pc \in PcType
    BY DEF PcType
  <2>2. thread' = [thread EXCEPT ![t] = [pc |-> pc, op |-> op, elem |-> NULL, val |-> v]]
    BY DEF CallPush
  <2> HIDE DEF pc
  <2> QED BY <1>1, <2>1, <2>2, MovedTo
<1>3. pc # "idle" /\ pc # "unlock"
  OBVIOUS
<1> HIDE DEF pc
<1>4. PendingOf(t)' = [op |-> "push", val |-> v]
  BY <1>1, <1>2, <1>3, PendingNext, PendingFacts
<1>5. PendingOf(t) = [op |-> "idle", val |-> None]
  BY <1>1, PendingNow, PendingFacts
<1>6. PendingNowAll' = [PendingNowAll EXCEPT ![t] = [op |-> "push", val |-> v]]
  BY <1>1, <1>4, PendingMoves DEF PendingNowAll
<1> QED BY <1>1, <1>5, <1>6, ContentKept DEF LIFO!CallPush, LIFO!Idle, PendingNowAll

(* A pop starts. *)
LEMMA PopRefines ==
  ASSUME Inv, NEW t \in Threads, NEW op \in OpsOf(client), CallPop(t, op)
  PROVE  LIFO!CallPop(t)
<1>1. Types /\ op \in PopOps /\ thread[t].pc = "idle" /\ StackKept /\ OthersKept(t)
  BY CallPopStep, OthersKeptByStep DEF Inv, CallPop, At
<1>2. Moved(t, "lock", op, NULL, None)
  <2>1. "lock" \in PcType
    BY DEF PcType
  <2>2. thread' = [thread EXCEPT ![t] = [pc |-> "lock", op |-> op, elem |-> NULL, val |-> None]]
    BY DEF CallPop
  <2> QED BY <1>1, <2>1, <2>2, MovedTo
<1>3. PendingOf(t)' = [op |-> "pop", val |-> None]
  BY <1>1, <1>2, PendingNext, PendingFacts DEF PopOps
<1>4. PendingOf(t) = [op |-> "idle", val |-> None]
  BY <1>1, PendingNow, PendingFacts
<1>5. PendingNowAll' = [PendingNowAll EXCEPT ![t] = [op |-> "pop", val |-> None]]
  BY <1>1, <1>3, PendingMoves DEF PendingNowAll
<1> QED BY <1>1, <1>4, <1>5, ContentKept DEF LIFO!CallPop, LIFO!Idle, PendingNowAll

(* A push takes effect when s->top is set. *)
LEMMA PublishRefines ==
  ASSUME Inv, NEW t \in Threads, Publish(t)
  PROVE  LIFO!DoPush(t)
<1> DEFINE e == thread[t].elem
           s == ChainOf(next, top)
<1>1. /\ Types /\ Local(t) /\ thread[t].pc = "publish" /\ thread[t].op \in PushOps
      /\ e # NULL /\ buffer[e] = thread[t].val /\ OthersKept(t) /\ StackPushes(e)
  BY PublishStep, OthersKeptByStep DEF Inv, Publish, At, Local, Step
<1>2. Moved(t, "unlock", thread[t].op, e, thread[t].val)
  <2>1. "unlock" \in PcType /\ Goto(t, "unlock")
    BY DEF PcType, InLock, Publish
  <2> QED BY <1>1, <2>1, GotoMoves
<1>3. PendingOf(t) = [op |-> "push", val |-> thread[t].val]
  BY <1>1, PendingNow, PendingFacts
<1>4. PendingOf(t)' = [op |-> "done", val |-> None]
  BY <1>1, <1>2, PendingNext, PendingFacts
<1>5. PendingNowAll' = [PendingNowAll EXCEPT ![t] = [op |-> "done", val |-> None]]
  BY <1>1, <1>4, PendingMoves DEF PendingNowAll
<1>6. e \in Nodes /\ s \in Seq(Nodes) /\ buffer \in [Nodes -> Value]
  BY <1>1, ThreadFields, ListFacts DEF Types, Inv, Lists
<1>7. Chain(top)' = <<e>> \o s /\ Chain(top) = s /\ buffer' = buffer
  BY <1>1 DEF StackPushes, Chain, ChainOf
<1>8. Values(Chain(top)) = ValuesOf(buffer, s) /\ Values(Chain(top))' = ValuesOf(buffer, <<e>> \o s)
  BY <1>7 DEF Values, ValuesOf
<1> HIDE DEF s, e
<1>10. ValuesOf(buffer, <<e>> \o s) = <<buffer[e]>> \o ValuesOf(buffer, s)
  BY <1>6, ValuesCons
<1>9. Values(Chain(top))' = <<thread[t].val>> \o Values(Chain(top))
  BY <1>1, <1>8, <1>10
<1> QED BY <1>3, <1>5, <1>9 DEF LIFO!DoPush, PendingNowAll

(* A pop takes effect when s->top leaves its element. *)
LEMMA AdvanceRefines ==
  ASSUME Inv, NEW t \in Threads, Advance(t)
  PROVE  LIFO!DoPop(t)
<1> DEFINE s == ChainOf(next', top')
<1>1. /\ Types /\ Local(t) /\ thread[t].pc = "advance" /\ thread[t].op \in PopOps
      /\ top # NULL /\ thread[t].elem = top /\ (thread[t].op = "pop_safe" => thread[t].val = buffer[top])
      /\ OthersKept(t) /\ StackPops /\ Inv'
  BY AdvanceStep, OthersKeptByStep DEF Inv, Advance, At, Local, Step
<1>2. Moved(t, "detach", thread[t].op, top, thread[t].val)
  <2>1. "detach" \in PcType /\ Goto(t, "detach")
    BY DEF PcType, InLock, Advance
  <2> QED BY <1>1, <2>1, GotoMoves
<1>3. PendingOf(t) = [op |-> "pop", val |-> None]
  BY <1>1, PendingNow, PendingFacts DEF PopOps
<1>4. PendingOf(t)' = [op |-> "done", val |-> buffer[top]]
  <2>1. buffer' = buffer
    BY <1>1 DEF StackPops
  <2>2. PendingOf(t)' = Pending("detach", thread[t].op, top, thread[t].val, buffer)
    BY <1>2, <2>1, PendingNext
  <2> QED BY <1>1, <2>2, PendingFacts DEF PopOps
<1>5. PendingNowAll' = [PendingNowAll EXCEPT ![t] = [op |-> "done", val |-> buffer[top]]]
  BY <1>1, <1>4, PendingMoves DEF PendingNowAll
<1>6. top \in Nodes /\ s \in Seq(Nodes) /\ buffer \in [Nodes -> Value]
  <2>1. WellLinked(next', top')
    BY <1>1 DEF Inv, Lists
  <2> QED BY <1>1, <2>1, ListFacts DEF Types
<1>7. Chain(top)' = s /\ Chain(top) = <<top>> \o s /\ buffer' = buffer
  BY <1>1 DEF StackPops, Chain, ChainOf
<1>8. Values(Chain(top)) = ValuesOf(buffer, <<top>> \o s) /\ Values(Chain(top))' = ValuesOf(buffer, s)
  BY <1>7 DEF Values, ValuesOf
<1> HIDE DEF s
<1>9. /\ Values(Chain(top)) # <<>>
      /\ Values(Chain(top))' = Tail(Values(Chain(top)))
      /\ Head(Values(Chain(top))) = buffer[top]
  BY ZenonT(60), <1>6, <1>8, ValuesCons
<1>10. PendingNowAll' = [PendingNowAll EXCEPT ![t] = [op |-> "done", val |-> Head(Values(Chain(top)))]]
  BY <1>5, <1>9, Zenon
<1>11. PendingNowAll[t].op = "pop"
  BY <1>3 DEF PendingNowAll
<1> QED BY <1>9, <1>10, <1>11, Zenon DEF LIFO!DoPop, PendingNowAll

(* A peek at an empty stack is where pop_safe finds it empty. *)
LEMMA PeekRefines ==
  ASSUME Inv, NEW t \in Threads, Peek(t)
  PROVE  LIFO!DoPop(t) \/ UNCHANGED LIFO!vars
<1>1. /\ Types /\ Local(t) /\ thread[t].pc = "peek" /\ thread[t].op = "pop_safe"
      /\ thread[t].elem = NULL /\ thread[t].val = None /\ StackKept /\ OthersKept(t)
  BY PeekStep, OthersKeptByStep DEF Inv, Peek, At, Local, PopOps, Step
<1>2. PendingOf(t) = [op |-> "pop", val |-> None]
  BY <1>1, PendingNow, PendingFacts
<1>3. CASE top = NULL /\ Goto(t, "unlock")
  <2>1. Moved(t, "unlock", thread[t].op, thread[t].elem, thread[t].val)
    <3>1. "unlock" \in PcType
      BY DEF PcType, InLock
    <3> QED BY <1>1, <1>3, <3>1, GotoMoves
  <2>2. PendingOf(t)' = [op |-> "done", val |-> None]
    BY <1>1, <2>1, PendingNext, PendingFacts
  <2>3. PendingNowAll' = [PendingNowAll EXCEPT ![t] = [op |-> "done", val |-> None]]
    BY <1>1, <2>2, PendingMoves DEF PendingNowAll
  <2>4. Chain(top) = <<>>
    BY <1>3, EmptyList DEF Chain, ChainOf
  <2>5. Values(Chain(top)) = <<>>
    BY <2>4 DEF Values
  <2>6. Values(Chain(top))' = Values(Chain(top))
    BY <1>1, ContentKept
  <2> QED BY <1>2, <2>3, <2>5, <2>6 DEF LIFO!DoPop, PendingNowAll
<1>4. CASE top # NULL /\ GotoWith(t, "take", NULL, buffer[top])
  <2>1. Moved(t, "take", thread[t].op, NULL, buffer[top])
    <3>1. "take" \in PcType /\ NULL \in Nodes \cup {NULL} /\ buffer[top] \in Value \cup {None}
      BY <1>1, <1>4 DEF PcType, InLock, Types
    <3> QED BY <1>1, <1>4, <3>1, GotoWithMoves
  <2>2. PendingOf(t)' = [op |-> "pop", val |-> None]
    BY <1>1, <2>1, PendingNext, PendingFacts
  <2> QED BY <1>1, <1>2, <2>2, Stutters
<1> QED BY <1>3, <1>4 DEF Peek

(* Getting an element is not seen ... *)
LEMMA PrepareRefines ==
  ASSUME Inv, NEW t \in Threads, Prepare(t)
  PROVE  UNCHANGED LIFO!vars
<1>1. /\ Types /\ thread[t].pc = "prepare" /\ thread[t].op = "push_safe_managed"
      /\ thread[t].op \in PushOps /\ StackKept /\ OthersKept(t)
  BY PrepareStep, OthersKeptByStep DEF Inv, Prepare, At, Local, PushOps, Step
<1>2. PICK elem : GotoWith(t, "lock", elem, thread[t].val)
  BY DEF Prepare
<1>3. /\ thread'[t].pc = "lock" /\ thread'[t].op = thread[t].op /\ thread'[t].val = thread[t].val
  BY <1>1, <1>2 DEF GotoWith, Types, ThreadType
<1>4. PendingOf(t)' = [op |-> "push", val |-> thread[t].val]
  BY <1>1, <1>3 DEF PendingOf
<1>5. PendingOf(t) = [op |-> "push", val |-> thread[t].val]
  BY <1>1, PendingNow, PendingFacts
<1> QED BY <1>1, <1>4, <1>5, Stutters

(* ... wherever it comes from. *)
LEMMA AllocRefines ==
  ASSUME Inv, NEW t \in Threads, Alloc(t)
  PROVE  UNCHANGED LIFO!vars
<1>1. /\ Types /\ thread[t].pc = "alloc" /\ thread[t].op = "push_safe"
      /\ thread[t].op \in PushOps /\ StackKept /\ OthersKept(t)
  BY AllocStep, OthersKeptByStep DEF Inv, Alloc, At, Local, PushOps, Step
<1>2. PICK elem : GotoWith(t, "link", elem, thread[t].val)
  BY DEF Alloc
<1>3. /\ thread'[t].pc = "link" /\ thread'[t].op = thread[t].op /\ thread'[t].val = thread[t].val
  BY <1>1, <1>2 DEF GotoWith, Types, ThreadType
<1>4. PendingOf(t)' = [op |-> "push", val |-> thread[t].val]
  BY <1>1, <1>3 DEF PendingOf
<1>5. PendingOf(t) = [op |-> "push", val |-> thread[t].val]
  BY <1>1, PendingNow, PendingFacts
<1> QED BY <1>1, <1>4, <1>5, Stutters

(* Nor is the mutex. *)
LEMMA LockRefines ==
  ASSUME Inv, NEW t \in Threads, Lock(t)
  PROVE  UNCHANGED LIFO!vars
<1> DEFINE pc == FirstLocked(thread[t].op)
<1>1. /\ Types /\ thread[t].pc = "lock" /\ thread[t].op \in PushOps \cup PopOps
      /\ StackKept /\ OthersKept(t)
  BY LockStep, OthersKeptByStep, OpsAre DEF Inv, Lock, At, Local, Step
<1>2. pc \in {"alloc", "link", "peek", "take"}
  BY <1>1 DEF FirstLocked, PushOps, PopOps
<1>3. Moved(t, pc, thread[t].op, thread[t].elem, thread[t].val)
  <2>1. pc \in PcType
    BY <1>2 DEF PcType, InLock
  <2>2. Goto(t, pc)
    BY DEF Lock
  <2> HIDE DEF pc
  <2> QED BY <1>1, <2>1, <2>2, GotoMoves
<1> HIDE DEF pc
<1>4. PendingOf(t)' = PendingOf(t)
  <2>1. pc \notin {"idle", "unlock", "detach", "read", "recycle"}
    BY <1>2
  <2> QED BY <2>1, <1>1, <1>3, PendingNow, PendingNext, PendingFacts DEF PopOps
<1> QED BY <1>1, <1>4, Stutters

(* Nor is an element that is linked and not yet published. *)
LEMMA LinkRefines ==
  ASSUME Inv, NEW t \in Threads, Link(t)
  PROVE  UNCHANGED LIFO!vars
<1>1. /\ Types /\ thread[t].pc = "link" /\ thread[t].op \in PushOps
      /\ StackKept /\ OthersKept(t)
  BY LinkStep, OthersKeptByStep DEF Inv, Link, At, Local, Step
<1>2. Moved(t, "publish", thread[t].op, thread[t].elem, thread[t].val)
  <2>1. "publish" \in PcType /\ Goto(t, "publish")
    BY DEF PcType, InLock, Link
  <2> QED BY <1>1, <2>1, GotoMoves
<1>3. PendingOf(t)' = PendingOf(t)
  BY <1>1, <1>2, PendingNow, PendingNext, PendingFacts
<1> QED BY <1>1, <1>3, Stutters

(* A managed pop that finds the stack empty takes no effect: it goes on    *)
(* without an element.                                                     *)
LEMMA TakeRefines ==
  ASSUME Inv, NEW t \in Threads, Take(t)
  PROVE  UNCHANGED LIFO!vars
<1>1. /\ Types /\ thread[t].pc = "take" /\ thread[t].op \in PopOps /\ thread[t].elem = NULL
      /\ (thread[t].op = "pop_safe" => top # NULL)
      /\ StackKept /\ OthersKept(t)
  BY TakeStep, OthersKeptByStep DEF Inv, Take, At, Local, Step
<1>2. PICK pc, elem :
        /\ thread'[t].pc = pc /\ thread'[t].op = thread[t].op /\ thread'[t].elem = elem
        /\ pc = "advance" \/ (pc = "unlock" /\ elem = NULL /\ top = NULL)
  <2>1. CASE top = NULL /\ Goto(t, "unlock")
    BY <1>1, <2>1 DEF Goto, Types, ThreadType
  <2>2. CASE top # NULL /\ GotoWith(t, "advance", top, thread[t].val)
    BY <1>1, <2>2 DEF GotoWith, Types, ThreadType
  <2> QED BY <2>1, <2>2 DEF Take
<1>3. PendingOf(t)' = [op |-> "pop", val |-> None]
  BY <1>1, <1>2 DEF PendingOf, PopOps, PushOps
<1>4. PendingOf(t) = [op |-> "pop", val |-> None]
  BY <1>1, PendingNow, PendingFacts DEF PopOps
<1> QED BY <1>1, <1>3, <1>4, Stutters

(* A pop that took effect unlinks its element. *)
LEMMA DetachRefines ==
  ASSUME Inv, NEW t \in Threads, Detach(t)
  PROVE  UNCHANGED LIFO!vars
<1>1. /\ Types /\ thread[t].pc = "detach" /\ thread[t].op \in PopOps /\ thread[t].elem # NULL
      /\ StackKept /\ OthersKept(t) /\ buffer' = buffer
  BY DetachStep, OthersKeptByStep DEF Inv, Detach, At, Local, Step
<1>2. Moved(t, "unlock", thread[t].op, thread[t].elem, thread[t].val)
  <2>1. "unlock" \in PcType /\ Goto(t, "unlock")
    BY DEF PcType, InLock, Detach
  <2> QED BY <1>1, <2>1, GotoMoves
<1>3. PendingOf(t)' = PendingOf(t)
  BY <1>1, <1>2, PendingNow, PendingNext, PendingFacts DEF PopOps
<1> QED BY <1>1, <1>3, Stutters

(* The mutex is released: all but pop_safe_managed return. *)
LEMMA UnlockRefines ==
  ASSUME Inv, NEW t \in Threads, Unlock(t)
  PROVE  LIFO!Return(t) \/ UNCHANGED LIFO!vars
<1>1. /\ Types /\ thread[t].pc = "unlock" /\ thread[t].op \in PushOps \cup PopOps
      /\ StackKept /\ OthersKept(t) /\ buffer' = buffer
  BY UnlockStep, OthersKeptByStep, OpsAre DEF Inv, Unlock, At, Local, Step
<1>2. CASE thread[t].op = "pop_safe_managed"
  <2>1. Moved(t, "read", thread[t].op, thread[t].elem, thread[t].val)
    <3>1. "read" \in PcType /\ Goto(t, "read")
      BY <1>2 DEF PcType, Unlock, Goto
    <3> QED BY <1>1, <3>1, GotoMoves
  <2>2. PendingOf(t)' = PendingOf(t)
    BY <1>1, <1>2, <2>1, PendingNow, PendingNext, PendingFacts
  <2> QED BY <1>1, <2>2, Stutters
<1>3. CASE thread[t].op # "pop_safe_managed"
  <2>1. Moved(t, "idle", "none", NULL, None)
    <3>1. thread' = [thread EXCEPT ![t] = [pc |-> "idle", op |-> "none", elem |-> NULL, val |-> None]]
      BY <1>3 DEF Unlock, Idle
    <3>2. "idle" \in PcType
      BY DEF PcType
    <3> QED BY <1>1, <3>1, <3>2, MovedTo
  <2>2. PendingOf(t)' = [op |-> "idle", val |-> None]
    BY <2>1, PendingNext, PendingFacts
  <2>3. PendingOf(t).op = "done"
    BY <1>1, <1>3, PendingNow, PendingFacts DEF PopOps
  <2> QED BY <1>1, <2>2, <2>3, Returns
<1> QED BY <1>2, <1>3

(* pop_safe_managed reads, without the mutex, the value its element had    *)
(* inside it.                                                              *)
LEMMA ReadRefines ==
  ASSUME Inv, NEW t \in Threads, Read(t)
  PROVE  UNCHANGED LIFO!vars
<1>1. /\ Types /\ thread[t].pc = "read" /\ thread[t].op = "pop_safe_managed"
      /\ StackKept /\ OthersKept(t)
  BY ReadStep, OthersKeptByStep DEF Inv, Read, At, Local, Step
<1>2. CASE thread[t].elem = NULL
  <2>1. Moved(t, "crashed", thread[t].op, thread[t].elem, thread[t].val)
    <3>1. "crashed" \in PcType /\ Goto(t, "crashed")
      BY <1>2 DEF PcType, Read
    <3> QED BY <1>1, <3>1, GotoMoves
  <2>2. PendingOf(t)' = PendingOf(t)
    BY <1>1, <1>2, <2>1, PendingNow, PendingNext, PendingFacts
  <2> QED BY <1>1, <2>2, Stutters
<1>3. CASE thread[t].elem # NULL
  <2>1. Moved(t, "recycle", thread[t].op, thread[t].elem, buffer[thread[t].elem])
    <3>1. "recycle" \in PcType /\ GotoWith(t, "recycle", thread[t].elem, buffer[thread[t].elem])
      BY <1>3 DEF PcType, Read
    <3>2. thread[t].elem \in Nodes
      BY <1>1, <1>3, ThreadFields
    <3>3. thread[t].elem \in Nodes \cup {NULL} /\ buffer[thread[t].elem] \in Value \cup {None}
      BY <1>1, <3>2 DEF Types
    <3> QED BY <1>1, <3>1, <3>3, GotoWithMoves
  <2>2. PendingOf(t)' = PendingOf(t)
    BY <1>1, <1>3, <2>1, PendingNow, PendingNext, PendingFacts
  <2> QED BY <1>1, <2>2, Stutters
<1> QED BY <1>2, <1>3

(* pop_safe_managed returns. *)
LEMMA RecycleRefines ==
  ASSUME Inv, NEW t \in Threads, Recycle(t)
  PROVE  LIFO!Return(t)
<1>1. /\ Types /\ thread[t].pc = "recycle" /\ thread[t].op = "pop_safe_managed"
      /\ StackKept /\ OthersKept(t)
  BY RecycleStep, OthersKeptByStep DEF Inv, Recycle, At, Local, Step
<1>2. Moved(t, "idle", "none", NULL, None)
  <2>1. thread' = [thread EXCEPT ![t] = [pc |-> "idle", op |-> "none", elem |-> NULL, val |-> None]]
    BY DEF Recycle, Idle
  <2>2. "idle" \in PcType
    BY DEF PcType
  <2> QED BY <1>1, <2>1, <2>2, MovedTo
<1>3. PendingOf(t)' = [op |-> "idle", val |-> None]
  BY <1>2, PendingNext, PendingFacts
<1>4. PendingOf(t).op = "done"
  BY <1>1, PendingNow, PendingFacts
<1> QED BY <1>1, <1>3, <1>4, Returns

(* push_safe, push_safe_managed, pop_safe and pop_safe_managed are those   *)
(* of a last-in first-out stack: every call takes effect at one instant    *)
(* between its start and its return, a push when it sets s->top, a pop     *)
(* when s->top leaves its element or, for pop_safe, is read as NULL.       *)
THEOREM StackRefines == Spec => ImplementsStack
<1>1. Init => LIFO!Init
  <2> SUFFICES ASSUME Init PROVE LIFO!Init
    OBVIOUS
  <2>1. Chain(top) = <<>>
    BY EmptyList DEF Init, Chain, ChainOf
  <2>2. Values(Chain(top)) = <<>>
    BY <2>1 DEF Values
  <2>3. \A t \in Threads : PendingOf(t) = [op |-> "idle", val |-> None]
    BY PendingNow, PendingFacts DEF Init, Idle
  <2> QED BY <2>2, <2>3 DEF LIFO!Init, LIFO!Idle
<1>2. Inv /\ [Next]_vars => [LIFO!Next]_(LIFO!vars)
  <2> SUFFICES ASSUME Inv, [Next]_vars PROVE LIFO!Next \/ UNCHANGED LIFO!vars
    OBVIOUS
  <2>1. ASSUME NEW t \in Threads, Step(t) PROVE LIFO!Next \/ UNCHANGED LIFO!vars
    <3>1. CASE Prepare(t) BY <3>1, PrepareRefines
    <3>2. CASE Lock(t) BY <3>2, LockRefines
    <3>3. CASE Alloc(t) BY <3>3, AllocRefines
    <3>4. CASE Link(t) BY <3>4, LinkRefines
    <3>5. CASE Publish(t) BY <3>5, PublishRefines DEF LIFO!Next
    <3>6. CASE Peek(t) BY <3>6, PeekRefines DEF LIFO!Next
    <3>7. CASE Take(t) BY <3>7, TakeRefines
    <3>8. CASE Advance(t) BY <3>8, AdvanceRefines DEF LIFO!Next
    <3>9. CASE Detach(t) BY <3>9, DetachRefines
    <3>10. CASE Unlock(t) BY <3>10, UnlockRefines DEF LIFO!Next
    <3>11. CASE Read(t) BY <3>11, ReadRefines
    <3>12. CASE Recycle(t) BY <3>12, RecycleRefines DEF LIFO!Next
    <3> QED BY <2>1, <3>1, <3>2, <3>3, <3>4, <3>5, <3>6, <3>7, <3>8, <3>9, <3>10, <3>11, <3>12 DEF Step
  <2>2. ASSUME NEW t \in Threads, NEW op \in OpsOf(client), CallPop(t, op) PROVE LIFO!Next
    BY <2>2, PopRefines DEF LIFO!Next
  <2>3. ASSUME NEW t \in Threads, NEW op \in OpsOf(client), NEW v \in Value, CallPush(t, op, v)
        PROVE  LIFO!Next
    BY <2>3, PushRefines DEF LIFO!Next
  <2>4. CASE UNCHANGED vars
    <3>1. \A u : PendingOf(u)' = PendingOf(u)
      BY <2>4 DEF vars, PendingOf
    <3>2. StackKept
      BY <2>4 DEF vars, StackKept
    <3> QED BY <3>1, <3>2, ContentKept DEF LIFO!vars
  <2> QED BY <2>1, <2>2, <2>3, <2>4 DEF Next
<1> QED BY <1>1, <1>2, Invariant, PTL DEF Spec, ImplementsStack, LIFO!Spec

-----------------------------------------------------------------------------
(* A thread that calls a pop only when it has pushed more than it popped   *)
(* finds an element: the elements on the stack are as many as the threads  *)
(* are owed, and a thread inside a pop is owed one.                        *)
Pushing(t) == thread[t].op \in PushOps /\ thread[t].pc \in {"prepare", "lock", "alloc", "link", "publish"}
Popping(t) == thread[t].op \in PopOps /\ thread[t].pc \in {"lock", "peek", "take", "advance"}
Popped(t) == thread[t].op \in PopOps /\ thread[t].pc \in {"detach", "unlock", "read", "recycle"}

(* What t pushed on the stack less what it took from it. *)
Credit(t) == balance[t] + (IF Popping(t) THEN 1 ELSE 0) - (IF Pushing(t) THEN 1 ELSE 0)
Credits == [t \in Threads |-> Credit(t)]
Owed(credits) == {c \in Threads \X Nat : 1 <= c[2] /\ c[2] <= credits[c[1]]}

Accounts ==
  /\ \A t \in Threads : /\ Pushing(t) => balance[t] >= 1
                        /\ Popped(t) => thread[t].elem # NULL
                        /\ thread[t].pc # "crashed"
  /\ IsFiniteSet(Owed(Credits))
  /\ Cardinality(Owed(Credits)) = Cardinality(ElementsOf(next, top))

ManagedInv == Inv /\ client = "managed" /\ Accounts

(* One credit more is one more element owed. *)
LEMMA OneMoreOwed ==
  ASSUME NEW c, NEW d, NEW t \in Threads, c[t] \in Nat, d[t] = c[t] + 1,
         \A u \in Threads : u # t => d[u] = c[u]
  PROVE  Owed(d) = Owed(c) \cup {<<t, c[t] + 1>>} /\ <<t, c[t] + 1>> \notin Owed(c)
<1>1. <<t, c[t] + 1>> \notin Owed(c)
  BY DEF Owed
<1>2. ASSUME NEW u \in Threads, NEW i \in Nat
      PROVE  <<u, i>> \in Owed(d) <=> <<u, i>> \in Owed(c) \/ <<u, i>> = <<t, c[t] + 1>>
  <2>1. /\ <<u, i>> \in Owed(d) <=> 1 <= i /\ i <= d[u]
        /\ <<u, i>> \in Owed(c) <=> 1 <= i /\ i <= c[u]
    BY DEF Owed
  <2>2. CASE u = t
    BY <2>1, <2>2
  <2>3. CASE u # t
    BY <2>1, <2>3
  <2> QED BY <2>2, <2>3
<1>3. c[t] + 1 \in Nat
  OBVIOUS
<1>4. Owed(c) \subseteq Threads \X Nat /\ Owed(d) \subseteq Threads \X Nat
  BY DEF Owed
<1>5. Owed(c) \cup {<<t, c[t] + 1>>} \subseteq Threads \X Nat
  BY <1>3, <1>4
<1> QED BY <1>1, <1>2, <1>3, <1>4, <1>5

(* Inside a pop, as long as it has not taken its element, the stack is not *)
(* empty.                                                                  *)
LEMMA PopFindsAnElement ==
  ASSUME ManagedInv, NEW t \in Threads, Popping(t)
  PROVE  top # NULL
<1>1. Credit(t) >= 1
  BY DEF ManagedInv, Inv, Types, Credit, Popping, Pushing, PushOps, PopOps
<1>2. <<t, 1>> \in Owed(Credits)
  <2>1. Credits[t] = Credit(t)
    BY DEF Credits
  <2> QED BY <1>1, <2>1 DEF Owed
<1>3. Cardinality(ElementsOf(next, top)) # 0
  BY <1>2, FS_EmptySet DEF ManagedInv, Accounts
<1> QED BY <1>3, EmptyList, FS_EmptySet

(* What a step of t does to the fields of the threads. *)
Hand(t, pc, op, elem) ==
  /\ thread'[t].pc = pc /\ thread'[t].op = op /\ thread'[t].elem = elem
  /\ \A u \in Threads : u # t => thread'[u] = thread[u]

(* What the accounts say of the other threads stays. *)
LEMMA Others ==
  ASSUME NEW t \in Threads, NEW pc, NEW op, NEW elem, Hand(t, pc, op, elem),
         \A u \in Threads : u # t => balance'[u] = balance[u], Accounts,
         NEW u \in Threads, u # t
  PROVE  /\ (Pushing(u) => balance[u] >= 1)' /\ (Popped(u) => thread[u].elem # NULL)'
         /\ thread'[u].pc # "crashed"
         /\ Credit(u)' = Credit(u)
<1>1. thread'[u] = thread[u] /\ balance'[u] = balance[u]
  BY DEF Hand
<1> QED BY <1>1 DEF Accounts, Pushing, Popped, Popping, Credit

(* A step that leaves the stack and the account of its thread as they are. *)
LEMMA AccountsKept ==
  ASSUME ManagedInv, NEW t \in Threads, NEW pc, NEW op, NEW elem, Hand(t, pc, op, elem),
         \A u \in Threads : u # t => balance'[u] = balance[u],
         client' = client, Inv', StackKept,
         Credit(t)' = Credit(t), (Pushing(t) => balance[t] >= 1)',
         (Popped(t) => thread[t].elem # NULL)', pc # "crashed"
  PROVE  ManagedInv'
<1>1. Credits' = Credits
  BY Others DEF Credits, ManagedInv
<1>2. Owed(Credits)' = Owed(Credits)
  BY <1>1 DEF Owed
<1>3. ElementsOf(next, top)' = ElementsOf(next, top)
  BY DEF ElementsOf, StackKept
<1>4. \A u \in Threads : /\ (Pushing(u) => balance[u] >= 1)' /\ (Popped(u) => thread[u].elem # NULL)'
                         /\ thread'[u].pc # "crashed"
  BY Others DEF ManagedInv, Hand
<1> QED BY <1>2, <1>3, <1>4 DEF ManagedInv, Accounts

(* A push starts: what is counted as pushed is not yet on the stack. *)
LEMMA ManagedPush ==
  ASSUME ManagedInv, NEW t \in Threads, NEW op \in OpsOf(client), NEW v \in Value, CallPush(t, op, v)
  PROVE  ManagedInv'
<1> DEFINE pc == IF op = "push_safe_managed" THEN "prepare" ELSE "lock"
<1>1. /\ Inv' /\ StackKept /\ thread[t].pc = "idle" /\ op \in PushOps /\ client' = client
      /\ balance \in [Threads -> Nat] /\ balance' = [balance EXCEPT ![t] = @ + 1]
      /\ thread \in [Threads -> ThreadType]
  BY CallPushStep DEF ManagedInv, CallPush, At, Disciplined, Inv, Types
<1>2. Hand(t, pc, op, NULL)
  BY <1>1 DEF Hand, CallPush
<1>3. balance'[t] = balance[t] + 1 /\ \A u \in Threads : u # t => balance'[u] = balance[u]
  BY <1>1
<1>4. Pushing(t)' /\ ~Popping(t)' /\ ~Popped(t)' /\ pc # "crashed"
  BY <1>1, <1>2 DEF Hand, Pushing, Popping, Popped, PushOps, PopOps
<1>5. ~Pushing(t) /\ ~Popping(t)
  BY <1>1 DEF Pushing, Popping
<1>6. Credit(t)' = Credit(t) /\ (Pushing(t) => balance[t] >= 1)'
  BY <1>1, <1>3, <1>4, <1>5 DEF Credit
<1> HIDE DEF pc
<1> QED BY <1>1, <1>2, <1>3, <1>4, <1>6, AccountsKept

(* A pop starts: what is counted as popped is still on the stack. *)
LEMMA ManagedPop ==
  ASSUME ManagedInv, NEW t \in Threads, NEW op \in OpsOf(client), CallPop(t, op)
  PROVE  ManagedInv'
<1>1. /\ Inv' /\ StackKept /\ thread[t].pc = "idle" /\ op \in PopOps /\ client' = client
      /\ balance \in [Threads -> Nat] /\ balance' = [balance EXCEPT ![t] = @ - 1]
      /\ thread \in [Threads -> ThreadType]
  BY CallPopStep DEF ManagedInv, CallPop, At, Disciplined, Inv, Types
<1>2. Hand(t, "lock", op, NULL)
  BY <1>1 DEF Hand, CallPop
<1>3. balance'[t] = balance[t] - 1 /\ \A u \in Threads : u # t => balance'[u] = balance[u]
  BY <1>1
<1>4. ~Pushing(t)' /\ Popping(t)' /\ ~Popped(t)'
  BY <1>1, <1>2 DEF Hand, Pushing, Popping, Popped, PushOps, PopOps
<1>5. ~Pushing(t) /\ ~Popping(t)
  BY <1>1 DEF Pushing, Popping
<1>6. Credit(t)' = Credit(t)
  BY <1>1, <1>3, <1>4, <1>5 DEF Credit
<1> QED BY <1>1, <1>2, <1>3, <1>4, <1>6, AccountsKept

(* Inside a call the account of the thread stays, but in Publish and Advance. *)
LEMMA InsideKept ==
  ASSUME ManagedInv, NEW t \in Threads, NEW pc, NEW elem, Hand(t, pc, thread[t].op, elem),
         balance' = balance, client' = client, Inv', StackKept,
         thread[t].op \in PushOps => (Pushing(t)' <=> Pushing(t)),
         thread[t].op \in PopOps => (Popping(t)' <=> Popping(t)),
         (Popped(t) => thread[t].elem # NULL)', pc # "crashed"
  PROVE  ManagedInv'
<1>1. Pushing(t)' <=> Pushing(t)
  BY DEF Hand, Pushing
<1>2. Popping(t)' <=> Popping(t)
  BY DEF Hand, Popping
<1>3. Credit(t)' = Credit(t) /\ (Pushing(t) => balance[t] >= 1)'
  BY <1>1, <1>2 DEF Credit, ManagedInv, Accounts
<1> QED BY <1>3, AccountsKept

(* Before Publish. *)
LEMMA ManagedPushing ==
  ASSUME ManagedInv, NEW t \in Threads, Prepare(t) \/ Alloc(t) \/ Link(t)
  PROVE  ManagedInv'
<1>1. Inv' /\ StackKept /\ thread[t].op \in PushOps /\ thread[t].pc \in {"prepare", "alloc", "link"}
  BY PrepareStep, AllocStep, LinkStep DEF ManagedInv, Inv, Prepare, Alloc, Link, At, Local, PushOps
<1>2. balance' = balance /\ client' = client /\ thread \in [Threads -> ThreadType]
  BY DEF Prepare, Alloc, Link, ManagedInv, Inv, Types
<1>3. PICK pc, elem : Hand(t, pc, thread[t].op, elem) /\ pc \in {"lock", "link", "publish"}
  <2>1. CASE Prepare(t)
    <3>1. PICK elem : GotoWith(t, "lock", elem, thread[t].val)
      BY <2>1 DEF Prepare
    <3>2. Hand(t, "lock", thread[t].op, elem)
      BY <3>1, <1>2 DEF GotoWith, Hand, ThreadType
    <3> QED BY <3>2
  <2>2. CASE Alloc(t)
    <3>1. PICK elem : GotoWith(t, "link", elem, thread[t].val)
      BY <2>2 DEF Alloc
    <3>2. Hand(t, "link", thread[t].op, elem)
      BY <3>1, <1>2 DEF GotoWith, Hand, ThreadType
    <3> QED BY <3>2
  <2>3. CASE Link(t)
    <3>1. Hand(t, "publish", thread[t].op, thread[t].elem)
      BY <2>3, <1>2 DEF Link, Goto, Hand, ThreadType
    <3> QED BY <3>1
  <2> QED BY <2>1, <2>2, <2>3
<1>4. Pushing(t) /\ Pushing(t)' /\ ~Popped(t)' /\ thread[t].op \notin PopOps
  BY <1>1, <1>3 DEF Hand, Pushing, Popped, PushOps, PopOps
<1> QED BY <1>1, <1>2, <1>3, <1>4, InsideKept

(* The mutex is taken. *)
LEMMA ManagedLock ==
  ASSUME ManagedInv, NEW t \in Threads, Lock(t)
  PROVE  ManagedInv'
<1> DEFINE pc == FirstLocked(thread[t].op)
<1>1. /\ Inv' /\ StackKept /\ thread[t].op \in PushOps \cup PopOps /\ thread[t].pc = "lock"
      /\ balance' = balance /\ client' = client /\ thread \in [Threads -> ThreadType]
  BY LockStep, OpsAre DEF ManagedInv, Inv, Types, Lock, At, Local
<1>2. /\ thread[t].op \in PushOps => pc \in {"alloc", "link"}
      /\ thread[t].op \in PopOps => pc \in {"peek", "take"}
  BY DEF FirstLocked, PushOps, PopOps
<1>3. Hand(t, pc, thread[t].op, thread[t].elem)
  BY <1>1 DEF Lock, Goto, Hand, ThreadType
<1> HIDE DEF pc
<1>4. /\ thread[t].op \in PushOps => Pushing(t) /\ Pushing(t)'
      /\ thread[t].op \in PopOps => Popping(t) /\ Popping(t)'
      /\ ~Popped(t)' /\ pc # "crashed"
  BY <1>1, <1>2, <1>3 DEF Hand, Pushing, Popping, Popped
<1> QED BY <1>1, <1>3, <1>4, InsideKept

(* Before Advance, a pop finds an element. *)
LEMMA ManagedPopping ==
  ASSUME ManagedInv, NEW t \in Threads, Peek(t) \/ Take(t)
  PROVE  ManagedInv'
<1>1. Inv' /\ StackKept /\ thread[t].op \in PopOps /\ thread[t].pc \in {"peek", "take"}
  BY PeekStep, TakeStep DEF ManagedInv, Inv, Peek, Take, At, Local, PopOps
<1>2. balance' = balance /\ client' = client /\ thread \in [Threads -> ThreadType]
  BY DEF Peek, Take, ManagedInv, Inv, Types
<1>3. Popping(t) /\ top # NULL
  <2>1. Popping(t)
    BY <1>1 DEF Popping
  <2> QED BY <2>1, PopFindsAnElement
<1>4. PICK pc, elem : Hand(t, pc, thread[t].op, elem) /\ pc \in {"take", "advance"}
  <2>1. CASE Peek(t)
    <3>1. Hand(t, "take", thread[t].op, NULL)
      BY <2>1, <1>2, <1>3 DEF Peek, GotoWith, Hand, ThreadType
    <3> QED BY <3>1
  <2>2. CASE Take(t)
    <3>1. Hand(t, "advance", thread[t].op, top)
      BY <2>2, <1>2, <1>3 DEF Take, GotoWith, Hand, ThreadType
    <3> QED BY <3>1
  <2> QED BY <2>1, <2>2
<1>5. Popping(t)' /\ ~Popped(t)' /\ thread[t].op \notin PushOps
  BY <1>1, <1>4 DEF Hand, Popping, Popped, PushOps, PopOps
<1> QED BY <1>1, <1>2, <1>3, <1>4, <1>5, InsideKept

(* After Advance, a pop has an element in its hands. *)
LEMMA ManagedAfter ==
  ASSUME ManagedInv, NEW t \in Threads, Detach(t) \/ Read(t)
  PROVE  ManagedInv'
<1>1. Inv' /\ StackKept /\ thread[t].op \in PopOps /\ thread[t].pc \in {"detach", "read"}
  BY DetachStep, ReadStep DEF ManagedInv, Inv, Detach, Read, At, Local, PopOps
<1>2. balance' = balance /\ client' = client /\ thread \in [Threads -> ThreadType]
  BY DEF Detach, Read, ManagedInv, Inv, Types
<1>3. thread[t].elem # NULL /\ ~Popping(t)
  BY <1>1 DEF Popped, Popping, ManagedInv, Accounts
<1>4. PICK pc : Hand(t, pc, thread[t].op, thread[t].elem) /\ pc \in {"unlock", "recycle"}
  <2>1. CASE Detach(t)
    <3>1. Hand(t, "unlock", thread[t].op, thread[t].elem)
      BY <2>1, <1>2 DEF Detach, Goto, Hand, ThreadType
    <3> QED BY <3>1
  <2>2. CASE Read(t)
    <3>1. Hand(t, "recycle", thread[t].op, thread[t].elem)
      BY <2>2, <1>2, <1>3 DEF Read, GotoWith, Hand, ThreadType
    <3> QED BY <3>1
  <2> QED BY <2>1, <2>2
<1>5. ~Popping(t)' /\ thread'[t].elem # NULL /\ thread[t].op \notin PushOps
  BY <1>1, <1>3, <1>4 DEF Hand, Popping, PushOps, PopOps
<1> QED BY <1>1, <1>2, <1>3, <1>4, <1>5, InsideKept

(* The calls return. *)
LEMMA ManagedReturn ==
  ASSUME ManagedInv, NEW t \in Threads, Unlock(t) \/ Recycle(t)
  PROVE  ManagedInv'
<1>1. /\ Inv' /\ StackKept /\ thread[t].op \in PushOps \cup PopOps
      /\ thread[t].pc \in {"unlock", "recycle"}
  BY UnlockStep, RecycleStep, OpsAre DEF ManagedInv, Inv, Unlock, Recycle, At, Local
<1>2. balance' = balance /\ client' = client /\ thread \in [Threads -> ThreadType]
  BY DEF Unlock, Recycle, ManagedInv, Inv, Types
<1>3. ~Popping(t) /\ ~Pushing(t)
  BY <1>1 DEF Popping, Pushing
<1>4. PICK pc, op, elem :
        /\ Hand(t, pc, op, elem)
        /\ pc = "idle" \/ (pc = "read" /\ elem # NULL)
  <2>1. CASE Unlock(t) /\ thread[t].op = "pop_safe_managed"
    <3>1. thread[t].elem # NULL
      BY <1>1, <2>1 DEF Popped, PopOps, ManagedInv, Accounts
    <3>2. Hand(t, "read", thread[t].op, thread[t].elem)
      BY <2>1, <1>2 DEF Unlock, Hand, ThreadType
    <3> QED BY <3>1, <3>2
  <2>2. CASE ~(Unlock(t) /\ thread[t].op = "pop_safe_managed")
    <3>1. thread' = [thread EXCEPT ![t] = Idle]
      BY <2>2 DEF Unlock, Recycle
    <3>2. Hand(t, "idle", "none", NULL)
      BY <3>1, <1>2 DEF Hand, Idle
    <3> QED BY <3>2
  <2> QED BY <2>1, <2>2
<1>5. ~Popping(t)' /\ ~Pushing(t)' /\ (Popped(t)' => thread'[t].elem # NULL) /\ pc # "crashed"
  BY <1>4 DEF Hand, Popping, Pushing, Popped
<1>6. Credit(t)' = Credit(t)
  BY <1>2, <1>3, <1>5 DEF Credit
<1> QED BY <1>1, <1>2, <1>4, <1>5, <1>6, AccountsKept

(* A finite set with one more element. *)
LEMMA OneMore ==
  ASSUME NEW S, NEW T, NEW x, IsFiniteSet(S), x \notin S, T = S \cup {x}
  PROVE  /\ IsFiniteSet(T) /\ Cardinality(T) = Cardinality(S) + 1
         /\ Cardinality(S) \in Nat
  BY FS_AddElement, FS_CardinalityType

(* A push puts one more element on the stack, and its thread is owed one   *)
(* more.                                                                   *)
LEMMA ManagedPublish ==
  ASSUME ManagedInv, NEW t \in Threads, Publish(t)
  PROVE  ManagedInv'
<1> DEFINE e == thread[t].elem
<1>1. /\ Inv' /\ thread[t].op \in PushOps /\ thread[t].pc = "publish" /\ thread \in [Threads -> ThreadType]
      /\ balance' = balance /\ client' = client /\ balance \in [Threads -> Nat]
      /\ e # NULL /\ next' = next /\ top' = e /\ next[e] = top
  BY PublishStep DEF ManagedInv, Inv, Types, Publish, At, Local
<1>2. Hand(t, "unlock", thread[t].op, e)
  BY <1>1 DEF Publish, Goto, Hand, ThreadType
<1>3. /\ Pushing(t) /\ ~Popping(t) /\ balance[t] >= 1
      /\ ~Pushing(t)' /\ ~Popping(t)' /\ ~Popped(t)'
  <2>1. Pushing(t) /\ ~Popping(t) /\ ~Pushing(t)' /\ ~Popping(t)' /\ ~Popped(t)'
    BY <1>1, <1>2 DEF Hand, Pushing, Popping, Popped, PushOps, PopOps
  <2> QED BY <2>1 DEF ManagedInv, Accounts
<1>4. Credit(t) \in Nat /\ Credit(t)' = Credit(t) + 1
  BY <1>1, <1>3 DEF Credit
<1>5. \A u \in Threads : u # t =>
        /\ (Pushing(u) => balance[u] >= 1)' /\ (Popped(u) => thread[u].elem # NULL)'
        /\ thread'[u].pc # "crashed" /\ Credit(u)' = Credit(u)
  <2> TAKE u \in Threads
  <2> HAVE u # t
  <2> QED BY <1>1, <1>2, Others DEF ManagedInv
<1>6. /\ Owed(Credits)' = Owed(Credits) \cup {<<t, Credit(t) + 1>>}
      /\ <<t, Credit(t) + 1>> \notin Owed(Credits)
  <2> DEFINE c == Credits
             d == Credits'
  <2>1. c[t] \in Nat /\ c[t] = Credit(t) /\ d[t] = c[t] + 1 /\ \A u \in Threads : u # t => d[u] = c[u]
    BY <1>4, <1>5 DEF Credits
  <2> HIDE DEF c, d
  <2>2. Owed(d) = Owed(c) \cup {<<t, c[t] + 1>>} /\ <<t, c[t] + 1>> \notin Owed(c)
    BY <2>1, OneMoreOwed
  <2>3. Owed(d) = Owed(Credits)'
    BY DEF Owed, d
  <2> QED BY <2>1, <2>2, <2>3 DEF c
<1>7. /\ ElementsOf(next, top)' = ElementsOf(next, top) \cup {e}
      /\ e \notin ElementsOf(next, top)
  <2>1. ElementsOf(next, top)' = ElementsOf(next, e)
    BY <1>1 DEF ElementsOf, ChainOf
  <2>2. WellLinked(next, e)
    BY <1>1 DEF Inv, Lists
  <2> HIDE DEF e
  <2> QED BY <1>1, <2>1, <2>2, ListUncons
<1>8. IsFiniteSet(ElementsOf(next, top))
  BY Apart, StackAssumption, FS_Subset DEF ManagedInv, Inv, Types
<1>9. /\ IsFiniteSet(Owed(Credits)') /\ Cardinality(Owed(Credits)') = Cardinality(Owed(Credits)) + 1
      /\ Cardinality(ElementsOf(next, top)') = Cardinality(ElementsOf(next, top)) + 1
  BY ZenonT(60), <1>6, <1>7, <1>8, FS_AddElement DEF ManagedInv, Accounts
<1>10. \A u \in Threads : /\ (Pushing(u) => balance[u] >= 1)' /\ (Popped(u) => thread[u].elem # NULL)'
                          /\ thread'[u].pc # "crashed"
  BY <1>2, <1>3, <1>5 DEF Hand
<1>11. Accounts'
  BY <1>9, <1>10 DEF Accounts, ManagedInv
<1> QED BY <1>1, <1>11 DEF ManagedInv

(* A pop takes one of the elements its thread is owed. *)
LEMMA ManagedAdvance ==
  ASSUME ManagedInv, NEW t \in Threads, Advance(t)
  PROVE  ManagedInv'
<1>1. /\ Inv' /\ thread[t].op \in PopOps /\ thread[t].pc = "advance" /\ thread \in [Threads -> ThreadType]
      /\ balance' = balance /\ client' = client /\ balance \in [Threads -> Nat]
      /\ top # NULL /\ next' = next /\ thread[t].elem = top /\ top' = next[top]
  BY AdvanceStep DEF ManagedInv, Inv, Types, Advance, At, Local
<1>2. Hand(t, "detach", thread[t].op, top)
  BY <1>1 DEF Advance, Goto, Hand, ThreadType
<1>3. /\ Popping(t) /\ ~Pushing(t) /\ ~Pushing(t)' /\ ~Popping(t)' /\ (Popped(t)' => thread'[t].elem # NULL)
  BY <1>1, <1>2 DEF Hand, Pushing, Popping, Popped, PushOps, PopOps
<1>4. Credit(t)' \in Nat /\ Credit(t) = Credit(t)' + 1
  BY <1>1, <1>3 DEF Credit
<1>5. \A u \in Threads : u # t =>
        /\ (Pushing(u) => balance[u] >= 1)' /\ (Popped(u) => thread[u].elem # NULL)'
        /\ thread'[u].pc # "crashed" /\ Credit(u)' = Credit(u)
  <2> TAKE u \in Threads
  <2> HAVE u # t
  <2> QED BY <1>1, <1>2, Others DEF ManagedInv
<1>6. /\ Owed(Credits) = Owed(Credits)' \cup {<<t, Credit(t)' + 1>>}
      /\ <<t, Credit(t)' + 1>> \notin Owed(Credits)'
  <2> DEFINE c == Credits'
             d == Credits
  <2>1. c[t] \in Nat /\ c[t] = Credit(t)' /\ d[t] = c[t] + 1 /\ \A u \in Threads : u # t => d[u] = c[u]
    BY <1>4, <1>5 DEF Credits
  <2> HIDE DEF c, d
  <2>2. Owed(d) = Owed(c) \cup {<<t, c[t] + 1>>} /\ <<t, c[t] + 1>> \notin Owed(c)
    BY <2>1, OneMoreOwed
  <2>3. Owed(c) = Owed(Credits)'
    BY DEF Owed, c
  <2> QED BY <2>1, <2>2, <2>3 DEF d
<1>7. /\ ElementsOf(next, top) = ElementsOf(next, top)' \cup {top}
      /\ top \notin ElementsOf(next, top)'
  <2>1. ElementsOf(next, top)' = ElementsOf(next, next[top])
    BY <1>1 DEF ElementsOf, ChainOf
  <2>2. WellLinked(next, top)
    BY DEF ManagedInv, Inv, Lists
  <2> QED BY <1>1, <2>1, <2>2, ListUncons
<1>8. IsFiniteSet(ElementsOf(next, top)) /\ IsFiniteSet(Owed(Credits))
  BY Apart, StackAssumption, FS_Subset DEF ManagedInv, Accounts, Inv, Types
<1>9. IsFiniteSet(ElementsOf(next, top)') /\ IsFiniteSet(Owed(Credits)')
  BY <1>6, <1>7, <1>8, FS_Subset
<1>10. Cardinality(Owed(Credits)') = Cardinality(ElementsOf(next, top)')
  <2> DEFINE m == Cardinality(Owed(Credits)')
             n == Cardinality(ElementsOf(next, top)')
  <2>1. Cardinality(Owed(Credits)) = m + 1 /\ m \in Nat
    BY SMTT(60), <1>6, <1>9, OneMore
  <2>2. Cardinality(ElementsOf(next, top)) = n + 1 /\ n \in Nat
    BY <1>7, <1>9, OneMore
  <2>3. Cardinality(Owed(Credits)) = Cardinality(ElementsOf(next, top))
    BY DEF ManagedInv, Accounts
  <2> HIDE DEF m, n
  <2>4. m = n
    BY <2>1, <2>2, <2>3
  <2> QED BY <2>4 DEF m, n
<1>11. Cardinality(Owed(Credits))' = Cardinality(ElementsOf(next, top))'
  BY <1>10
<1>12. \A u \in Threads : /\ (Pushing(u) => balance[u] >= 1)' /\ (Popped(u) => thread[u].elem # NULL)'
                          /\ thread'[u].pc # "crashed"
  BY <1>2, <1>3, <1>5 DEF Hand
<1>13. Accounts'
  BY <1>9, <1>11, <1>12 DEF Accounts
<1> QED BY <1>1, <1>13 DEF ManagedInv

(* Every step keeps the accounts. *)
LEMMA ManagedStep == ManagedInv /\ [Next]_vars => ManagedInv'
<1> SUFFICES ASSUME ManagedInv, [Next]_vars PROVE ManagedInv'
  OBVIOUS
<1>1. ASSUME NEW t \in Threads, Step(t) PROVE ManagedInv'
  BY <1>1, ManagedPushing, ManagedLock, ManagedPublish, ManagedPopping, ManagedAdvance,
     ManagedAfter, ManagedReturn DEF Step
<1>2. ASSUME NEW t \in Threads, NEW op \in OpsOf(client), CallPop(t, op) PROVE ManagedInv'
  BY <1>2, ManagedPop
<1>3. ASSUME NEW t \in Threads, NEW op \in OpsOf(client), NEW v \in Value, CallPush(t, op, v) PROVE ManagedInv'
  BY <1>3, ManagedPush
<1>4. CASE UNCHANGED vars
  <2>1. Inv'
    BY <1>4, StutterStep DEF ManagedInv
  <2>2. Credits' = Credits
    BY <1>4 DEF vars, Credits, Credit, Pushing, Popping
  <2>3. Owed(Credits)' = Owed(Credits) /\ ElementsOf(next, top)' = ElementsOf(next, top)
    BY <1>4, <2>2 DEF vars, Owed, ElementsOf, ChainOf
  <2>4. \A t \in Threads : /\ (Pushing(t) => balance[t] >= 1)' /\ (Popped(t) => thread[t].elem # NULL)'
                           /\ thread'[t].pc # "crashed"
    BY <1>4 DEF vars, ManagedInv, Accounts, Pushing, Popped
  <2>5. IsFiniteSet(Owed(Credits)') /\ Cardinality(Owed(Credits)') = Cardinality(ElementsOf(next, top)')
    BY <2>3 DEF ManagedInv, Accounts
  <2>6. Accounts'
    BY <2>4, <2>5 DEF Accounts
  <2> QED BY <1>4, <2>1, <2>6 DEF vars, ManagedInv
<1> QED BY <1>1, <1>2, <1>3, <1>4 DEF Next

(* stack.c:60, "assert(elem != NULL)": pop_safe_managed reads an element,  *)
(* in every program whose threads call it only when they have pushed more  *)
(* elements than they popped.                                              *)
THEOREM ManagedPopReads ==
  ASSUME "reckless" \notin Clients
  PROVE  Spec => []ReadsAnElement
<1> DEFINE J == client = "safe" \/ ManagedInv
<1>1. Init => J
  <2> SUFFICES ASSUME Init, client # "safe" PROVE ManagedInv
    OBVIOUS
  <2>1. client = "managed"
    BY StackAssumption DEF Init
  <2>2. \A t \in Threads : /\ ~Pushing(t) /\ ~Popping(t) /\ ~Popped(t) /\ thread[t].pc = "idle"
                           /\ balance[t] = 0
    BY DEF Init, Idle, Pushing, Popping, Popped
  <2>3. Owed(Credits) = {}
    <3>1. \A t \in Threads : Credits[t] = 0
      BY <2>2 DEF Credits, Credit
    <3> QED BY <3>1 DEF Owed
  <2>4. ElementsOf(next, top) = {}
    BY EmptyList DEF Init
  <2> QED BY <2>1, <2>2, <2>3, <2>4, InitInv, FS_EmptySet DEF ManagedInv, Accounts
<1>2. J /\ [Next]_vars => J'
  <2>1. client = "safe" /\ [Next]_vars => client' = "safe"
    BY DEF vars, Next, Step, CallPop, CallPush, Prepare, Lock, Alloc, Link, Publish, Peek, Take,
           Advance, Detach, Unlock, Read, Recycle
  <2> QED BY <2>1, ManagedStep
<1>3. Inv /\ J => ReadsAnElement
  <2> SUFFICES ASSUME Inv, J, NEW t \in Threads, thread[t].pc = "crashed" PROVE FALSE
    BY DEF ReadsAnElement, At
  <2>1. client = "safe"
    BY DEF ManagedInv, Accounts
  <2>2. thread[t].op = "pop_safe_managed" /\ thread[t].op \in OpsOf("safe")
    BY <2>1 DEF Inv, Local
  <2> QED BY <2>2 DEF OpsOf
<1> HIDE DEF J
<1> QED BY <1>1, <1>2, <1>3, Invariant, PTL DEF Spec
=============================================================================
