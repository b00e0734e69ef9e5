----------------------------- MODULE MapProofs -----------------------------
(***************************************************************************)
(* The theorems about module Map, for any finite heap, maps, keys and      *)
(* values.  A list of cells is strictly sorted and linked both ways        *)
(* (ListOf); following the pointers of such a list gives it (Followed), so *)
(* what the operations compute by following pointers is said with          *)
(* sequences.  An insert lengthens one list or is refused (InsertLemma), a *)
(* copy is a series of inserts (CopyLemma), and what a list means as a     *)
(* function from keys to values is the table of its cells (IsTable).       *)
(***************************************************************************)
EXTENDS Map, FiniteSetTheorems, SequenceTheorems, TLAPS

(* A set that holds 0, and with a number below m the next one, holds 0..m: *)
(* the least number missing would follow one that is there.                *)
LEMMA IntervalInduction ==
  ASSUME NEW S, NEW m \in Nat, 0 \in S,
         \A n \in Nat : n < m /\ n \in S => n + 1 \in S
  PROVE  \A n \in 0 .. m : n \in S
<1> SUFFICES ASSUME NEW k \in 0 .. m, k \notin S PROVE FALSE
  OBVIOUS
<1> DEFINE T == {n \in Nat : n <= m /\ n \notin S}
           R == OpToRel(<, Nat)
<1>1. T \subseteq Nat /\ T # {}
  OBVIOUS
<1> HIDE DEF T, R
<1>2. PICK n \in T : \A j \in T : ~ (<<j, n>> \in R)
  BY <1>1, NatLessThanWellFounded, WFMin DEF R
<1>3. n \in Nat /\ n <= m /\ n \notin S /\ n - 1 \in Nat
  BY <1>2 DEF T
<1>4. n - 1 \in T
  <2>1. n - 1 < m /\ (n - 1) + 1 = n
    BY <1>3
  <2> QED BY <1>3, <2>1 DEF T
<1>5. <<n - 1, n>> \in R
  BY <1>3 DEF R, OpToRel
<1> QED BY <1>2, <1>4, <1>5

(* One row of Follow: the lists of at most n cells. *)
Row(pt, g, n) == [p \in Nodes \cup {NULL} |->
                    IF n = 0 \/ p = NULL THEN <<>> ELSE <<p>> \o g[n - 1][pt[p]]]

(* The function that follows the links exists: by induction on the fuel,   *)
(* the rows up to m define it for the row m + 1.                           *)
LEMMA FollowExists ==
  ASSUME NEW pt, NEW N \in Nat
  PROVE  \E g : g = [n \in 0 .. N |-> [p \in Nodes \cup {NULL} |->
           IF n = 0 \/ p = NULL THEN <<>> ELSE <<p>> \o g[n - 1][pt[p]]]]
<1>1. ASSUME NEW n \in Nat, NEW g, NEW h, n = 0 \/ g[n - 1] = h[n - 1]
      PROVE  Row(pt, g, n) = Row(pt, h, n)
  BY <1>1 DEF Row
<1> DEFINE S == {m \in 0 .. N : \E g : \A n \in 0 .. m : g[n] = Row(pt, g, n)}
<1>2. 0 \in S
  <2> DEFINE g == [n \in 0 .. N |-> [p \in Nodes \cup {NULL} |-> <<>>]]
  <2>1. \A n \in 0 .. 0 : g[n] = Row(pt, g, n)
    BY DEF Row
  <2> QED BY <2>1
<1>3. ASSUME NEW m \in Nat, m < N, m \in S PROVE m + 1 \in S
  <2>1. PICK g : \A n \in 0 .. m : g[n] = Row(pt, g, n)
    BY <1>3
  <2> DEFINE h == [n \in 0 .. N |-> IF n = m + 1 THEN Row(pt, g, n) ELSE g[n]]
  <2>2. ASSUME NEW n \in 0 .. m + 1 PROVE h[n] = Row(pt, h, n)
    <3>1. n \in Nat /\ (n = 0 \/ g[n - 1] = h[n - 1])
      BY <1>3
    <3>2. h[n] = Row(pt, g, n)
      BY <2>1, <1>3
    <3> HIDE DEF h
    <3>3. Row(pt, g, n) = Row(pt, h, n)
      BY <3>1, <1>1
    <3> QED BY <3>2, <3>3
  <2>3. m + 1 \in 0 .. N
    BY <1>3
  <2> QED BY <2>2, <2>3
<1> HIDE DEF S
<1>4. N \in S
  BY <1>2, <1>3, IntervalInduction
<1>5. PICK g : \A n \in 0 .. N : g[n] = Row(pt, g, n)
  BY <1>4 DEF S
<1> DEFINE h == [n \in 0 .. N |-> g[n]]
<1>6. ASSUME NEW n \in 0 .. N PROVE h[n] = Row(pt, h, n)
  <2>1. n \in Nat /\ (n = 0 \/ g[n - 1] = h[n - 1])
    OBVIOUS
  <2>2. h[n] = Row(pt, g, n)
    BY <1>5
  <2> HIDE DEF h
  <2> QED BY <2>1, <2>2, <1>1
<1>7. h = [n \in 0 .. N |-> h[n]]
  OBVIOUS
<1> HIDE DEF h
<1>8. h = [n \in 0 .. N |-> Row(pt, h, n)]
  BY <1>6, <1>7, Zenon
<1> QED BY <1>8 DEF Row

(* So Follow is what its definition says, row by row. *)
LEMMA FollowUnfolds ==
  ASSUME NEW pt, Cardinality(Nodes) \in Nat,
         NEW n \in 0 .. Cardinality(Nodes), NEW p \in Nodes \cup {NULL}
  PROVE  Follow(pt)[n][p] =
           IF n = 0 \/ p = NULL THEN <<>> ELSE <<p>> \o Follow(pt)[n - 1][pt[p]]
<1> DEFINE w == Follow(pt)
<1>1. w = [fuel \in 0 .. Cardinality(Nodes) |->
        [q \in Nodes \cup {NULL} |->
           IF fuel = 0 \/ q = NULL THEN <<>> ELSE <<q>> \o w[fuel - 1][pt[q]]]]
  BY FollowExists DEF Follow
<1> HIDE DEF w
<1>2. w[n] = Row(pt, w, n)
  BY <1>1, Zenon DEF Row
<1>3. w[n][p] = IF n = 0 \/ p = NULL THEN <<>> ELSE <<p>> \o w[n - 1][pt[p]]
  BY <1>2, Zenon DEF Row
<1> QED BY <1>3 DEF w

(* s is the list of the cells from p on: it ends, and no cell of it  *)
(* is on it twice.                                                         *)
IsList(pt, s, p) ==
  /\ s \in Seq(Nodes)
  /\ p = IF s = <<>> THEN NULL ELSE s[1]
  /\ \A i \in 1 .. Len(s) : pt[s[i]] = IF i < Len(s) THEN s[i + 1] ELSE NULL
  /\ \A i, j \in 1 .. Len(s) : s[i] = s[j] => i = j

(* The heap is finite. *)
LEMMA HeapSize == Cardinality(Nodes) \in Nat
  BY MapAssumption, FS_CardinalityType

(* A list of distinct cells is not longer than the heap. *)
LEMMA ListLength ==
  ASSUME NEW s \in Seq(Nodes), \A i, j \in 1 .. Len(s) : s[i] = s[j] => i = j
  PROVE  /\ Len(s) <= Cardinality(Nodes)
         /\ Cardinality({s[i] : i \in 1 .. Len(s)}) = Len(s)
<1> DEFINE T == {s[i] : i \in 1 .. Len(s)}
<1>1. Len(s) \in Nat /\ T \subseteq Nodes
  OBVIOUS
<1>2. IsFiniteSet(T) /\ Cardinality(T) <= Cardinality(Nodes)
  BY <1>1, MapAssumption, FS_Subset
<1>3. IsFiniteSet(1 .. Len(s)) /\ Cardinality(1 .. Len(s)) = Len(s)
  <2> DEFINE n == Len(s)
  <2>1. n \in Nat
    BY <1>1
  <2> HIDE DEF n
  <2>2. IsFiniteSet(1 .. n) /\ Cardinality(1 .. n) = IF 1 > n THEN 0 ELSE n - 1 + 1
    BY <2>1, FS_Interval
  <2>3. (IF 1 > n THEN 0 ELSE n - 1 + 1) = n
    BY <2>1
  <2> QED BY <2>2, <2>3 DEF n
<1> DEFINE f == [i \in 1 .. Len(s) |-> s[i]]
<1>4. f \in Bijection(1 .. Len(s), T)
  BY DEF Bijection, Injection, Surjection, IsInjective
<1>5. ExistsBijection(1 .. Len(s), T)
  BY <1>4 DEF ExistsBijection
<1>6. Cardinality(T) = Cardinality(1 .. Len(s))
  BY <1>3, <1>5, FS_Bijection
<1> QED BY <1>1, <1>2, <1>3, <1>6

(* Following the links of a list gives that list: fuel never runs out.     *)
LEMMA ChainIsList ==
  ASSUME NEW pt, NEW s, NEW p, IsList(pt, s, p)
  PROVE  Along(pt, p) = s
<1> DEFINE N == Cardinality(Nodes)
           w == Follow(pt)
           L == Len(s)
           At1(i) == IF i <= L THEN s[i] ELSE NULL
           S == {n \in 0 .. N : \A i \in 1 .. L + 1 :
                   L + 1 - i <= n => w[n][At1(i)] = SubSeq(s, i, L)}
<1>1. s \in Seq(Nodes) /\ L \in Nat /\ N \in Nat /\ L <= N
  <2>1. s \in Seq(Nodes) /\ \A i, j \in 1 .. Len(s) : s[i] = s[j] => i = j
    BY DEF IsList
  <2>2. Len(s) <= Cardinality(Nodes)
    BY <2>1, ListLength
  <2> QED BY <2>1, <2>2, HeapSize
<1>2. \A i \in 1 .. L : s[i] \in Nodes /\ s[i] # NULL /\ pt[s[i]] = At1(i + 1)
  BY <1>1, MapAssumption DEF IsList
<1>3. \A i \in 1 .. L + 1 : At1(i) \in Nodes \cup {NULL} /\ (At1(i) = NULL <=> i = L + 1)
  BY <1>1, <1>2
<1>4. SubSeq(s, L + 1, L) = <<>>
  BY <1>1, SubSeqEmpty
<1>5. \A n \in 0 .. N : \A q \in Nodes \cup {NULL} :
        w[n][q] = IF n = 0 \/ q = NULL THEN <<>> ELSE <<q>> \o w[n - 1][pt[q]]
  BY <1>1, FollowUnfolds
<1> HIDE DEF w
<1>6. 0 \in S
  <2>1. ASSUME NEW i \in 1 .. L + 1, L + 1 - i <= 0 PROVE w[0][At1(i)] = SubSeq(s, i, L)
    <3>1. i = L + 1
      BY <2>1, <1>1
    <3>2. w[0][At1(i)] = <<>>
      <4>1. 0 \in 0 .. N /\ At1(i) \in Nodes \cup {NULL}
        BY <1>1, <1>3
      <4> HIDE DEF At1, N
      <4> QED BY <4>1, <1>5
    <3> QED BY <3>1, <3>2, <1>4
  <2> QED BY <2>1, <1>1
<1>7. ASSUME NEW n \in Nat, n < N, n \in S PROVE n + 1 \in S
  <2>1. ASSUME NEW i \in 1 .. L + 1, L + 1 - i <= n + 1
        PROVE  w[n + 1][At1(i)] = SubSeq(s, i, L)
    <3>1. n + 1 \in 0 .. N /\ (n + 1) - 1 = n /\ n + 1 # 0
      BY <1>1, <1>7
    <3>2. w[n + 1][At1(i)] = IF At1(i) = NULL THEN <<>> ELSE <<At1(i)>> \o w[n][pt[At1(i)]]
      BY <3>1, <1>3, <1>5
    <3>3. CASE i = L + 1
      BY <3>2, <3>3, <1>3, <1>4
    <3>4. CASE i # L + 1
      <4>1. i \in 1 .. L /\ i + 1 \in 1 .. L + 1 /\ L + 1 - (i + 1) <= n /\ L \in i .. L
        BY <2>1, <3>4, <1>1
      <4>2. At1(i) = s[i] /\ At1(i) # NULL /\ pt[At1(i)] = At1(i + 1)
        BY <4>1, <1>2
      <4>3. w[n][At1(i + 1)] = SubSeq(s, i + 1, L)
        BY <4>1, <1>7
      <4>4. SubSeq(s, i, L) = <<s[i]>> \o SubSeq(s, i + 1, L)
        BY <4>1, <1>1, SubSeqRecursiveFirst
      <4> QED BY <4>2, <4>3, <4>4, <3>2
    <3> QED BY <3>3, <3>4
  <2>2. n + 1 \in 0 .. N
    BY <1>1, <1>7
  <2> HIDE DEF At1, N, L
  <2> QED BY <2>1, <2>2
<1>8. \A n \in 0 .. N : n \in S
  <2> HIDE DEF S, N
  <2> QED BY <1>1, <1>6, <1>7, IntervalInduction
<1>9. w[N][At1(1)] = SubSeq(s, 1, L)
  <2>1. N \in 0 .. N /\ 1 \in 1 .. L + 1 /\ L + 1 - 1 <= N
    BY <1>1
  <2>2. \A i \in 1 .. L + 1 : L + 1 - i <= N => w[N][At1(i)] = SubSeq(s, i, L)
    BY <2>1, <1>8
  <2> HIDE DEF At1, N, L
  <2> QED BY <2>1, <2>2
<1>10. At1(1) = p
  BY <1>1 DEF IsList
<1>11. SubSeq(s, 1, L) = s
  BY <1>1
<1> QED BY <1>9, <1>10, <1>11 DEF Along, w
-----------------------------------------------------------------------------
HeapType == [node: [Nodes -> Cell], allocated: SUBSET Nodes,
             list: [Maps -> [first: Nodes \cup {NULL}, last: Nodes \cup {NULL}]]]

(* The i-th cell of s, or NULL before and after it. *)
CellAt(s, i) == IF i \in 1 .. Len(s) THEN s[i] ELSE NULL

(* The cells of m are those of s, in this order, which is that of their    *)
(* keys; all of them are in use.                                           *)
Ends(h, m, s) == h.list[m].first = CellAt(s, 1) /\ h.list[m].last = CellAt(s, Len(s))
Linked(h, s) ==
  \A i \in 1 .. Len(s) : /\ h.node[s[i]].next = CellAt(s, i + 1)
                         /\ h.node[s[i]].previous = CellAt(s, i - 1)
Increasing(h, s) ==
  \A i, j \in 1 .. Len(s) : i < j => h.node[s[i]].key < h.node[s[j]].key
InUse(h, s) == \A i \in 1 .. Len(s) : s[i] \in h.allocated
ListOf(h, m, s) ==
  s \in Seq(Nodes) /\ Ends(h, m, s) /\ Linked(h, s) /\ Increasing(h, s) /\ InUse(h, s)

(* Every map is such a list, and the lists share no cell. *)
WellFormed(h) ==
  /\ h \in HeapType
  /\ \A m \in Maps : ListOf(h, m, Forward(h, m))
  /\ \A m1, m2 \in Maps :
       m1 # m2 => ToSet(Forward(h, m1)) \cap ToSet(Forward(h, m2)) = {}

(* The walk has ended with nothing left to read, or it is at a cell of its *)
(* map and what it has not read is there, behind that cell.                *)
WalkOn ==
  \/ cursor.at = NULL /\ cursor.unread = {}
  \/ /\ cursor.map \in Maps
     /\ cursor.at \in ToSet(Forward(heap, cursor.map))
     /\ cursor.unread \subseteq KeysOf(heap, cursor.map)
     /\ \A k \in cursor.unread : heap.node[cursor.at].key < k

(* The inductive invariant. *)
Inv ==
  /\ kind \in Kinds
  /\ WellFormed(heap)
  /\ cursor \in [map: Maps \cup {NULL}, at: Nodes \cup {NULL}, unread: SUBSET Keys]
  /\ WalkOn

-----------------------------------------------------------------------------
LEMMA HeapFields ==
  ASSUME NEW h \in HeapType
  PROVE  /\ \A n \in Nodes : /\ h.node[n] \in Cell
                             /\ h.node[n].key \in Keys /\ h.node[n].key \in Int
                             /\ h.node[n].value \in Values
                             /\ h.node[n].next \in Nodes \cup {NULL}
                             /\ h.node[n].previous \in Nodes \cup {NULL}
         /\ h.allocated \subseteq Nodes
         /\ \A m \in Maps : /\ h.list[m].first \in Nodes \cup {NULL}
                            /\ h.list[m].last \in Nodes \cup {NULL}
  BY MapAssumption DEF HeapType, Cell

(* Strictly increasing keys are those of distinct cells. *)
LEMMA DistinctCells ==
  ASSUME NEW h \in HeapType, NEW s \in Seq(Nodes), Increasing(h, s)
  PROVE  \A i, j \in 1 .. Len(s) : s[i] = s[j] => i = j
<1> SUFFICES ASSUME NEW i \in 1 .. Len(s), NEW j \in 1 .. Len(s), s[i] = s[j], i # j
             PROVE  FALSE
  OBVIOUS
<1>1. i < j \/ j < i
  OBVIOUS
<1>2. s[i] \in Nodes /\ h.node[s[i]].key \in Int
  BY HeapFields
<1>3. h.node[s[i]].key < h.node[s[j]].key \/ h.node[s[j]].key < h.node[s[i]].key
  BY <1>1 DEF Increasing
<1> QED BY <1>2, <1>3

(* Following the next pointers of a list, or the previous ones from its    *)
(* end, gives the list, or the list reversed.                              *)
LEMMA Followed ==
  ASSUME NEW h \in HeapType, NEW m \in Maps, NEW s, ListOf(h, m, s)
  PROVE  Forward(h, m) = s /\ Backward(h, m) = Reverse(s)
<1>1. s \in Seq(Nodes) /\ Len(s) \in Nat
  BY DEF ListOf
<1>2. \A i, j \in 1 .. Len(s) : s[i] = s[j] => i = j
  BY <1>1, DistinctCells DEF ListOf
<1>3. \A i \in 1 .. Len(s) : s[i] \in Nodes
  BY <1>1
<1>4. s = <<>> <=> Len(s) = 0
  BY <1>1
<1>5. IsList(Nexts(h), s, h.list[m].first)
  <2>1. h.list[m].first = IF s = <<>> THEN NULL ELSE s[1]
    BY <1>1, <1>4 DEF ListOf, Ends, CellAt
  <2>2. ASSUME NEW i \in 1 .. Len(s)
        PROVE  Nexts(h)[s[i]] = IF i < Len(s) THEN s[i + 1] ELSE NULL
    <3>1. h.node[s[i]].next = CellAt(s, i + 1)
      BY DEF ListOf, Linked
    <3>2. CellAt(s, i + 1) = IF i < Len(s) THEN s[i + 1] ELSE NULL
      BY <1>1 DEF CellAt
    <3> QED BY <3>1, <3>2, <1>3 DEF Nexts
  <2> QED BY <1>1, <1>2, <2>1, <2>2 DEF IsList
<1> DEFINE r == Reverse(s)
<1>6. r \in Seq(Nodes) /\ Len(r) = Len(s) /\ \A i \in 1 .. Len(s) : r[i] = s[Len(s) - i + 1]
  BY <1>1 DEF Reverse
<1> HIDE DEF r
<1>7. IsList(Previouses(h), r, h.list[m].last)
  <2>1. h.list[m].last = IF r = <<>> THEN NULL ELSE r[1]
    <3>1. r = <<>> <=> Len(s) = 0
      BY <1>6
    <3>2. h.list[m].last = CellAt(s, Len(s))
      BY DEF ListOf, Ends
    <3>3. Len(s) # 0 => r[1] = s[Len(s)]
      <4>1. Len(s) # 0 => 1 \in 1 .. Len(s) /\ Len(s) - 1 + 1 = Len(s)
        BY <1>1
      <4> QED BY <1>6, <4>1
    <3> QED BY <3>1, <3>2, <3>3, <1>1 DEF CellAt
  <2>2. ASSUME NEW i \in 1 .. Len(r)
        PROVE  Previouses(h)[r[i]] = IF i < Len(r) THEN r[i + 1] ELSE NULL
    <3> DEFINE k == Len(s) - i + 1
    <3>1. k \in 1 .. Len(s) /\ k \in Int /\ r[i] = s[k]
      BY <1>1, <1>6
    <3>2. h.node[s[k]].previous = CellAt(s, k - 1)
      BY <3>1 DEF ListOf, Linked
    <3>3. i < Len(r) => r[i + 1] = s[k - 1] /\ k - 1 \in 1 .. Len(s)
      <4> SUFFICES ASSUME i < Len(r) PROVE r[i + 1] = s[k - 1] /\ k - 1 \in 1 .. Len(s)
        OBVIOUS
      <4>1. i + 1 \in 1 .. Len(s) /\ Len(s) - (i + 1) + 1 = k - 1 /\ k - 1 \in 1 .. Len(s)
        BY <1>1, <1>6
      <4> QED BY <4>1, <1>6
    <3>4. ~(i < Len(r)) => k - 1 \notin 1 .. Len(s)
      BY <1>1, <1>6
    <3> HIDE DEF k
    <3>5. CellAt(s, k - 1) = IF i < Len(r) THEN r[i + 1] ELSE NULL
      BY <3>3, <3>4 DEF CellAt
    <3> QED BY <3>1, <3>2, <3>5, <1>3 DEF Previouses
  <2>3. ASSUME NEW i \in 1 .. Len(r), NEW j \in 1 .. Len(r), r[i] = r[j] PROVE i = j
    <3> DEFINE k == Len(s) - i + 1
               l == Len(s) - j + 1
    <3>1. k \in 1 .. Len(s) /\ l \in 1 .. Len(s) /\ s[k] = s[l]
      BY <1>1, <1>6, <2>3
    <3>2. k = l
      BY <3>1, <1>2
    <3> QED BY <3>2, <1>1, <1>6
  <2> QED BY <1>6, <2>1, <2>2, <2>3 DEF IsList
<1>8. Along(Nexts(h), h.list[m].first) = s /\ Along(Previouses(h), h.list[m].last) = r
  BY <1>5, <1>7, ChainIsList
<1> QED BY <1>8 DEF Forward, Backward, r
(* A set of numbers that is not empty has a least one. *)
LEMMA MinLemma ==
  ASSUME NEW S \in SUBSET Nat, S # {}
  PROVE  Min(S) \in S /\ \A y \in S : Min(S) <= y
<1> DEFINE R == OpToRel(<, Nat)
<1>1. PICK x \in S : \A y \in S : ~ (<<y, x>> \in R)
  <2> HIDE DEF R
  <2>1. IsWellFoundedOn(R, Nat)
    BY NatLessThanWellFounded DEF R
  <2> QED BY <2>1, WFMin
<1>2. ASSUME NEW y \in S PROVE x <= y
  <2> SUFFICES ASSUME y < x PROVE FALSE
    OBVIOUS
  <2>1. x \in Nat /\ y \in Nat
    OBVIOUS
  <2>2. <<y, x>> \in R
    BY <2>1 DEF R, OpToRel
  <2> HIDE DEF R
  <2> QED BY <1>1, <2>2
<1> QED BY <1>2 DEF Min

(* Comparing keys and values tells what the difference tells: no two are   *)
(* so far apart that it wraps around.                                      *)
LEMMA CompareIsDifference ==
  /\ \A a, b \in Keys : a \in Int /\ b \in Int /\ CompareInt(a, b) = a - b
  /\ \A a, b \in Values : a \in Int /\ b \in Int /\ CompareInt(a, b) = a - b
<1> DEFINE M == IntModulus
           h == IntModulus \div 2
<1>1. /\ M \in Nat \ {0} /\ h \in Nat /\ 2 * h <= M /\ M <= 2 * h + 1
      /\ \A a, b \in Keys : a \in Int /\ b \in Int /\ 2 * (a - b) < M
      /\ \A a, b \in Values : a \in Int /\ b \in Int /\ 2 * (a - b) < M
  BY MapAssumption
<1> HIDE DEF M, h
<1>2. ASSUME NEW a \in Int, NEW b \in Int, 2 * (a - b) < M, 2 * (b - a) < M
      PROVE  ((a - b + h) % M) - h = a - b
  <2> DEFINE x == a - b + h
  <2>1. x \in 0 .. M - 1
    BY <1>1, <1>2
  <2>2. x % M = x
    BY <1>1, <2>1
  <2> QED BY <2>2, <1>1, <1>2
<1>3. \A a, b : CompareInt(a, b) = ((a - b + h) % M) - h
  BY DEF CompareInt, M, h
<1> QED BY <1>1, <1>2, <1>3

(* An element is inserted before the first cell whose key is not lower. *)
LEMMA PositionLemma ==
  ASSUME NEW h \in HeapType, NEW m \in Maps, NEW s, ListOf(h, m, s), NEW key \in Keys
  PROVE  \E j \in 1 .. Len(s) + 1 :
           /\ \A i \in 1 .. Len(s) : i < j => h.node[s[i]].key < key
           /\ j <= Len(s) => key <= h.node[s[j]].key
           /\ Position(h, m, key) = [current |-> CellAt(s, j), previous |-> CellAt(s, j - 1)]
<1> DEFINE S == {i \in 1 .. Len(s) : key <= h.node[s[i]].key} \cup {Len(s) + 1}
           j == Min(S)
<1>1. s \in Seq(Nodes) /\ Len(s) \in Nat /\ Forward(h, m) = s
  BY Followed DEF ListOf
<1>2. S \in SUBSET Nat /\ S # {} /\ S \subseteq 1 .. Len(s) + 1
  BY <1>1
<1>3. j \in S /\ \A y \in S : j <= y
  <2> HIDE DEF S
  <2> QED BY <1>2, MinLemma
<1>4. Position(h, m, key) = [current  |-> IF j > Len(s) THEN NULL ELSE s[j],
                             previous |-> IF j = 1 THEN NULL ELSE s[j - 1]]
  <2>1. \A i \in 1 .. Len(s) : /\ key \in Int /\ h.node[s[i]].key \in Int
                               /\ CompareInt(key, h.node[s[i]].key) = key - h.node[s[i]].key
    BY <1>1, HeapFields, CompareIsDifference
  <2>2. S = {i \in 1 .. Len(s) : CompareInt(key, h.node[s[i]].key) <= 0} \cup {Len(s) + 1}
    BY <2>1
  <2> HIDE DEF S
  <2> QED BY <1>1, <2>2 DEF Position
<1> HIDE DEF j
<1>5. j \in 1 .. Len(s) + 1
  BY <1>2, <1>3
<1>6. (IF j > Len(s) THEN NULL ELSE s[j]) = CellAt(s, j)
  BY <1>1, <1>5 DEF CellAt
<1>7. (IF j = 1 THEN NULL ELSE s[j - 1]) = CellAt(s, j - 1)
  <2>1. IF j = 1 THEN j - 1 \notin 1 .. Len(s) ELSE j - 1 \in 1 .. Len(s)
    BY <1>1, <1>5
  <2> QED BY <2>1 DEF CellAt
<1>8. j <= Len(s) => key <= h.node[s[j]].key
  BY <1>1, <1>3, <1>5
<1>9. ASSUME NEW i \in 1 .. Len(s), i < j PROVE h.node[s[i]].key < key
  <2>1. i \notin S
    <3> HIDE DEF S
    <3> QED BY <1>3, <1>5, <1>9, <1>1
  <2>2. ~ (key <= h.node[s[i]].key)
    BY <2>1
  <2>3. h.node[s[i]].key \in Int /\ key \in Int
    BY <1>1, HeapFields, MapAssumption
  <2> QED BY <2>2, <2>3
<1> QED BY <1>4, <1>5, <1>6, <1>7, <1>8, <1>9

(* What Link leaves, field by field. *)
LinkResult(h, g, m, elem, current, previous) ==
  /\ g \in HeapType
  /\ g.allocated = h.allocated
  /\ \A n \in Nodes :
       /\ g.node[n].key = h.node[n].key
       /\ g.node[n].value = h.node[n].value
       /\ g.node[n].next = IF n = elem THEN current
                           ELSE IF n = previous THEN elem ELSE h.node[n].next
       /\ g.node[n].previous = IF n = elem THEN previous
                               ELSE IF n = current THEN elem ELSE h.node[n].previous
  /\ \A k \in Maps : k # m => g.list[k] = h.list[k]
  /\ g.list[m].first = IF current = h.list[m].first THEN elem ELSE h.list[m].first
  /\ g.list[m].last = IF current = NULL THEN elem ELSE h.list[m].last

LEMMA LinkFields ==
  ASSUME NEW h \in HeapType, NEW m \in Maps, NEW elem \in Nodes,
         NEW current \in Nodes \cup {NULL}, NEW previous \in Nodes \cup {NULL}
  PROVE  LinkResult(h, Link(h, m, elem, current, previous), m, elem, current, previous)
<1> DEFINE g == Link(h, m, elem, current, previous)
           nodes == [n \in Nodes |-> [h.node[n] EXCEPT
             !.next     = IF n = elem THEN current ELSE IF n = previous THEN elem ELSE @,
             !.previous = IF n = elem THEN previous ELSE IF n = current THEN elem ELSE @]]
           ends == [first |-> IF current = h.list[m].first THEN elem ELSE h.list[m].first,
                    last  |-> IF current = NULL THEN elem ELSE h.list[m].last]
<1>1. g = [h EXCEPT !.node = nodes, !.list[m] = ends]
  BY DEF Link
<1>2. \A n \in Nodes :
        /\ nodes[n] \in Cell
        /\ nodes[n].key = h.node[n].key
        /\ nodes[n].value = h.node[n].value
        /\ nodes[n].next = IF n = elem THEN current
                           ELSE IF n = previous THEN elem ELSE h.node[n].next
        /\ nodes[n].previous = IF n = elem THEN previous
                               ELSE IF n = current THEN elem ELSE h.node[n].previous
  BY DEF HeapType, Cell
<1>3. nodes \in [Nodes -> Cell]
  BY <1>2
<1>4. ends \in [first: Nodes \cup {NULL}, last: Nodes \cup {NULL}]
  BY DEF HeapType
<1>5. ends.first = IF current = h.list[m].first THEN elem ELSE h.list[m].first
  OBVIOUS
<1>6. ends.last = IF current = NULL THEN elem ELSE h.list[m].last
  OBVIOUS
<1> HIDE DEF nodes, ends, g
<1>7. g \in HeapType
  BY <1>1, <1>3, <1>4 DEF HeapType
<1>8. g.node = nodes /\ g.allocated = h.allocated /\ g.list = [h.list EXCEPT ![m] = ends]
  BY <1>1 DEF HeapType
<1>9. g.list[m] = ends /\ \A k \in Maps : k # m => g.list[k] = h.list[k]
  BY <1>8 DEF HeapType
<1> QED BY <1>2, <1>5, <1>6, <1>7, <1>8, <1>9 DEF g, LinkResult

(* s with the cell e inserted before its j-th one. *)
Inserted(s, j, e) ==
  [i \in 1 .. Len(s) + 1 |-> IF i < j THEN s[i] ELSE IF i = j THEN e ELSE s[i - 1]]

(* The cells of t are those of s, with e the j-th one. *)
HasInserted(t, s, j, e) ==
  /\ t \in Seq(Nodes) /\ Len(t) = Len(s) + 1 /\ ToSet(t) = ToSet(s) \cup {e}
  /\ \A i \in 1 .. Len(s) + 1 :
       t[i] = IF i < j THEN s[i] ELSE IF i = j THEN e ELSE s[i - 1]
  /\ \A i \in 0 .. Len(s) + 2 :
       CellAt(t, i) = IF i < j THEN CellAt(s, i)
                      ELSE IF i = j THEN e ELSE CellAt(s, i - 1)

LEMMA InsertedCells ==
  ASSUME NEW s \in Seq(Nodes), NEW j \in 1 .. Len(s) + 1, NEW e \in Nodes
  PROVE  HasInserted(Inserted(s, j, e), s, j, e)
<1> DEFINE t == Inserted(s, j, e)
<1>1. Len(s) \in Nat /\ j \in Nat /\ \A i \in 1 .. Len(s) : s[i] \in Nodes
  OBVIOUS
<1>2. \A i \in 1 .. Len(s) + 1 :
        t[i] = IF i < j THEN s[i] ELSE IF i = j THEN e ELSE s[i - 1]
  BY DEF Inserted
<1>3. t \in Seq(Nodes) /\ Len(t) = Len(s) + 1
  <2>1. \A i \in 1 .. Len(s) + 1 : t[i] \in Nodes
    BY <1>1, <1>2
  <2>2. t = [i \in 1 .. Len(s) + 1 |-> t[i]]
    BY DEF Inserted
  <2> HIDE DEF t
  <2> QED BY <1>1, <2>1, <2>2
<1> HIDE DEF t
<1>4. ASSUME NEW i \in 0 .. Len(s) + 2
      PROVE  CellAt(t, i) = IF i < j THEN CellAt(s, i) ELSE IF i = j THEN e ELSE CellAt(s, i - 1)
  <2>1. CASE i < j
    <3>1. i \in 1 .. Len(t) <=> i \in 1 .. Len(s)
      BY <1>1, <1>3, <2>1
    <3>2. i \in 1 .. Len(s) => t[i] = s[i]
      BY <1>2, <1>1, <2>1
    <3> QED BY <2>1, <3>1, <3>2 DEF CellAt
  <2>2. CASE i = j
    <3>1. i \in 1 .. Len(t) /\ t[i] = e
      BY <1>1, <1>2, <1>3, <2>2
    <3> QED BY <3>1, <2>2, <1>1 DEF CellAt
  <2>3. CASE i > j
    <3>1. i \in 1 .. Len(t) <=> i - 1 \in 1 .. Len(s)
      BY <1>1, <1>3, <2>3
    <3>2. i \in 1 .. Len(t) => t[i] = s[i - 1]
      BY <1>2, <1>1, <1>3, <2>3
    <3>3. ~(i < j) /\ i # j
      BY <2>3, <1>1
    <3> QED BY <3>1, <3>2, <3>3 DEF CellAt
  <2> QED BY <2>1, <2>2, <2>3, <1>1
<1>5. ToSet(t) = ToSet(s) \cup {e}
  <2>1. ToSet(t) = {t[i] : i \in 1 .. Len(s) + 1} /\ ToSet(s) = {s[i] : i \in 1 .. Len(s)}
    BY <1>1, <1>3 DEF ToSet
  <2>2. \A i \in 1 .. Len(s) + 1 : t[i] \in ToSet(s) \cup {e}
    BY <1>1, <1>2, <2>1
  <2>3. \A i \in 1 .. Len(s) : \E k \in 1 .. Len(s) + 1 : t[k] = s[i]
    <3> SUFFICES ASSUME NEW i \in 1 .. Len(s) PROVE \E k \in 1 .. Len(s) + 1 : t[k] = s[i]
      OBVIOUS
    <3>1. CASE i < j
      BY <3>1, <1>1, <1>2
    <3>2. CASE i >= j
      <4>1. i + 1 \in 1 .. Len(s) + 1 /\ ~(i + 1 < j) /\ i + 1 # j /\ (i + 1) - 1 = i
        BY <3>2, <1>1
      <4>2. t[i + 1] = s[i]
        BY <4>1, <1>2
      <4> QED BY <4>1, <4>2
    <3> QED BY <3>1, <3>2, <1>1
  <2>4. t[j] = e
    BY <1>2, <1>1
  <2>5. ToSet(t) \subseteq ToSet(s) \cup {e}
    BY <2>1, <2>2
  <2>6. ToSet(s) \subseteq ToSet(t)
    BY <2>1, <2>3
  <2>7. e \in ToSet(t)
    BY <2>1, <2>4
  <2> QED BY <2>5, <2>6, <2>7
<1>6. HasInserted(t, s, j, e)
  BY <1>2, <1>3, <1>4, <1>5, Zenon DEF HasInserted
<1> QED BY <1>6 DEF t

(* Keys and values, and the pointers of the cells outside C, are those of h. *)
SameContents(h, g) ==
  \A n \in Nodes : g.node[n].key = h.node[n].key /\ g.node[n].value = h.node[n].value
SamePointers(h, g, C) ==
  \A n \in Nodes \ C : /\ g.node[n].next = h.node[n].next
                       /\ g.node[n].previous = h.node[n].previous
SameLists(h, g, m) == \A k \in Maps : k # m => g.list[k] = h.list[k]

(* g is h with the cell elem added to the list of m, which had the cells C. *)
Accepts(h, g, m, C, elem) ==
  /\ g \in HeapType /\ g.allocated = h.allocated
  /\ SameContents(h, g) /\ SamePointers(h, g, C \cup {elem}) /\ SameLists(h, g, m)
  /\ \E t : ListOf(g, m, t) /\ ToSet(t) = C \cup {elem}

LEMMA LinkLemma ==
  ASSUME NEW h \in HeapType, NEW m \in Maps, NEW s, ListOf(h, m, s),
         NEW elem \in h.allocated, elem \notin ToSet(s),
         NEW j \in 1 .. Len(s) + 1,
         \A i \in 1 .. Len(s) : i < j => h.node[s[i]].key < h.node[elem].key,
         j <= Len(s) => h.node[elem].key < h.node[s[j]].key
  PROVE  Accepts(h, Link(h, m, elem, CellAt(s, j), CellAt(s, j - 1)), m, ToSet(s), elem)
<1> DEFINE key(n) == h.node[n].key
           current == CellAt(s, j)
           previous == CellAt(s, j - 1)
           t == Inserted(s, j, elem)
           g == Link(h, m, elem, current, previous)
<1>1. s \in Seq(Nodes) /\ Len(s) \in Nat /\ j \in Nat /\ \A i \in 1 .. Len(s) : s[i] \in Nodes
  BY DEF ListOf
<1>2. elem \in Nodes /\ elem # NULL /\ \A i \in 1 .. Len(s) : s[i] # elem /\ s[i] # NULL
  BY <1>1, HeapFields, MapAssumption DEF ToSet
<1>3. current \in Nodes \cup {NULL} /\ previous \in Nodes \cup {NULL}
  BY <1>1 DEF CellAt
<1>4. /\ t \in Seq(Nodes) /\ Len(t) = Len(s) + 1 /\ ToSet(t) = ToSet(s) \cup {elem}
      /\ \A i \in 1 .. Len(s) + 1 :
           t[i] = IF i < j THEN s[i] ELSE IF i = j THEN elem ELSE s[i - 1]
      /\ \A i \in 0 .. Len(s) + 2 :
           CellAt(t, i) = IF i < j THEN CellAt(s, i)
                          ELSE IF i = j THEN elem ELSE CellAt(s, i - 1)
  <2>1. s \in Seq(Nodes) /\ j \in 1 .. Len(s) + 1 /\ elem \in Nodes
    BY <1>1, <1>2
  <2>2. HasInserted(t, s, j, elem)
    BY <2>1, InsertedCells, Zenon
  <2> HIDE DEF t, g
  <2> QED BY <2>2, Zenon DEF HasInserted
<1> HIDE DEF t
<1>5. LinkResult(h, g, m, elem, current, previous)
  <2> HIDE DEF current, previous
  <2> QED BY <1>2, <1>3, LinkFields
<1> HIDE DEF g
<1>6. \A i, k \in 1 .. Len(s) : s[i] = s[k] => i = k
  BY <1>1, DistinctCells DEF ListOf
<1>7. \A i \in 1 .. Len(s) : (s[i] = current <=> i = j) /\ (s[i] = previous <=> i = j - 1)
  BY <1>1, <1>2, <1>6 DEF CellAt
<1>8. \A i \in 1 .. Len(s) :
        h.node[s[i]].next = CellAt(s, i + 1) /\ h.node[s[i]].previous = CellAt(s, i - 1)
  BY DEF ListOf, Linked
<1>9. SameContents(h, g)
  BY <1>5 DEF SameContents, LinkResult
<1>10. SamePointers(h, g, ToSet(s) \cup {elem})
  <2>1. \A n \in Nodes \ (ToSet(s) \cup {elem}) : n # elem /\ n # current /\ n # previous
    BY <1>1, MapAssumption DEF CellAt, ToSet
  <2> HIDE DEF current, previous
  <2> QED BY <2>1, <1>5 DEF SamePointers, LinkResult
<1>11. SameLists(h, g, m)
  BY <1>5 DEF SameLists, LinkResult
<1>12. Ends(g, m, t)
  <2>1. h.list[m].first = CellAt(s, 1) /\ h.list[m].last = CellAt(s, Len(s))
    BY DEF ListOf, Ends
  <2>2. g.list[m].first = CellAt(t, 1)
    <3>1. CASE j = 1
      BY <3>1, <2>1, <1>4, <1>5, <1>1 DEF LinkResult
    <3>2. CASE j # 1
      <4>1. 1 < j /\ 1 \in 1 .. Len(s) /\ s[1] # current
        BY <3>2, <1>1, <1>7
      <4>2. CellAt(t, 1) = CellAt(s, 1) /\ CellAt(s, 1) = s[1]
        BY <4>1, <1>1, <1>4 DEF CellAt
      <4> QED BY <4>1, <4>2, <2>1, <1>5 DEF LinkResult
    <3> QED BY <3>1, <3>2
  <2>3. g.list[m].last = CellAt(t, Len(t))
    <3>1. CASE j = Len(s) + 1
      <4>1. current = NULL /\ CellAt(t, Len(t)) = elem
        BY <3>1, <1>1, <1>4 DEF CellAt
      <4> QED BY <4>1, <1>5 DEF LinkResult
    <3>2. CASE j # Len(s) + 1
      <4>1. j \in 1 .. Len(s) /\ j < Len(t) /\ Len(t) - 1 = Len(s) /\ Len(t) \in 0 .. Len(s) + 2
        BY <3>2, <1>1, <1>4
      <4>2. current # NULL
        BY <4>1, <1>2 DEF CellAt
      <4>3. CellAt(t, Len(t)) = CellAt(s, Len(s))
        BY <4>1, <1>1, <1>4
      <4> QED BY <4>2, <4>3, <2>1, <1>5 DEF LinkResult
    <3> QED BY <3>1, <3>2
  <2> QED BY <2>2, <2>3 DEF Ends
<1>13. Linked(g, t)
  <2> SUFFICES ASSUME NEW i \in 1 .. Len(s) + 1
               PROVE  /\ g.node[t[i]].next = CellAt(t, i + 1)
                      /\ g.node[t[i]].previous = CellAt(t, i - 1)
    BY <1>4 DEF Linked
  <2>0. /\ i + 1 \in 0 .. Len(s) + 2 /\ i - 1 \in 0 .. Len(s) + 2 /\ i \in Nat
        /\ (i + 1) - 1 = i
    BY <1>1
  <2>1. CASE i < j
    <3>1. i \in 1 .. Len(s) /\ t[i] = s[i] /\ s[i] \in Nodes /\ s[i] # elem
      BY <2>1, <1>1, <1>2, <1>4
    <3>2. g.node[s[i]].next = IF i = j - 1 THEN elem ELSE CellAt(s, i + 1)
      <4>1. s[i] = previous <=> i = j - 1
        BY <3>1, <1>7
      <4>2. h.node[s[i]].next = CellAt(s, i + 1)
        BY <3>1, <1>8
      <4> HIDE DEF previous, current
      <4> QED BY <3>1, <4>1, <4>2, <1>5 DEF LinkResult
    <3>3. g.node[s[i]].previous = CellAt(s, i - 1)
      <4>1. s[i] # current
        BY <3>1, <2>1, <1>7, <1>1
      <4> QED BY <3>1, <4>1, <1>5, <1>8 DEF LinkResult
    <3>4. CellAt(t, i + 1) = IF i = j - 1 THEN elem ELSE CellAt(s, i + 1)
      BY <2>0, <2>1, <1>1, <1>4
    <3>5. CellAt(t, i - 1) = CellAt(s, i - 1)
      BY <2>0, <2>1, <1>1, <1>4
    <3> QED BY <3>1, <3>2, <3>3, <3>4, <3>5
  <2>2. CASE i = j
    <3>1. t[i] = elem /\ CellAt(t, i + 1) = current /\ CellAt(t, i - 1) = previous
      BY <2>0, <2>2, <1>1, <1>4
    <3> QED BY <3>1, <1>2, <1>5 DEF LinkResult
  <2>3. CASE i > j
    <3>1. i - 1 \in 1 .. Len(s) /\ t[i] = s[i - 1] /\ s[i - 1] \in Nodes /\ s[i - 1] # elem
      BY <2>3, <2>0, <1>1, <1>2, <1>4
    <3>2. g.node[s[i - 1]].next = CellAt(s, i)
      <4>1. s[i - 1] # previous
        BY <3>1, <2>3, <1>7, <1>1
      <4>2. h.node[s[i - 1]].next = CellAt(s, (i - 1) + 1) /\ (i - 1) + 1 = i
        BY <3>1, <1>8
      <4> QED BY <3>1, <4>1, <4>2, <1>5 DEF LinkResult
    <3>3. g.node[s[i - 1]].previous = IF i - 1 = j THEN elem ELSE CellAt(s, (i - 1) - 1)
      <4>1. s[i - 1] = current <=> i - 1 = j
        BY <3>1, <1>7
      <4>2. h.node[s[i - 1]].previous = CellAt(s, (i - 1) - 1)
        BY <3>1, <1>8
      <4> HIDE DEF previous, current
      <4> QED BY <3>1, <4>1, <4>2, <1>5 DEF LinkResult
    <3>4. CellAt(t, i + 1) = CellAt(s, i)
      BY <2>0, <2>3, <1>1, <1>4
    <3>5. CellAt(t, i - 1) = IF i - 1 = j THEN elem ELSE CellAt(s, (i - 1) - 1)
      BY <2>0, <2>3, <1>1, <1>4
    <3> QED BY <3>1, <3>2, <3>3, <3>4, <3>5
  <2> QED BY <2>0, <2>1, <2>2, <2>3, <1>1
<1>14. Increasing(g, t)
  <2>1. \A i, k \in 1 .. Len(s) : i < k => key(s[i]) < key(s[k])
    BY DEF ListOf, Increasing
  <2>2. key(elem) \in Int /\ \A i \in 1 .. Len(s) : key(s[i]) \in Int
    BY <1>1, <1>2, HeapFields
  <2>3. \A i \in 1 .. Len(s) : IF i < j THEN key(s[i]) < key(elem) ELSE key(elem) < key(s[i])
    <3> SUFFICES ASSUME NEW i \in 1 .. Len(s), ~(i < j) PROVE key(elem) < key(s[i])
      OBVIOUS
    <3>1. j \in 1 .. Len(s) /\ (j = i \/ j < i)
      BY <1>1
    <3>2. key(elem) < key(s[j])
      BY <3>1
    <3>3. j < i => key(s[j]) < key(s[i])
      BY <3>1, <2>1
    <3>4. key(s[i]) \in Int /\ key(s[j]) \in Int /\ key(elem) \in Int
      BY <3>1, <2>2
    <3> HIDE DEF key
    <3> QED BY <3>1, <3>2, <3>3, <3>4
  <2>4. \A n \in Nodes : g.node[n].key = key(n)
    BY <1>5 DEF LinkResult
  <2> SUFFICES ASSUME NEW i \in 1 .. Len(s) + 1, NEW k \in 1 .. Len(s) + 1, i < k
               PROVE  key(t[i]) < key(t[k])
    <3>1. \A i \in 1 .. Len(s) + 1 : t[i] \in Nodes
      BY <1>1, <1>4
    <3> HIDE DEF key
    <3> QED BY <3>1, <2>4, <1>4 DEF Increasing
  <2> HIDE DEF key
  <2>5. CASE k < j
    BY <2>5, <2>1, <1>4, <1>1
  <2>6. CASE k = j
    <3>1. i < j /\ i \in 1 .. Len(s) /\ t[i] = s[i] /\ t[k] = elem
      BY <2>6, <1>1, <1>4
    <3> QED BY <3>1, <2>3
  <2>7. CASE k > j /\ i < j
    <3>1. i \in 1 .. Len(s) /\ k - 1 \in 1 .. Len(s) /\ i < k - 1 /\ t[i] = s[i] /\ t[k] = s[k - 1]
      BY <2>7, <1>1, <1>4
    <3> QED BY <3>1, <2>1
  <2>8. CASE k > j /\ i = j
    <3>1. k - 1 \in 1 .. Len(s) /\ ~(k - 1 < j) /\ t[i] = elem /\ t[k] = s[k - 1]
      BY <2>8, <1>1, <1>4
    <3> QED BY <3>1, <2>3
  <2>9. CASE k > j /\ i > j
    <3>1. /\ i - 1 \in 1 .. Len(s) /\ k - 1 \in 1 .. Len(s) /\ i - 1 < k - 1
          /\ t[i] = s[i - 1] /\ t[k] = s[k - 1]
      BY <2>9, <1>1, <1>4
    <3> QED BY <3>1, <2>1
  <2> QED BY <2>5, <2>6, <2>7, <2>8, <2>9, <1>1
<1>15. InUse(g, t)
  <2>1. \A i \in 1 .. Len(s) : s[i] \in h.allocated
    BY DEF ListOf, InUse
  <2>2. ASSUME NEW i \in 1 .. Len(s) + 1 PROVE t[i] \in h.allocated
    <3>1. \/ i < j /\ i \in 1 .. Len(s)
          \/ i = j
          \/ ~(i < j) /\ i # j /\ i - 1 \in 1 .. Len(s)
      BY <1>1
    <3> QED BY <3>1, <2>1, <1>4
  <2> QED BY <2>2, <1>4, <1>5 DEF InUse, LinkResult
<1>16. ListOf(g, m, t)
  BY <1>4, <1>12, <1>13, <1>14, <1>15 DEF ListOf
<1>17. g \in HeapType /\ g.allocated = h.allocated
  BY <1>5 DEF LinkResult
<1> QED BY <1>4, <1>9, <1>10, <1>11, <1>16, <1>17 DEF Accepts, g
(* pelib_map_insert_element refuses a key that is there and accepts any    *)
(* other.                                                                  *)
LEMMA InsertElementLemma ==
  ASSUME NEW h \in HeapType, NEW m \in Maps, NEW s, ListOf(h, m, s),
         NEW elem \in h.allocated, elem \notin ToSet(s)
  PROVE  \/ /\ \E n \in ToSet(s) : h.node[n].key = h.node[elem].key
            /\ InsertElement(h, m, elem) = [heap |-> h, inserted |-> 0]
         \/ /\ \A n \in ToSet(s) : h.node[n].key # h.node[elem].key
            /\ InsertElement(h, m, elem).inserted = 1
            /\ Accepts(h, InsertElement(h, m, elem).heap, m, ToSet(s), elem)
<1> DEFINE key(n) == h.node[n].key
<1>1. s \in Seq(Nodes) /\ Len(s) \in Nat /\ \A i \in 1 .. Len(s) : s[i] \in Nodes /\ s[i] # NULL
  BY MapAssumption DEF ListOf
<1>2. /\ key(elem) \in Int /\ \A i \in 1 .. Len(s) : key(s[i]) \in Int
      /\ key(elem) \in Keys /\ \A i \in 1 .. Len(s) : key(s[i]) \in Keys
  BY <1>1, HeapFields
<1>3. \A n : n \in ToSet(s) <=> \E i \in 1 .. Len(s) : s[i] = n
  BY <1>1 DEF ToSet
<1>4. PICK j \in 1 .. Len(s) + 1 :
        /\ \A i \in 1 .. Len(s) : i < j => key(s[i]) < key(elem)
        /\ j <= Len(s) => key(elem) <= key(s[j])
        /\ Position(h, m, key(elem)) = [current |-> CellAt(s, j), previous |-> CellAt(s, j - 1)]
  BY <1>2, PositionLemma
<1>5. InsertElement(h, m, elem) =
        IF CellAt(s, j) # NULL /\ key(CellAt(s, j)) = key(elem)
        THEN [heap |-> h, inserted |-> 0]
        ELSE [heap |-> Link(h, m, elem, CellAt(s, j), CellAt(s, j - 1)), inserted |-> 1]
  <2>1. CellAt(s, j) # NULL => key(CellAt(s, j)) \in Keys
    BY <1>1, <1>2 DEF CellAt
  <2>2. CellAt(s, j) # NULL =>
          (CompareInt(key(elem), key(CellAt(s, j))) = 0 <=> key(CellAt(s, j)) = key(elem))
    <3> DEFINE a == key(elem)
               b == key(CellAt(s, j))
    <3>1. a \in Keys /\ (CellAt(s, j) # NULL => b \in Keys)
      BY <1>2, <2>1
    <3> HIDE DEF a, b
    <3>2. CellAt(s, j) # NULL => (CompareInt(a, b) = 0 <=> b = a)
      BY <3>1, CompareIsDifference
    <3> QED BY <3>2 DEF a, b
  <2> QED BY <1>4, <2>2 DEF InsertElement
<1>6. IF j <= Len(s) THEN CellAt(s, j) = s[j] /\ s[j] # NULL /\ j \in 1 .. Len(s)
                     ELSE CellAt(s, j) = NULL
  BY <1>1 DEF CellAt
<1>7. CASE j <= Len(s) /\ key(s[j]) = key(elem)
  <2>1. s[j] \in ToSet(s)
    BY <1>3, <1>6, <1>7
  <2> QED BY <1>5, <1>6, <1>7, <2>1
<1>8. CASE ~(j <= Len(s) /\ key(s[j]) = key(elem))
  <2>1. j <= Len(s) => key(elem) < key(s[j])
    BY <1>2, <1>4, <1>6, <1>8
  <2>2. \A i \in 1 .. Len(s) : key(s[i]) # key(elem)
    <3> SUFFICES ASSUME NEW i \in 1 .. Len(s), key(s[i]) = key(elem) PROVE FALSE
      OBVIOUS
    <3>1. ~(i < j) /\ i # j
      BY <1>2, <1>4, <1>6, <1>8
    <3>2. j < i /\ j \in 1 .. Len(s)
      BY <3>1, <1>1
    <3>3. key(s[j]) < key(s[i])
      BY <3>2 DEF ListOf, Increasing
    <3>4. key(elem) < key(s[j])
      BY <3>2, <2>1
    <3> QED BY <3>2, <3>3, <3>4, <1>2
  <2>3. \A n \in ToSet(s) : key(n) # key(elem)
    BY <1>3, <2>2
  <2>4. Accepts(h, Link(h, m, elem, CellAt(s, j), CellAt(s, j - 1)), m, ToSet(s), elem)
    BY <1>4, <2>1, LinkLemma
  <2>5. InsertElement(h, m, elem) =
          [heap |-> Link(h, m, elem, CellAt(s, j), CellAt(s, j - 1)), inserted |-> 1]
    BY <1>5, <1>6, <1>8
  <2> HIDE DEF key
  <2> QED BY <2>3, <2>4, <2>5 DEF key
<1> QED BY <1>7, <1>8

-----------------------------------------------------------------------------
Cells(h, m) == ToSet(Forward(h, m))

(* What well-formed lists have besides their definition. *)
LEMMA WellFormedCells ==
  ASSUME NEW h, WellFormed(h), NEW m \in Maps
  PROVE  /\ h \in HeapType
         /\ Cells(h, m) \subseteq h.allocated /\ Cells(h, m) \subseteq Nodes
         /\ \A n, o \in Cells(h, m) : h.node[n].key = h.node[o].key => n = o
         /\ \A k \in Maps : k # m => Cells(h, k) \cap Cells(h, m) = {}
<1> DEFINE s == Forward(h, m)
<1>1. h \in HeapType /\ ListOf(h, m, s)
  BY DEF WellFormed
<1> HIDE DEF s
<1>2. s \in Seq(Nodes) /\ \A n : n \in ToSet(s) <=> \E i \in 1 .. Len(s) : s[i] = n
  BY <1>1 DEF ListOf, ToSet
<1>3. ToSet(s) \subseteq h.allocated
  BY <1>1, <1>2 DEF ListOf, InUse
<1>4. ASSUME NEW n \in ToSet(s), NEW o \in ToSet(s), h.node[n].key = h.node[o].key, n # o
      PROVE  FALSE
  <2>1. PICK i \in 1 .. Len(s), j \in 1 .. Len(s) : s[i] = n /\ s[j] = o
    BY <1>2
  <2>2. i < j \/ j < i
    BY <1>4, <2>1
  <2>3. h.node[n].key \in Int /\ h.node[o].key \in Int
    BY <2>1, <1>1, <1>2, HeapFields
  <2>4. h.node[n].key < h.node[o].key \/ h.node[o].key < h.node[n].key
    BY <2>1, <2>2, <1>1 DEF ListOf, Increasing
  <2> QED BY <2>3, <2>4, <1>4
<1>5. ToSet(s) \subseteq Nodes
  BY <1>2
<1>6. \A k \in Maps : k # m => Cells(h, k) \cap Cells(h, m) = {}
  BY DEF WellFormed, Cells
<1> QED BY <1>1, <1>3, <1>4, <1>5, <1>6 DEF Cells, s

(* Lists of known cells that share none are the lists of a well-formed     *)
(* heap.                                                                   *)
LEMMA WellFormedBy ==
  ASSUME NEW h \in HeapType, NEW C,
         \A m \in Maps : \E s : ListOf(h, m, s) /\ ToSet(s) = C[m],
         \A m1, m2 \in Maps : m1 # m2 => C[m1] \cap C[m2] = {}
  PROVE  WellFormed(h) /\ \A m \in Maps : Cells(h, m) = C[m]
<1>1. ASSUME NEW m \in Maps PROVE ListOf(h, m, Forward(h, m)) /\ Cells(h, m) = C[m]
  <2>1. PICK s : ListOf(h, m, s) /\ ToSet(s) = C[m]
    OBVIOUS
  <2>2. Forward(h, m) = s
    BY <2>1, Followed
  <2> QED BY <2>1, <2>2 DEF Cells
<1> QED BY <1>1 DEF WellFormed, Cells

(* A list stays one when its own cells and its ends do. *)
LEMMA KeepList ==
  ASSUME NEW h \in HeapType, NEW g \in HeapType, NEW m \in Maps, NEW s, ListOf(h, m, s),
         g.list[m] = h.list[m], ToSet(s) \subseteq g.allocated,
         \A n \in ToSet(s) : /\ g.node[n].key = h.node[n].key
                             /\ g.node[n].next = h.node[n].next
                             /\ g.node[n].previous = h.node[n].previous
  PROVE  ListOf(g, m, s)
<1>1. s \in Seq(Nodes) /\ \A i \in 1 .. Len(s) : s[i] \in ToSet(s)
  BY DEF ListOf, ToSet
<1>2. Ends(g, m, s)
  BY DEF ListOf, Ends
<1>3. Linked(g, s)
  BY <1>1 DEF ListOf, Linked
<1>4. Increasing(g, s)
  BY <1>1 DEF ListOf, Increasing
<1>5. InUse(g, s)
  BY <1>1 DEF ListOf, InUse
<1> QED BY <1>1, <1>2, <1>3, <1>4, <1>5 DEF ListOf
(* g is h with a cell more in use, which is on no list. *)
NewCell(h, g, elem, key, value) ==
  /\ g \in HeapType /\ g.allocated = h.allocated \cup {elem} /\ g.list = h.list
  /\ \A n \in Nodes \ {elem} : g.node[n] = h.node[n]
  /\ g.node[elem].key = key /\ g.node[elem].value = value

LEMMA NewElementLemma ==
  ASSUME NEW h \in HeapType, NEW elem \in Nodes, NEW key \in Keys, NEW value \in Values
  PROVE  /\ NewCell(h, NewElement(h, elem, key, value), elem, key, value)
         /\ NewCell(h, [NewElement(h, elem, key, value) EXCEPT
              !.node[elem] = [@ EXCEPT !.next = NULL, !.previous = NULL]], elem, key, value)
<1> DEFINE cell == [h.node[elem] EXCEPT !.key = key, !.value = value]
           blank == [cell EXCEPT !.next = NULL, !.previous = NULL]
           used == h.allocated \cup {elem}
           g == [h EXCEPT !.allocated = used, !.node[elem] = cell]
           b == [g EXCEPT !.node[elem] = blank]
<1>1. cell \in Cell /\ cell.key = key /\ cell.value = value
  BY DEF HeapType, Cell
<1>2. blank \in Cell /\ blank.key = key /\ blank.value = value
  BY <1>1 DEF Cell
<1>3. used \in SUBSET Nodes
  BY DEF HeapType
<1> HIDE DEF cell, blank, used
<1>4. /\ g \in HeapType /\ g.allocated = used /\ g.list = h.list
      /\ g.node = [h.node EXCEPT ![elem] = cell]
  BY <1>1, <1>3 DEF HeapType
<1>5. NewElement(h, elem, key, value) = g
  BY DEF NewElement, used, cell, HeapType
<1> HIDE DEF g
<1>6. /\ b \in HeapType /\ b.allocated = used /\ b.list = h.list
      /\ b.node = [g.node EXCEPT ![elem] = blank]
  BY <1>2, <1>4 DEF HeapType
<1>7. g.node[elem] = cell /\ \A n \in Nodes \ {elem} : g.node[n] = h.node[n]
  BY <1>4 DEF HeapType
<1>8. b.node[elem] = blank /\ \A n \in Nodes \ {elem} : b.node[n] = h.node[n]
  BY <1>4, <1>6, <1>7 DEF HeapType
<1>9. [NewElement(h, elem, key, value) EXCEPT
         !.node[elem] = [@ EXCEPT !.next = NULL, !.previous = NULL]] = b
  <2>1. [g EXCEPT !.node[elem] = [@ EXCEPT !.next = NULL, !.previous = NULL]] =
          [g EXCEPT !.node[elem] = [cell EXCEPT !.next = NULL, !.previous = NULL]]
    BY <1>7
  <2> QED BY <2>1, <1>5 DEF blank
<1> HIDE DEF b
<1>10. NewCell(h, g, elem, key, value)
  BY <1>1, <1>4, <1>7 DEF NewCell, used
<1>11. NewCell(h, b, elem, key, value)
  BY <1>2, <1>6, <1>8 DEF NewCell, used
<1> QED BY <1>5, <1>9, <1>10, <1>11

(* g is h with the cells D added to the list of m: no other list and no    *)
(* contents of a cell in use change.                                       *)
Adds(h, g, m, D) ==
  /\ WellFormed(g)
  /\ Cells(g, m) = Cells(h, m) \cup D
  /\ \A k \in Maps : k # m => Cells(g, k) = Cells(h, k)
  /\ \A n \in h.allocated : g.node[n].key = h.node[n].key /\ g.node[n].value = h.node[n].value

(* g is h with the cell elem in use, for key and value. *)
Uses(h, g, elem, key, value) ==
  /\ g.allocated = h.allocated \cup {elem}
  /\ g.node[elem].key = key /\ g.node[elem].value = value

(* What inserting the new cell elem in m gives: r. *)
Added(h, new, m, elem, key, value, r) ==
  \/ /\ key \in KeysOf(h, m)
     /\ r = [heap |-> new, inserted |-> 0]
     /\ Adds(h, new, m, {}) /\ Uses(h, new, elem, key, value)
  \/ /\ key \notin KeysOf(h, m)
     /\ r.inserted = 1
     /\ Adds(h, r.heap, m, {elem}) /\ Uses(h, r.heap, elem, key, value)

(* Inserting a new cell adds it to the list, unless its key is there. *)
LEMMA AddLemma ==
  ASSUME NEW h, WellFormed(h), NEW m \in Maps, NEW elem \in Nodes \ h.allocated,
         NEW key, NEW value, NEW new, NewCell(h, new, elem, key, value)
  PROVE  Added(h, new, m, elem, key, value, InsertElement(new, m, elem))
<1>1. h \in HeapType /\ new \in HeapType /\ h.allocated \subseteq Nodes
  <2>1. h \in HeapType
    BY DEF WellFormed
  <2> QED BY <2>1, HeapFields DEF NewCell
<1>2. \A k \in Maps : /\ ListOf(h, k, Forward(h, k)) /\ Cells(h, k) \subseteq h.allocated
                      /\ Cells(h, k) \subseteq Nodes /\ elem \notin Cells(h, k)
  BY WellFormedCells DEF WellFormed
<1>3. \A k, l \in Maps : k # l => Cells(h, k) \cap Cells(h, l) = {}
  BY DEF WellFormed, Cells
<1>4. \A n \in Nodes : n # elem =>
        /\ new.node[n].key = h.node[n].key /\ new.node[n].value = h.node[n].value
        /\ new.node[n].next = h.node[n].next /\ new.node[n].previous = h.node[n].previous
  BY DEF NewCell
<1>5. ASSUME NEW k \in Maps PROVE ListOf(new, k, Forward(h, k))
  <2>1. new.list[k] = h.list[k] /\ Cells(h, k) \subseteq new.allocated
    BY <1>2 DEF NewCell
  <2>2. \A n \in Cells(h, k) : /\ new.node[n].key = h.node[n].key
                               /\ new.node[n].next = h.node[n].next
                               /\ new.node[n].previous = h.node[n].previous
    BY <1>2, <1>4
  <2> QED BY <2>1, <2>2, <1>1, <1>2, KeepList DEF Cells
<1>6. elem \in new.allocated /\ new.node[elem].key = key /\ elem \notin ToSet(Forward(h, m))
  BY <1>2 DEF NewCell, Cells
<1>7. key \in KeysOf(h, m) <=> \E n \in Cells(h, m) : new.node[n].key = key
  <2>1. \A n \in Cells(h, m) : new.node[n].key = h.node[n].key
    BY <1>2, <1>4
  <2> QED BY <2>1 DEF KeysOf, Cells
<1> DEFINE r == InsertElement(new, m, elem)
<1>8. \/ /\ \E n \in Cells(h, m) : new.node[n].key = key
         /\ r = [heap |-> new, inserted |-> 0]
      \/ /\ \A n \in Cells(h, m) : new.node[n].key # key
         /\ r.inserted = 1
         /\ Accepts(new, r.heap, m, Cells(h, m), elem)
  <2>1. ListOf(new, m, Forward(h, m))
    BY <1>5
  <2> QED BY <2>1, <1>1, <1>6, InsertElementLemma DEF Cells
<1> HIDE DEF r
<1>9. CASE r = [heap |-> new, inserted |-> 0] /\ key \in KeysOf(h, m)
  <2> DEFINE C == [k \in Maps |-> Cells(h, k)]
  <2>1. \A k \in Maps : \E s : ListOf(new, k, s) /\ ToSet(s) = C[k]
    BY <1>5 DEF Cells
  <2>2. \A k, l \in Maps : k # l => C[k] \cap C[l] = {}
    BY <1>3
  <2>3. \A k \in Maps : C[k] = Cells(h, k)
    OBVIOUS
  <2> HIDE DEF C
  <2>4. WellFormed(new) /\ \A k \in Maps : Cells(new, k) = C[k]
    BY <2>1, <2>2, <1>1, WellFormedBy
  <2>5. Adds(h, new, m, {})
    BY <2>3, <2>4, <1>1, <1>4 DEF Adds
  <2>6. Uses(h, new, elem, key, value)
    BY DEF NewCell, Uses
  <2> QED BY <2>5, <2>6, <1>9 DEF r, Added
<1>10. CASE /\ key \notin KeysOf(h, m) /\ r.inserted = 1
            /\ Accepts(new, r.heap, m, Cells(h, m), elem)
  <2> DEFINE g == r.heap
             C == [k \in Maps |-> IF k = m THEN Cells(h, m) \cup {elem} ELSE Cells(h, k)]
  <2> HIDE DEF g
  <2>1. /\ g \in HeapType /\ g.allocated = new.allocated
        /\ SameContents(new, g) /\ SamePointers(new, g, Cells(h, m) \cup {elem})
        /\ SameLists(new, g, m)
    BY <1>10 DEF Accepts, g
  <2>2. PICK t : ListOf(g, m, t) /\ ToSet(t) = Cells(h, m) \cup {elem}
    BY <1>10 DEF Accepts, g
  <2>3. ASSUME NEW k \in Maps PROVE \E s : ListOf(g, k, s) /\ ToSet(s) = C[k]
    <3>1. CASE k = m
      BY <3>1, <2>2
    <3>2. CASE k # m
      <4>1. g.list[k] = new.list[k]
        BY <3>2, <2>1 DEF SameLists
      <4>2. Cells(h, k) \subseteq g.allocated
        BY <2>1, <1>2 DEF NewCell
      <4>3. \A n \in Cells(h, k) : n \in Nodes \ (Cells(h, m) \cup {elem})
        BY <3>2, <1>2, <1>3
      <4>4. \A n \in Cells(h, k) : /\ g.node[n].key = new.node[n].key
                                   /\ g.node[n].next = new.node[n].next
                                   /\ g.node[n].previous = new.node[n].previous
        BY <4>3, <2>1 DEF SameContents, SamePointers
      <4>5. ListOf(new, k, Forward(h, k))
        BY <1>5
      <4>6. ListOf(g, k, Forward(h, k))
        BY <4>1, <4>2, <4>4, <4>5, <1>1, <2>1, KeepList DEF Cells
      <4> QED BY <3>2, <4>6 DEF Cells
    <3> QED BY <3>1, <3>2
  <2>4. \A k, l \in Maps : k # l => C[k] \cap C[l] = {}
    BY <1>2, <1>3
  <2>5. C[m] = Cells(h, m) \cup {elem} /\ \A k \in Maps : k # m => C[k] = Cells(h, k)
    OBVIOUS
  <2> HIDE DEF C
  <2>6. WellFormed(g) /\ \A k \in Maps : Cells(g, k) = C[k]
    BY <2>1, <2>3, <2>4, WellFormedBy
  <2>7. ASSUME NEW n \in h.allocated
        PROVE  g.node[n].key = h.node[n].key /\ g.node[n].value = h.node[n].value
    <3>1. n \in Nodes /\ n # elem
      BY <1>1
    <3> QED BY <3>1, <2>1, <1>4 DEF SameContents
  <2>8. Adds(h, g, m, {elem})
    BY <2>5, <2>6, <2>7 DEF Adds
  <2>9. Uses(h, g, elem, key, value)
    BY <2>1 DEF NewCell, Uses, SameContents
  <2> QED BY <2>8, <2>9, <1>10 DEF r, g, Added
<1> QED BY <1>7, <1>8, <1>9, <1>10 DEF r
-----------------------------------------------------------------------------
(* pelib_map_find finds the cell of a key that is there. *)
LEMMA FindLemma ==
  ASSUME NEW h, WellFormed(h), NEW m \in Maps, NEW key \in Keys
  PROVE  IF key \in KeysOf(h, m)
         THEN Find(h, m, key) \in Cells(h, m) /\ h.node[Find(h, m, key)].key = key
         ELSE Find(h, m, key) = NULL
<1> DEFINE s == Forward(h, m)
           S == {i \in 1 .. Len(s) : h.node[s[i]].key = key}
<1>1. s \in Seq(Nodes) /\ Cells(h, m) = ToSet(s) /\ Len(s) \in Nat
  BY DEF WellFormed, ListOf, Cells
<1>2. Find(h, m, key) = IF S = {} THEN NULL ELSE s[Min(S)]
  <2>1. \A i \in 1 .. Len(s) : h.node[s[i]].key \in Keys
    BY <1>1, HeapFields DEF WellFormed
  <2>2. \A i \in 1 .. Len(s) :
          CompareInt(key, h.node[s[i]].key) = 0 <=> h.node[s[i]].key = key
    BY <2>1, CompareIsDifference
  <2>3. S = {i \in 1 .. Len(s) : CompareInt(key, h.node[s[i]].key) = 0}
    BY <2>2
  <2> HIDE DEF S
  <2> QED BY <2>3 DEF Find
<1> HIDE DEF s
<1>3. key \in KeysOf(h, m) <=> S # {}
  BY <1>1 DEF KeysOf, s, ToSet
<1>4. S \in SUBSET Nat /\ \A i \in S : s[i] \in ToSet(s) /\ h.node[s[i]].key = key
  BY <1>1 DEF ToSet
<1> HIDE DEF S
<1>5. S # {} => Min(S) \in S
  BY <1>4, MinLemma
<1> QED BY <1>1, <1>2, <1>3, <1>4, <1>5

(* f maps the keys of the cells C to their values. *)
IsTable(node, C, f) ==
  /\ f = [k \in DOMAIN f |-> f[k]]
  /\ DOMAIN f = {node[n].key : n \in C}
  /\ \A n \in C : f[node[n].key] = node[n].value

LEMMA OneTable ==
  ASSUME NEW node, NEW C, NEW f, NEW g, IsTable(node, C, f), IsTable(node, C, g)
  PROVE  f = g
<1>1. DOMAIN f = DOMAIN g /\ f = [k \in DOMAIN f |-> f[k]] /\ g = [k \in DOMAIN g |-> g[k]]
  BY DEF IsTable
<1>2. ASSUME NEW k \in DOMAIN f PROVE f[k] = g[k]
  <2>1. PICK n \in C : k = node[n].key
    BY DEF IsTable
  <2> QED BY <2>1 DEF IsTable
<1> QED BY <1>1, <1>2

LEMMA SameTable ==
  ASSUME NEW node, NEW other, NEW C, NEW f, IsTable(node, C, f),
         \A n \in C : other[n].key = node[n].key /\ other[n].value = node[n].value
  PROVE  IsTable(other, C, f)
<1>1. {other[n].key : n \in C} = {node[n].key : n \in C}
  OBVIOUS
<1>2. \A n \in C : f[other[n].key] = other[n].value
  BY DEF IsTable
<1> QED BY <1>1, <1>2 DEF IsTable

(* What a list means is the table of its cells. *)
LEMMA EntriesTable ==
  ASSUME NEW h, WellFormed(h), NEW m \in Maps
  PROVE  IsTable(h.node, Cells(h, m), Entries(h, m)) /\ DOMAIN Entries(h, m) = KeysOf(h, m)
<1> DEFINE f == Entries(h, m)
           C == Cells(h, m)
<1>1. /\ C \subseteq Nodes /\ h \in HeapType
      /\ \A n, o \in C : h.node[n].key = h.node[o].key => n = o
  BY WellFormedCells
<1>2. KeysOf(h, m) = {h.node[n].key : n \in C} /\ KeysOf(h, m) \subseteq Keys
  <2>1. KeysOf(h, m) = {h.node[n].key : n \in C}
    BY DEF KeysOf, Cells
  <2>2. \A n \in C : h.node[n].key \in Keys
    BY <1>1, HeapFields
  <2> QED BY <2>1, <2>2
<1>3. \A k \in Keys : IF k \in KeysOf(h, m) THEN Find(h, m, k) \in C /\ h.node[Find(h, m, k)].key = k
                                  ELSE Find(h, m, k) = NULL
  BY FindLemma
<1>4. f = [k \in {key \in Keys : Find(h, m, key) # NULL} |-> h.node[Find(h, m, k)].value]
  BY DEF Entries
<1> HIDE DEF C, f
<1>5. {key \in Keys : Find(h, m, key) # NULL} = KeysOf(h, m)
  BY <1>1, <1>2, <1>3, MapAssumption
<1>6. DOMAIN f = KeysOf(h, m) /\ f = [k \in DOMAIN f |-> f[k]]
      /\ \A k \in KeysOf(h, m) : f[k] = h.node[Find(h, m, k)].value
  BY <1>4, <1>5
<1>7. ASSUME NEW n \in C PROVE f[h.node[n].key] = h.node[n].value
  <2>1. h.node[n].key \in KeysOf(h, m)
    BY <1>2
  <2>2. Find(h, m, h.node[n].key) = n
    BY <2>1, <1>1, <1>2, <1>3
  <2> QED BY <2>1, <2>2, <1>6
<1> QED BY <1>2, <1>6, <1>7 DEF IsTable, C, f

(* A map to which cells are added means what it meant, with those cells;   *)
(* the others mean what they did.                                          *)
LEMMA AddsKeys ==
  ASSUME NEW h, WellFormed(h), NEW m \in Maps, NEW g, NEW D, Adds(h, g, m, D)
  PROVE  /\ KeysOf(g, m) = KeysOf(h, m) \cup {g.node[n].key : n \in D}
         /\ \A k \in Maps : /\ KeysOf(h, k) \subseteq KeysOf(g, k)
                            /\ k # m => KeysOf(g, k) = KeysOf(h, k)
                            /\ k # m => Entries(g, k) = Entries(h, k)
         /\ \A k \in Maps : \A n \in Cells(h, k) :
              n \in Cells(g, k) /\ g.node[n].key = h.node[n].key /\ g.node[n].value = h.node[n].value
<1>1. \A k \in Maps : \A n \in Cells(h, k) :
        g.node[n].key = h.node[n].key /\ g.node[n].value = h.node[n].value
  BY WellFormedCells DEF Adds
<1>2. Cells(g, m) = Cells(h, m) \cup D /\ \A k \in Maps : k # m => Cells(g, k) = Cells(h, k)
  BY DEF Adds
<1>3. \A k \in Maps : /\ KeysOf(h, k) = {h.node[n].key : n \in Cells(h, k)}
                      /\ KeysOf(g, k) = {g.node[n].key : n \in Cells(g, k)}
  BY DEF KeysOf, Cells
<1>4. \A k \in Maps : KeysOf(h, k) = {g.node[n].key : n \in Cells(h, k)}
  BY <1>1, <1>3
<1>5. KeysOf(g, m) = KeysOf(h, m) \cup {g.node[n].key : n \in D}
  <2>1. {g.node[n].key : n \in Cells(h, m) \cup D} =
          {g.node[n].key : n \in Cells(h, m)} \cup {g.node[n].key : n \in D}
    OBVIOUS
  <2> QED BY <2>1, <1>2, <1>3, <1>4
<1>6. ASSUME NEW k \in Maps, k # m
      PROVE  KeysOf(g, k) = KeysOf(h, k) /\ Entries(g, k) = Entries(h, k)
  <2>1. KeysOf(g, k) = KeysOf(h, k)
    BY <1>2, <1>3, <1>4, <1>6
  <2>2. IsTable(h.node, Cells(h, k), Entries(h, k))
    BY EntriesTable
  <2>3. IsTable(g.node, Cells(h, k), Entries(h, k))
    BY <2>2, <1>1, SameTable
  <2>4. WellFormed(g)
    BY DEF Adds
  <2>5. IsTable(g.node, Cells(h, k), Entries(g, k))
    BY <2>4, <1>2, <1>6, EntriesTable
  <2> QED BY <2>1, <2>3, <2>5, OneTable
<1> QED BY <1>1, <1>2, <1>5, <1>6

LEMMA AddsEntries ==
  ASSUME NEW h, WellFormed(h), NEW m \in Maps, NEW g, NEW D, Adds(h, g, m, D), NEW f,
         f = [k \in DOMAIN f |-> f[k]],
         DOMAIN f = KeysOf(h, m) \cup {g.node[n].key : n \in D},
         \A k \in KeysOf(h, m) : f[k] = Entries(h, m)[k],
         \A n \in D : f[g.node[n].key] = g.node[n].value
  PROVE  Entries(g, m) = f
<1>1. WellFormed(g) /\ Cells(g, m) = Cells(h, m) \cup D
  BY DEF Adds
<1>2. IsTable(g.node, Cells(g, m), Entries(g, m)) /\ DOMAIN Entries(g, m) = KeysOf(g, m)
  BY <1>1, EntriesTable
<1>3. IsTable(h.node, Cells(h, m), Entries(h, m))
  BY EntriesTable
<1>4. ASSUME NEW n \in Cells(g, m) PROVE f[g.node[n].key] = g.node[n].value
  <2>1. CASE n \in Cells(h, m)
    <3>1. g.node[n].key = h.node[n].key /\ g.node[n].value = h.node[n].value
      BY <2>1, AddsKeys
    <3>2. h.node[n].key \in KeysOf(h, m)
      BY <2>1 DEF KeysOf, Cells
    <3> QED BY <2>1, <3>1, <3>2, <1>3 DEF IsTable
  <2>2. CASE n \in D
    BY <2>2
  <2> QED BY <2>1, <2>2, <1>1
<1>5. DOMAIN f = KeysOf(g, m)
  BY AddsKeys
<1>6. KeysOf(g, m) = {g.node[n].key : n \in Cells(g, m)}
  BY DEF KeysOf, Cells
<1>7. IsTable(g.node, Cells(g, m), f)
  BY <1>4, <1>5, <1>6 DEF IsTable
<1> QED BY <1>2, <1>7, OneTable

-----------------------------------------------------------------------------
(* pelib_map_insert adds the new cell, or changes nothing. *)
LEMMA InsertLemma ==
  ASSUME NEW h, WellFormed(h), NEW m \in Maps, NEW key \in Keys, NEW value \in Values,
         NEW elem \in Nodes \ h.allocated
  PROVE  \/ /\ key \in KeysOf(h, m)
            /\ InsertResult(h, m, key, value, elem) = [heap |-> h, inserted |-> 0]
         \/ /\ key \notin KeysOf(h, m)
            /\ InsertResult(h, m, key, value, elem).inserted = 1
            /\ Adds(h, InsertResult(h, m, key, value, elem).heap, m, {elem})
            /\ Uses(h, InsertResult(h, m, key, value, elem).heap, elem, key, value)
<1> DEFINE new == [NewElement(h, elem, key, value) EXCEPT
                     !.node[elem] = [@ EXCEPT !.next = NULL, !.previous = NULL]]
           r == InsertElement(new, m, elem)
<1>1. NewCell(h, new, elem, key, value)
  BY NewElementLemma DEF WellFormed
<1>2. InsertResult(h, m, key, value, elem) =
        IF r.inserted = 1 THEN r ELSE [heap |-> h, inserted |-> 0]
  BY DEF InsertResult
<1> HIDE DEF new
<1>3. Added(h, new, m, elem, key, value, r)
  BY <1>1, AddLemma
<1> HIDE DEF r
<1> QED BY <1>2, <1>3 DEF Added
(* pelib_free_buffer empties one list and changes no other. *)
LEMMA FreeLemma ==
  ASSUME NEW h, WellFormed(h), NEW m \in Maps
  PROVE  LET g == FreeResult(h, m)
         IN /\ WellFormed(g) /\ Cells(g, m) = {}
            /\ \A k \in Maps : k # m => Cells(g, k) = Cells(h, k)
            /\ g.allocated = h.allocated \ Cells(h, m)
            /\ \A n \in Nodes \ Cells(h, m) : g.node[n] = h.node[n]
<1> DEFINE g == FreeResult(h, m)
           nodes == [n \in Nodes |-> IF n \in Cells(h, m) THEN Junk(n) ELSE h.node[n]]
           used == h.allocated \ Cells(h, m)
           none == [first |-> NULL, last |-> NULL]
<1>1. h \in HeapType
  BY DEF WellFormed
<1>2. g = [h EXCEPT !.allocated = used, !.node = nodes, !.list[m] = none]
  BY <1>1 DEF FreeResult, Cells, HeapType
<1>3. nodes \in [Nodes -> Cell] /\ used \in SUBSET Nodes
      /\ none \in [first: Nodes \cup {NULL}, last: Nodes \cup {NULL}]
  <2>1. \A n \in Nodes : Junk(n) \in Cell
    <3>1. SetValue \in Values /\ (CHOOSE k \in Keys : TRUE) \in Keys
      BY MapAssumption DEF SetValue
    <3> QED BY <3>1 DEF Junk, Cell
  <2>2. used \in SUBSET Nodes
    BY <1>1, HeapFields
  <2>3. \A n \in Nodes : h.node[n] \in Cell
    BY <1>1, HeapFields
  <2> QED BY <2>1, <2>2, <2>3
<1>4. none.first = NULL /\ none.last = NULL
  OBVIOUS
<1>5. \A n \in Nodes \ Cells(h, m) : nodes[n] = h.node[n]
  OBVIOUS
<1> HIDE DEF g, nodes, used, none
<1>6. /\ g \in HeapType /\ g.allocated = used /\ g.node = nodes
      /\ g.list[m] = none /\ \A k \in Maps : k # m => g.list[k] = h.list[k]
  BY <1>1, <1>2, <1>3 DEF HeapType
<1> DEFINE C == [k \in Maps |-> IF k = m THEN {} ELSE Cells(h, k)]
<1>7. ASSUME NEW k \in Maps PROVE \E s : ListOf(g, k, s) /\ ToSet(s) = C[k]
  <2>1. CASE k = m
    <3>1. <<>> \in Seq(Nodes) /\ Len(<<>>) = 0 /\ ToSet(<<>>) = {} /\ 1 .. 0 = {}
      BY DEF ToSet
    <3>2. ListOf(g, m, <<>>)
      BY <3>1, <1>4, <1>6 DEF ListOf, Ends, Linked, Increasing, InUse, CellAt
    <3> QED BY <2>1, <3>1, <3>2
  <2>2. CASE k # m
    <3>1. Cells(h, k) \cap Cells(h, m) = {} /\ Cells(h, k) \subseteq h.allocated
          /\ Cells(h, k) \subseteq Nodes
      BY <2>2, WellFormedCells
    <3>2. Cells(h, k) \subseteq g.allocated
      BY <3>1, <1>6 DEF used
    <3>3. \A n \in Cells(h, k) : g.node[n] = h.node[n]
      BY <3>1, <1>5, <1>6
    <3>4. ListOf(h, k, Forward(h, k))
      BY DEF WellFormed
    <3>5. ListOf(g, k, Forward(h, k))
      BY <3>2, <3>3, <3>4, <2>2, <1>1, <1>6, KeepList DEF Cells
    <3> QED BY <2>2, <3>5 DEF Cells
  <2> QED BY <2>1, <2>2
<1>8. \A k, l \in Maps : k # l => C[k] \cap C[l] = {}
  BY DEF WellFormed, Cells
<1>9. C[m] = {} /\ \A k \in Maps : k # m => C[k] = Cells(h, k)
  OBVIOUS
<1> HIDE DEF C
<1>10. WellFormed(g) /\ \A k \in Maps : Cells(g, k) = C[k]
  BY <1>6, <1>7, <1>8, WellFormedBy
<1> QED BY <1>5, <1>6, <1>9, <1>10 DEF g, used

(* The other maps mean what they did, and the map freed is empty. *)
LEMMA FreeEntries ==
  ASSUME NEW h, WellFormed(h), NEW m \in Maps
  PROVE  LET g == FreeResult(h, m)
         IN /\ Entries(g, m) = [k \in {} |-> 0]
            /\ \A k \in Maps : k # m => /\ KeysOf(g, k) = KeysOf(h, k)
                                        /\ Entries(g, k) = Entries(h, k)
<1> DEFINE g == FreeResult(h, m)
<1>1. /\ WellFormed(g) /\ Cells(g, m) = {}
      /\ \A k \in Maps : k # m => Cells(g, k) = Cells(h, k)
      /\ \A n \in Nodes \ Cells(h, m) : g.node[n] = h.node[n]
  BY FreeLemma
<1> HIDE DEF g
<1>2. Entries(g, m) = [k \in {} |-> 0]
  <2>1. IsTable(g.node, {}, Entries(g, m))
    BY <1>1, EntriesTable
  <2>2. IsTable(g.node, {}, [k \in {} |-> 0])
    BY DEF IsTable
  <2> QED BY <2>1, <2>2, OneTable
<1>3. ASSUME NEW k \in Maps, k # m
      PROVE  KeysOf(g, k) = KeysOf(h, k) /\ Entries(g, k) = Entries(h, k)
  <2>1. \A n \in Cells(h, k) : g.node[n].key = h.node[n].key /\ g.node[n].value = h.node[n].value
    <3>1. Cells(h, k) \subseteq Nodes /\ Cells(h, k) \cap Cells(h, m) = {}
      BY <1>3, WellFormedCells
    <3> QED BY <3>1, <1>1
  <2>2. Cells(g, k) = Cells(h, k)
    BY <1>1, <1>3
  <2>3. KeysOf(g, k) = KeysOf(h, k)
    BY <2>1, <2>2 DEF KeysOf, Cells
  <2>4. IsTable(h.node, Cells(h, k), Entries(h, k))
    BY EntriesTable
  <2>5. IsTable(g.node, Cells(h, k), Entries(h, k))
    BY <2>1, <2>4, SameTable
  <2>6. IsTable(g.node, Cells(h, k), Entries(g, k))
    BY <2>2, <1>1, EntriesTable
  <2> QED BY <2>3, <2>5, <2>6, OneTable
<1> QED BY <1>2, <1>3 DEF g

-----------------------------------------------------------------------------
(* The cells of a list from the last to the first. *)
LEMMA BackwardCells ==
  ASSUME NEW h, WellFormed(h), NEW m \in Maps
  PROVE  LET elem == Backward(h, m)
         IN /\ elem \in Seq(Nodes)
            /\ \A i \in 1 .. Len(elem) : elem[i] \in Cells(h, m)
            /\ \A n \in Cells(h, m) : \E i \in 1 .. Len(elem) : elem[i] = n
            /\ \A i, j \in 1 .. Len(elem) : h.node[elem[i]].key = h.node[elem[j]].key => i = j
<1> DEFINE s == Forward(h, m)
           elem == Backward(h, m)
<1>1. h \in HeapType /\ ListOf(h, m, s)
  BY DEF WellFormed
<1>2. elem = Reverse(s)
  BY <1>1, Followed
<1> HIDE DEF s, elem
<1>3. s \in Seq(Nodes) /\ Len(s) \in Nat
  BY <1>1 DEF ListOf
<1>4. elem \in Seq(Nodes) /\ Len(elem) = Len(s)
      /\ \A i \in 1 .. Len(s) : elem[i] = s[Len(s) - i + 1] /\ Len(s) - i + 1 \in 1 .. Len(s)
  BY <1>2, <1>3 DEF Reverse
<1>5. \A n : n \in Cells(h, m) <=> \E i \in 1 .. Len(s) : s[i] = n
  BY <1>3 DEF Cells, s, ToSet
<1>6. \A i \in 1 .. Len(elem) : elem[i] \in Cells(h, m)
  BY <1>4, <1>5
<1>7. ASSUME NEW n \in Cells(h, m) PROVE \E i \in 1 .. Len(elem) : elem[i] = n
  <2>1. PICK i \in 1 .. Len(s) : s[i] = n
    BY <1>5
  <2>2. Len(s) - i + 1 \in 1 .. Len(s) /\ Len(s) - (Len(s) - i + 1) + 1 = i
    BY <1>3
  <2>3. elem[Len(s) - i + 1] = s[Len(s) - (Len(s) - i + 1) + 1]
    BY <2>2, <1>4
  <2> QED BY <2>1, <2>2, <2>3, <1>4
<1>8. ASSUME NEW i \in 1 .. Len(elem), NEW j \in 1 .. Len(elem),
             h.node[elem[i]].key = h.node[elem[j]].key
      PROVE  i = j
  <2>1. elem[i] = elem[j]
    BY <1>6, <1>8, WellFormedCells
  <2>2. s[Len(s) - i + 1] = s[Len(s) - j + 1]
    BY <2>1, <1>4
  <2>3. Len(s) - i + 1 = Len(s) - j + 1
    <3>1. \A k, l \in 1 .. Len(s) : s[k] = s[l] => k = l
      BY <1>1, <1>3, DistinctCells DEF ListOf
    <3> QED BY <3>1, <2>2, <1>4
  <2> QED BY <2>3, <1>3, <1>4
<1> QED BY <1>4, <1>6, <1>7, <1>8 DEF elem

(* One round of the loop of pelib_copy. *)
CopyStep(h, elem, dst, cells, g, i) ==
  LET pair == h.node[elem[i]]
      cpy  == NewElement(g, cells[i], pair.key, pair.value)
  IN InsertElement(cpy, dst, cells[i]).heap
CopyRow(h, elem, dst, cells, c, i) ==
  IF i = 0 THEN h ELSE CopyStep(h, elem, dst, cells, c[i - 1], i)

CopiedFrom(h, elem, dst, cells, N, c) ==
  c = [i \in 0 .. N |-> IF i = 0 THEN h ELSE CopyStep(h, elem, dst, cells, c[i - 1], i)]

(* The heaps after each round of the loop exist. *)
LEMMA CopiedExists ==
  ASSUME NEW h, NEW elem, NEW dst, NEW cells, NEW N \in Nat
  PROVE  \E c : CopiedFrom(h, elem, dst, cells, N, c)
<1>1. ASSUME NEW i \in Nat, NEW c, NEW d, i = 0 \/ c[i - 1] = d[i - 1]
      PROVE  CopyRow(h, elem, dst, cells, c, i) = CopyRow(h, elem, dst, cells, d, i)
  BY <1>1 DEF CopyRow
<1> DEFINE Row1(c, i) == CopyRow(h, elem, dst, cells, c, i)
           S == {n \in 0 .. N : \E c : \A i \in 0 .. n : c[i] = Row1(c, i)}
<1>2. 0 \in S
  <2> DEFINE c == [i \in 0 .. N |-> h]
  <2>1. \A i \in 0 .. 0 : c[i] = Row1(c, i)
    BY DEF CopyRow
  <2> QED BY <2>1
<1>3. ASSUME NEW n \in Nat, n < N, n \in S PROVE n + 1 \in S
  <2>1. PICK c : \A i \in 0 .. n : c[i] = Row1(c, i)
    BY <1>3
  <2> DEFINE d == [i \in 0 .. N |-> IF i = n + 1 THEN Row1(c, i) ELSE c[i]]
  <2>2. ASSUME NEW i \in 0 .. n + 1 PROVE d[i] = Row1(d, i)
    <3>1. i \in Nat /\ (i = 0 \/ d[i - 1] = c[i - 1])
      BY <1>3
    <3>2. d[i] = Row1(c, i)
      BY <2>1, <1>3
    <3> HIDE DEF d
    <3>3. Row1(c, i) = Row1(d, i)
      BY <3>1, <1>1
    <3> QED BY <3>2, <3>3
  <2>3. n + 1 \in 0 .. N
    BY <1>3
  <2> QED BY <2>2, <2>3
<1> HIDE DEF S
<1>4. N \in S
  BY <1>2, <1>3, IntervalInduction
<1>5. PICK c : \A i \in 0 .. N : c[i] = Row1(c, i)
  BY <1>4 DEF S
<1> DEFINE d == [i \in 0 .. N |-> c[i]]
<1>6. ASSUME NEW i \in 0 .. N PROVE d[i] = Row1(d, i)
  <2>1. i \in Nat /\ (i = 0 \/ d[i - 1] = c[i - 1])
    OBVIOUS
  <2>2. d[i] = Row1(c, i)
    BY <1>5
  <2> HIDE DEF d
  <2> QED BY <2>1, <2>2, <1>1
<1>7. d = [i \in 0 .. N |-> d[i]]
  OBVIOUS
<1> HIDE DEF d
<1>8. d = [i \in 0 .. N |-> Row1(d, i)]
  BY <1>6, <1>7, Zenon
<1> QED BY <1>8 DEF CopyRow, CopiedFrom
(* The cells that the destination took in the first i rounds: those of the *)
(* keys it did not have.                                                   *)
Taken(h, dst, elem, cells, i) ==
  {cells[j] : j \in {l \in 1 .. i : h.node[elem[l]].key \notin KeysOf(h, dst)}}

(* The invariant of the loop of pelib_copy. *)
Copied(h, dst, elem, cells, g, i) ==
  /\ g.allocated = h.allocated \cup {cells[j] : j \in 1 .. i}
  /\ Adds(h, g, dst, Taken(h, dst, elem, cells, i))
  /\ \A j \in 1 .. i : /\ g.node[cells[j]].key = h.node[elem[j]].key
                       /\ g.node[cells[j]].value = h.node[elem[j]].value

LEMMA AddsMore ==
  ASSUME NEW h, NEW m \in Maps, NEW g, NEW g2, NEW D, NEW E,
         h.allocated \subseteq g.allocated, Adds(h, g, m, D), Adds(g, g2, m, E)
  PROVE  Adds(h, g2, m, D \cup E)
  BY DEF Adds

(* One more round. *)
LEMMA CopyRound ==
  ASSUME NEW h, WellFormed(h), NEW dst \in Maps, NEW elem, NEW L \in Nat,
         \A j \in 1 .. L : elem[j] \in Nodes,
         \A j, l \in 1 .. L : h.node[elem[j]].key = h.node[elem[l]].key => j = l,
         NEW cells \in [1 .. L -> Nodes \ h.allocated],
         \A j, l \in 1 .. L : cells[j] = cells[l] => j = l,
         NEW i \in Nat, i < L, NEW g, Copied(h, dst, elem, cells, g, i)
  PROVE  Copied(h, dst, elem, cells, CopyStep(h, elem, dst, cells, g, i + 1), i + 1)
<1> DEFINE e == cells[i + 1]
           key == h.node[elem[i + 1]].key
           value == h.node[elem[i + 1]].value
           new == NewElement(g, e, key, value)
           r == InsertElement(new, dst, e)
           D(n) == Taken(h, dst, elem, cells, n)
<1>1. i + 1 \in 1 .. L /\ \A j \in 1 .. i + 1 : j \in 1 .. L /\ (j \in 1 .. i \/ j = i + 1)
  OBVIOUS
<1>2. /\ g.allocated = h.allocated \cup {cells[j] : j \in 1 .. i}
      /\ Adds(h, g, dst, D(i)) /\ WellFormed(g) /\ g \in HeapType
      /\ \A j \in 1 .. i : /\ g.node[cells[j]].key = h.node[elem[j]].key
                           /\ g.node[cells[j]].value = h.node[elem[j]].value
  BY DEF Copied, Adds, WellFormed
<1>3. e \in Nodes \ g.allocated
  <2>1. \A j \in 1 .. i : cells[j] # e
    BY <1>1
  <2> QED BY <2>1, <1>1, <1>2
<1>4. key \in Keys /\ value \in Values
  <2>1. h \in HeapType
    BY DEF WellFormed
  <2> QED BY <2>1, <1>1, HeapFields
<1>5. NewCell(g, new, e, key, value)
  <2> HIDE DEF e, key, value
  <2> QED BY <1>2, <1>3, <1>4, NewElementLemma
<1>6. r.heap = CopyStep(h, elem, dst, cells, g, i + 1)
  BY DEF CopyStep
<1>7. \/ /\ key \in KeysOf(g, dst) /\ r.heap = new
         /\ Adds(g, new, dst, {}) /\ Uses(g, new, e, key, value)
      \/ /\ key \notin KeysOf(g, dst)
         /\ Adds(g, r.heap, dst, {e}) /\ Uses(g, r.heap, e, key, value)
  <2> HIDE DEF e, key, value, new
  <2>1. Added(g, new, dst, e, key, value, r)
    BY <1>2, <1>3, <1>5, AddLemma
  <2> HIDE DEF r
  <2> QED BY <2>1 DEF Added
<1>8. key \in KeysOf(g, dst) <=> key \in KeysOf(h, dst)
  <2>1. KeysOf(g, dst) = KeysOf(h, dst) \cup {g.node[n].key : n \in D(i)}
    BY <1>2, AddsKeys
  <2>2. ASSUME NEW n \in D(i) PROVE g.node[n].key # key
    <3>1. PICK j \in 1 .. i : n = cells[j]
      BY DEF Taken
    <3>2. j # i + 1 /\ j \in 1 .. L
      BY <1>1
    <3> QED BY <3>1, <3>2, <1>1, <1>2
  <2> QED BY <2>1, <2>2
<1>9. D(i + 1) = D(i) \cup (IF key \in KeysOf(h, dst) THEN {} ELSE {e})
  BY <1>1 DEF Taken
<1>10. {cells[j] : j \in 1 .. i + 1} = {cells[j] : j \in 1 .. i} \cup {e}
  BY <1>1
<1> HIDE DEF r, new, key, value, e, D
<1> DEFINE g2 == r.heap
<1>11. Uses(g, g2, e, key, value) /\ Adds(g, g2, dst, IF key \in KeysOf(h, dst) THEN {} ELSE {e})
  BY <1>7, <1>8
<1> HIDE DEF g2
<1>12. Adds(h, g2, dst, D(i + 1))
  <2>1. h.allocated \subseteq g.allocated
    BY <1>2
  <2>2. Adds(h, g2, dst, D(i) \cup (IF key \in KeysOf(h, dst) THEN {} ELSE {e}))
    BY <2>1, <1>2, <1>11, AddsMore
  <2> QED BY <2>2, <1>9
<1>13. g2.allocated = h.allocated \cup {cells[j] : j \in 1 .. i + 1}
  BY <1>2, <1>10, <1>11 DEF Uses
<1>14. ASSUME NEW j \in 1 .. i + 1
       PROVE  /\ g2.node[cells[j]].key = h.node[elem[j]].key
              /\ g2.node[cells[j]].value = h.node[elem[j]].value
  <2>1. CASE j \in 1 .. i
    <3>1. cells[j] \in g.allocated
      BY <2>1, <1>2
    <3>2. /\ g2.node[cells[j]].key = g.node[cells[j]].key
          /\ g2.node[cells[j]].value = g.node[cells[j]].value
      BY <3>1, <1>11 DEF Adds
    <3> QED BY <2>1, <3>2, <1>2
  <2>2. CASE j = i + 1
    BY <2>2, <1>11 DEF Uses, e, key, value
  <2> QED BY <2>1, <2>2, <1>1
<1>15. Copied(h, dst, elem, cells, g2, i + 1)
  BY <1>12, <1>13, <1>14 DEF Copied, D
<1> QED BY <1>6, <1>15 DEF g2

(* pelib_copy adds a cell for each key the destination does not have. *)
LEMMA CopyLemma ==
  ASSUME NEW h, WellFormed(h), NEW src \in Maps, NEW dst \in Maps,
         NEW cells \in [1 .. Len(Backward(h, src)) -> Nodes \ h.allocated],
         \A j, l \in 1 .. Len(Backward(h, src)) : cells[j] = cells[l] => j = l
  PROVE  Copied(h, dst, Backward(h, src), cells, CopyResult(h, src, dst, cells),
                Len(Backward(h, src)))
<1> DEFINE elem == Backward(h, src)
           L == Len(elem)
<1>1. /\ elem \in Seq(Nodes) /\ L \in Nat /\ \A j \in 1 .. L : elem[j] \in Nodes
      /\ \A j, l \in 1 .. L : h.node[elem[j]].key = h.node[elem[l]].key => j = l
  BY BackwardCells
<1> HIDE DEF elem
<1>2. Len(cells) = L
  <2>1. cells \in Seq(Nodes \ h.allocated) /\ DOMAIN cells = 1 .. L
    BY <1>1 DEF elem
  <2> QED BY <2>1, <1>1
<1> HIDE DEF L
<1> DEFINE c == CHOOSE c : c = [i \in 0 .. L |->
                  IF i = 0 THEN h ELSE CopyStep(h, elem, dst, cells, c[i - 1], i)]
<1>3. CopyResult(h, src, dst, cells) = c[L]
  BY <1>2 DEF CopyResult, CopyStep, elem
<1>4. c = [i \in 0 .. L |-> IF i = 0 THEN h ELSE CopyStep(h, elem, dst, cells, c[i - 1], i)]
  <2>1. L \in Nat
    BY <1>1
  <2>2. \E d : CopiedFrom(h, elem, dst, cells, L, d)
    BY <2>1, CopiedExists
  <2> QED BY <2>2, Zenon DEF CopiedFrom
<1> HIDE DEF c
<1> DEFINE S == {i \in 0 .. L : Copied(h, dst, elem, cells, c[i], i)}
<1>5. 0 \in S
  <2>1. c[0] = h /\ 0 \in 0 .. L
    BY <1>1, <1>4
  <2>2. 1 .. 0 = {}
    OBVIOUS
  <2>3. Adds(h, h, dst, {})
    BY DEF Adds
  <2>4. Taken(h, dst, elem, cells, 0) = {}
    BY DEF Taken
  <2>5. Copied(h, dst, elem, cells, h, 0)
    BY <2>2, <2>3, <2>4 DEF Copied
  <2> QED BY <2>1, <2>5
<1>6. ASSUME NEW i \in Nat, i < L, i \in S PROVE i + 1 \in S
  <2>1. c[i + 1] = CopyStep(h, elem, dst, cells, c[i], i + 1)
    <3>1. i + 1 \in 0 .. L /\ i + 1 # 0 /\ (i + 1) - 1 = i
      BY <1>1, <1>6
    <3> QED BY <3>1, <1>4
  <2>2. Copied(h, dst, elem, cells, c[i], i)
    BY <1>6
  <2>3. /\ L \in Nat /\ cells \in [1 .. L -> Nodes \ h.allocated]
        /\ \A j, l \in 1 .. L : cells[j] = cells[l] => j = l
    BY <1>1 DEF L, elem
  <2>4. Copied(h, dst, elem, cells, CopyStep(h, elem, dst, cells, c[i], i + 1), i + 1)
    BY <2>2, <2>3, <1>1, <1>6, CopyRound
  <2>5. i + 1 \in 0 .. L
    BY <1>1, <1>6
  <2> QED BY <2>1, <2>4, <2>5
<1>7. L \in S
  <2> HIDE DEF S
  <2>1. \A i \in 0 .. L : i \in S
    BY <1>1, <1>5, <1>6, IntervalInduction
  <2> QED BY <2>1, <1>1
<1> QED BY <1>3, <1>7 DEF elem, L
(* The table of both a and b, with the values of b first. *)
Merged(a, b) == [k \in DOMAIN a \cup DOMAIN b |-> IF k \in DOMAIN b THEN b[k] ELSE a[k]]

(* So the destination has the keys of both, with its own values first. *)
LEMMA CopyMeaning ==
  ASSUME NEW h, WellFormed(h), NEW src \in Maps, NEW dst \in Maps, src # dst,
         NEW cells, NEW g,
         Copied(h, dst, Backward(h, src), cells, g, Len(Backward(h, src)))
  PROVE  /\ KeysOf(g, dst) = KeysOf(h, src) \cup KeysOf(h, dst)
         /\ Entries(g, dst) = Merged(Entries(h, src), Entries(h, dst))
<1> DEFINE elem == Backward(h, src)
           L == Len(elem)
           key(j) == h.node[elem[j]].key
           D == Taken(h, dst, elem, cells, L)
<1>1. /\ elem \in Seq(Nodes)
      /\ \A i \in 1 .. L : elem[i] \in Cells(h, src)
      /\ \A n \in Cells(h, src) : \E i \in 1 .. L : elem[i] = n
  BY BackwardCells
<1>2. /\ Adds(h, g, dst, D)
      /\ \A j \in 1 .. L : g.node[cells[j]].key = key(j)
                           /\ g.node[cells[j]].value = h.node[elem[j]].value
  BY DEF Copied
<1>3. KeysOf(h, src) = {key(j) : j \in 1 .. L}
  <2>1. KeysOf(h, src) = {h.node[n].key : n \in Cells(h, src)}
    BY DEF KeysOf, Cells
  <2> HIDE DEF elem, L
  <2> QED BY <2>1, <1>1
<1>4. D = {cells[j] : j \in {l \in 1 .. L : key(l) \notin KeysOf(h, dst)}}
  BY DEF Taken
<1> HIDE DEF D
<1>5. {g.node[n].key : n \in D} = KeysOf(h, src) \ KeysOf(h, dst)
  <2> HIDE DEF L, elem, key
  <2>1. ASSUME NEW n \in D PROVE g.node[n].key \in KeysOf(h, src) \ KeysOf(h, dst)
    <3>1. PICK j \in 1 .. L : n = cells[j] /\ key(j) \notin KeysOf(h, dst)
      BY <1>4
    <3> QED BY <3>1, <1>2, <1>3
  <2>2. ASSUME NEW k \in KeysOf(h, src) \ KeysOf(h, dst) PROVE \E n \in D : g.node[n].key = k
    <3>1. PICK j \in 1 .. L : k = key(j)
      BY <1>3
    <3>2. cells[j] \in D /\ g.node[cells[j]].key = k
      BY <3>1, <1>2, <1>4
    <3> QED BY <3>2
  <2> QED BY <2>1, <2>2
<1>6. KeysOf(g, dst) = KeysOf(h, src) \cup KeysOf(h, dst)
  <2>1. KeysOf(g, dst) = KeysOf(h, dst) \cup {g.node[n].key : n \in D}
    BY <1>2, AddsKeys
  <2> QED BY <2>1, <1>5
<1> DEFINE f == [k \in DOMAIN Entries(h, src) \cup DOMAIN Entries(h, dst) |->
                   IF k \in DOMAIN Entries(h, dst) THEN Entries(h, dst)[k] ELSE Entries(h, src)[k]]
<1>7. /\ DOMAIN Entries(h, src) = KeysOf(h, src) /\ DOMAIN Entries(h, dst) = KeysOf(h, dst)
      /\ IsTable(h.node, Cells(h, src), Entries(h, src))
  BY EntriesTable
<1>8. f = [k \in DOMAIN f |-> f[k]] /\ DOMAIN f = KeysOf(h, dst) \cup {g.node[n].key : n \in D}
  BY <1>5, <1>7
<1>9. \A k \in KeysOf(h, dst) : f[k] = Entries(h, dst)[k]
  BY <1>7
<1>10. ASSUME NEW n \in D PROVE f[g.node[n].key] = g.node[n].value
  <2>1. PICK j \in 1 .. L : n = cells[j] /\ key(j) \notin KeysOf(h, dst)
    BY <1>4
  <2>2. key(j) \in KeysOf(h, src) /\ g.node[n].key = key(j) /\ g.node[n].value = h.node[elem[j]].value
    BY <2>1, <1>2, <1>3
  <2>3. Entries(h, src)[key(j)] = h.node[elem[j]].value
    BY <2>1, <1>1, <1>7 DEF IsTable
  <2>4. f[key(j)] = Entries(h, src)[key(j)]
    BY <2>1, <2>2, <1>7
  <2> QED BY <2>2, <2>3, <2>4
<1> HIDE DEF f
<1>11. Entries(g, dst) = f
  BY <1>2, <1>8, <1>9, <1>10, AddsEntries
<1> QED BY <1>6, <1>11 DEF f, Merged

(* The cells in use and on no list: those of the pairs refused. *)
LEMMA AddsLost ==
  ASSUME NEW h, WellFormed(h), NEW m \in Maps, NEW g, NEW D, NEW U, Adds(h, g, m, D),
         g.allocated = h.allocated \cup U, U \cap h.allocated = {}, D \subseteq U
  PROVE  /\ Lost(g) = Lost(h) \cup (U \ D)
         /\ Lost(g) \ Lost(h) = U \ D
<1>1. InLists(h) \subseteq h.allocated
  BY WellFormedCells DEF InLists, Cells
<1>2. InLists(g) = InLists(h) \cup D
  BY DEF Adds, InLists, Cells
<1> QED BY <1>1, <1>2 DEF Lost

(* h becomes g by losing as many cells as src and dst have keys in common. *)
LosesShared(h, g, src, dst) ==
  /\ Lost(h) \subseteq Lost(g)
  /\ Cardinality(Lost(g) \ Lost(h)) = Cardinality(KeysOf(h, src) \cap KeysOf(h, dst))

LEMMA CopyLost ==
  ASSUME NEW h, WellFormed(h), NEW src \in Maps, NEW dst \in Maps, src # dst,
         NEW cells \in [1 .. Len(Backward(h, src)) -> Nodes \ h.allocated],
         \A j, l \in 1 .. Len(Backward(h, src)) : cells[j] = cells[l] => j = l,
         NEW g, Copied(h, dst, Backward(h, src), cells, g, Len(Backward(h, src)))
  PROVE  LosesShared(h, g, src, dst)
<1> DEFINE elem == Backward(h, src)
           L == Len(elem)
           key(j) == h.node[elem[j]].key
           D == Taken(h, dst, elem, cells, L)
           U == {cells[j] : j \in 1 .. L}
           K == KeysOf(h, src) \cap KeysOf(h, dst)
<1>1. /\ \A i \in 1 .. L : elem[i] \in Cells(h, src)
      /\ \A n \in Cells(h, src) : \E i \in 1 .. L : elem[i] = n
      /\ \A i, j \in 1 .. L : key(i) = key(j) => i = j
  BY BackwardCells
<1>2. /\ Adds(h, g, dst, D) /\ g.allocated = h.allocated \cup U
      /\ \A j \in 1 .. L : g.node[cells[j]].key = key(j)
  BY DEF Copied
<1>3. KeysOf(h, src) = {key(j) : j \in 1 .. L}
  <2>1. KeysOf(h, src) = {h.node[n].key : n \in Cells(h, src)}
    BY DEF KeysOf, Cells
  <2> HIDE DEF elem, L
  <2> QED BY <2>1, <1>1
<1>4. D = {cells[j] : j \in {l \in 1 .. L : key(l) \notin KeysOf(h, dst)}}
  BY DEF Taken
<1>5. U \cap h.allocated = {} /\ D \subseteq U /\ U \subseteq Nodes
  BY <1>4
<1> HIDE DEF D
<1>6. \A j, l \in 1 .. L : cells[j] = cells[l] => j = l
  OBVIOUS
<1> HIDE DEF L, elem, key
<1>7. Lost(g) \ Lost(h) = U \ D /\ Lost(h) \subseteq Lost(g)
  <2> HIDE DEF U
  <2>1. Lost(g) = Lost(h) \cup (U \ D) /\ Lost(g) \ Lost(h) = U \ D
    BY <1>2, <1>5, AddsLost
  <2> QED BY <2>1
<1>8. U \ D = {cells[j] : j \in {l \in 1 .. L : key(l) \in KeysOf(h, dst)}}
  BY <1>4, <1>6
<1>9. IsFiniteSet(U \ D)
  <2>1. U \ D \subseteq Nodes
    BY <1>5
  <2> HIDE DEF U
  <2> QED BY <2>1, MapAssumption, FS_Subset
<1> DEFINE f == [n \in U \ D |-> g.node[n].key]
<1>10. f \in Bijection(U \ D, K)
  <2>1. ASSUME NEW n \in U \ D PROVE f[n] \in K
    <3>1. PICK j \in 1 .. L : n = cells[j] /\ key(j) \in KeysOf(h, dst)
      BY <1>8
    <3> QED BY <3>1, <1>2, <1>3
  <2>2. ASSUME NEW n \in U \ D, NEW o \in U \ D, f[n] = f[o] PROVE n = o
    <3>1. PICK j \in 1 .. L, l \in 1 .. L : n = cells[j] /\ o = cells[l]
      OBVIOUS
    <3>2. key(j) = key(l)
      BY <2>2, <3>1, <1>2
    <3> QED BY <3>1, <3>2, <1>1 DEF key, L, elem
  <2>3. ASSUME NEW k \in K PROVE \E n \in U \ D : f[n] = k
    <3>1. PICK j \in 1 .. L : k = key(j)
      BY <1>3
    <3>2. cells[j] \in U \ D
      BY <3>1, <1>8
    <3>3. f[cells[j]] = k
      BY <3>1, <3>2, <1>2
    <3> QED BY <3>2, <3>3
  <2> HIDE DEF U, K
  <2>4. f \in [U \ D -> K]
    BY <2>1
  <2> HIDE DEF f
  <2> QED BY <2>2, <2>3, <2>4 DEF Bijection, Injection, Surjection, IsInjective
<1>11. ExistsBijection(U \ D, K)
  BY <1>10 DEF ExistsBijection
<1> HIDE DEF f, U, K
<1>12. Cardinality(K) = Cardinality(U \ D)
  BY <1>9, <1>11, FS_Bijection
<1> QED BY <1>7, <1>12 DEF K, LosesShared
-----------------------------------------------------------------------------
LEMMA InitInv == Init => Inv
<1> SUFFICES ASSUME Init PROVE Inv
  OBVIOUS
<1>1. heap \in HeapType
  <2>1. \A n \in Nodes : Junk(n) \in Cell
    <3>1. SetValue \in Values /\ (CHOOSE k \in Keys : TRUE) \in Keys
      BY MapAssumption DEF SetValue
    <3> QED BY <3>1 DEF Junk, Cell
  <2> QED BY <2>1 DEF Init, HeapType
<1> DEFINE C == [m \in Maps |-> {}]
<1>2. ASSUME NEW m \in Maps PROVE \E s : ListOf(heap, m, s) /\ ToSet(s) = C[m]
  <2>1. <<>> \in Seq(Nodes) /\ Len(<<>>) = 0 /\ ToSet(<<>>) = {} /\ 1 .. 0 = {}
    BY DEF ToSet
  <2>2. heap.list[m].first = NULL /\ heap.list[m].last = NULL
    BY DEF Init
  <2>3. ListOf(heap, m, <<>>)
    BY <2>1, <2>2 DEF ListOf, Ends, Linked, Increasing, InUse, CellAt
  <2> QED BY <2>1, <2>3
<1>3. \A k, l \in Maps : k # l => C[k] \cap C[l] = {}
  OBVIOUS
<1> HIDE DEF C
<1>4. WellFormed(heap)
  BY <1>1, <1>2, <1>3, WellFormedBy
<1>5. cursor \in [map: Maps \cup {NULL}, at: Nodes \cup {NULL}, unread: SUBSET Keys] /\ WalkOn
  BY DEF Init, NoWalk, WalkOn
<1> QED BY <1>4, <1>5 DEF Init, Inv

(* The walk goes on over a map that grows. *)
LEMMA WalkOnGrows ==
  ASSUME Inv, NEW m \in Maps, NEW D, Adds(heap, heap', m, D), UNCHANGED <<kind, cursor>>
  PROVE  Inv'
<1>1. WellFormed(heap')
  BY DEF Adds
<1>2. WalkOn'
  <2>1. CASE cursor.at = NULL /\ cursor.unread = {}
    BY <2>1 DEF WalkOn
  <2>2. CASE /\ cursor.map \in Maps
             /\ cursor.at \in Cells(heap, cursor.map)
             /\ cursor.unread \subseteq KeysOf(heap, cursor.map)
             /\ \A k \in cursor.unread : heap.node[cursor.at].key < k
    <3>1. /\ KeysOf(heap, cursor.map) \subseteq KeysOf(heap', cursor.map)
          /\ cursor.at \in Cells(heap', cursor.map)
          /\ heap'.node[cursor.at].key = heap.node[cursor.at].key
      BY <2>2, AddsKeys DEF Inv
    <3> QED BY <2>2, <3>1 DEF WalkOn, Cells
  <2> QED BY <2>1, <2>2 DEF Inv, WalkOn, Cells
<1> QED BY <1>1, <1>2 DEF Inv

(* What each call does to the heap. *)
LEMMA InsertsStep ==
  ASSUME Inv, UNCHANGED kind, NEW m \in Maps, NEW key \in Keys, NEW value \in Values,
         Inserts(m, key, value)
  PROVE  /\ Inv'
         /\ \/ /\ key \in KeysOf(heap, m) /\ heap' = heap
               /\ Returns(<<"insert", m, key, value>>, 0)
            \/ \E elem \in Nodes \ heap.allocated :
                 /\ key \notin KeysOf(heap, m)
                 /\ Adds(heap, heap', m, {elem}) /\ Uses(heap, heap', elem, key, value)
                 /\ Returns(<<"insert", m, key, value>>, 1)
<1>1. WellFormed(heap) /\ UNCHANGED cursor
  BY DEF Inv, Inserts
<1> DEFINE r(elem) == InsertResult(heap, m, key, value, elem)
<1>2. PICK elem \in Nodes \ heap.allocated :
        heap' = r(elem).heap /\ Returns(<<"insert", m, key, value>>, r(elem).inserted)
  BY DEF Inserts, Fresh
<1>3. \/ key \in KeysOf(heap, m) /\ r(elem) = [heap |-> heap, inserted |-> 0]
      \/ /\ key \notin KeysOf(heap, m) /\ r(elem).inserted = 1
         /\ Adds(heap, r(elem).heap, m, {elem}) /\ Uses(heap, r(elem).heap, elem, key, value)
  BY <1>1, InsertLemma
<1> HIDE DEF r
<1>4. CASE key \in KeysOf(heap, m) /\ r(elem) = [heap |-> heap, inserted |-> 0]
  <2>1. heap' = heap /\ Returns(<<"insert", m, key, value>>, 0)
    BY <1>2, <1>4
  <2>2. Adds(heap, heap', m, {})
    BY <2>1, <1>1 DEF Adds
  <2>3. Inv'
    BY <2>2, <1>1, WalkOnGrows
  <2> QED BY <2>1, <2>3, <1>4
<1>5. CASE /\ key \notin KeysOf(heap, m) /\ r(elem).inserted = 1
           /\ Adds(heap, r(elem).heap, m, {elem}) /\ Uses(heap, r(elem).heap, elem, key, value)
  <2>1. Adds(heap, heap', m, {elem}) /\ Uses(heap, heap', elem, key, value)
        /\ Returns(<<"insert", m, key, value>>, 1)
    BY <1>2, <1>5
  <2>2. Inv'
    BY <2>1, <1>1, WalkOnGrows
  <2> QED BY <2>1, <2>2, <1>5
<1> QED BY <1>3, <1>4, <1>5

LEMMA CopiesStep ==
  ASSUME Inv, UNCHANGED kind, NEW src \in Maps, NEW dst \in Maps, src # dst, Copies(src, dst)
  PROVE  /\ Inv'
         /\ \E cells \in [1 .. Len(Backward(heap, src)) -> Nodes \ heap.allocated] :
              /\ \A j, l \in 1 .. Len(Backward(heap, src)) : cells[j] = cells[l] => j = l
              /\ Copied(heap, dst, Backward(heap, src), cells, heap', Len(Backward(heap, src)))
<1>1. WellFormed(heap) /\ UNCHANGED cursor
  BY DEF Inv, Copies
<1> DEFINE L == Len(Backward(heap, src))
<1>2. PICK cells \in [1 .. L -> Nodes \ heap.allocated] :
        /\ \A j, l \in 1 .. L : cells[j] = cells[l] => j = l
        /\ heap' = CopyResult(heap, src, dst, cells)
  BY DEF Copies, FreshCells, Fresh
<1>3. Copied(heap, dst, Backward(heap, src), cells, heap', L)
  BY <1>1, <1>2, CopyLemma
<1>4. Adds(heap, heap', dst, Taken(heap, dst, Backward(heap, src), cells, L))
  BY <1>3 DEF Copied
<1>5. Inv'
  BY <1>1, <1>4, WalkOnGrows
<1> QED BY <1>2, <1>3, <1>5

LEMMA FreesStep ==
  ASSUME Inv, UNCHANGED kind, NEW m \in Maps, Frees(m)
  PROVE  Inv'
<1> DEFINE g == FreeResult(heap, m)
<1>1. WellFormed(heap) /\ cursor \in [map: Maps \cup {NULL}, at: Nodes \cup {NULL}, unread: SUBSET Keys]
  BY DEF Inv
<1>2. /\ WellFormed(g)
      /\ \A k \in Maps : k # m => Cells(g, k) = Cells(heap, k) /\ KeysOf(g, k) = KeysOf(heap, k)
      /\ \A n \in Nodes \ Cells(heap, m) : g.node[n] = heap.node[n]
  BY <1>1, FreeLemma, FreeEntries
<1>3. heap' = g /\ cursor' = IF cursor.map = m THEN NoWalk ELSE cursor
  BY DEF Frees
<1> HIDE DEF g
<1>4. cursor' \in [map: Maps \cup {NULL}, at: Nodes \cup {NULL}, unread: SUBSET Keys]
  BY <1>1, <1>3 DEF NoWalk
<1>5. WalkOn'
  <2>1. CASE cursor.map = m
    BY <2>1, <1>3 DEF WalkOn, NoWalk
  <2>2. CASE cursor.map # m /\ cursor.at = NULL /\ cursor.unread = {}
    BY <2>2, <1>3 DEF WalkOn
  <2>3. CASE /\ cursor.map # m /\ cursor.map \in Maps
             /\ cursor.at \in Cells(heap, cursor.map)
             /\ cursor.unread \subseteq KeysOf(heap, cursor.map)
             /\ \A k \in cursor.unread : heap.node[cursor.at].key < k
    <3>1. cursor.at \in Nodes \ Cells(heap, m)
      BY <2>3, <1>1, WellFormedCells
    <3>2. g.node[cursor.at] = heap.node[cursor.at]
      BY <3>1, <1>2
    <3>3. Cells(g, cursor.map) = Cells(heap, cursor.map) /\ KeysOf(g, cursor.map) = KeysOf(heap, cursor.map)
      BY <2>3, <1>2
    <3> QED BY <2>3, <3>2, <3>3, <1>3 DEF WalkOn, Cells
  <2> QED BY <2>1, <2>2, <2>3 DEF Inv, WalkOn, Cells
<1> QED BY <1>2, <1>3, <1>4, <1>5 DEF Inv
(* The order of the cells of a list is that of their keys. *)
LEMMA KeyOrder ==
  ASSUME NEW h \in HeapType, NEW m \in Maps, NEW s, ListOf(h, m, s),
         NEW i \in 1 .. Len(s), NEW j \in 1 .. Len(s), h.node[s[i]].key < h.node[s[j]].key
  PROVE  i < j
<1>1. s[i] \in Nodes /\ s[j] \in Nodes
  BY DEF ListOf
<1>2. h.node[s[i]].key \in Int /\ h.node[s[j]].key \in Int
  BY <1>1, HeapFields
<1>3. ~(j < i)
  <2> SUFFICES ASSUME j < i PROVE FALSE
    OBVIOUS
  <2>1. h.node[s[j]].key < h.node[s[i]].key
    BY DEF ListOf, Increasing
  <2> QED BY <2>1, <1>2
<1>4. i # j
  BY <1>2
<1> QED BY <1>3, <1>4

LEMMA BeginStep ==
  ASSUME Inv, UNCHANGED kind, NEW m \in Maps, Begin(m)
  PROVE  Inv'
<1> DEFINE n == heap.list[m].first
           s == Forward(heap, m)
<1>1. heap \in HeapType /\ ListOf(heap, m, s) /\ heap' = heap /\ kind' \in Kinds
  BY DEF Inv, WellFormed, Begin
<1>2. cursor' = [map |-> m, at |-> n, unread |-> Unread(KeysOf(heap, m), n)]
  BY DEF Begin
<1> HIDE DEF s
<1>3. s \in Seq(Nodes) /\ Len(s) \in Nat /\ n = CellAt(s, 1)
      /\ \A c : c \in Cells(heap, m) <=> \E i \in 1 .. Len(s) : s[i] = c
  BY <1>1 DEF ListOf, Ends, Cells, s, ToSet
<1>4. KeysOf(heap, m) = {heap.node[c].key : c \in Cells(heap, m)}
  BY DEF KeysOf, Cells
<1>5. KeysOf(heap, m) \subseteq Keys
  BY <1>1, <1>3, <1>4, HeapFields
<1>6. CASE s = <<>>
  <2>1. n = NULL /\ Cells(heap, m) = {}
    BY <1>3, <1>6 DEF CellAt
  <2>2. cursor'.at = NULL /\ cursor'.unread = {}
    BY <2>1, <1>2, <1>4 DEF Unread
  <2>3. cursor' \in [map: Maps \cup {NULL}, at: Nodes \cup {NULL}, unread: SUBSET Keys]
    BY <1>2, <2>1, <2>2
  <2>4. WalkOn'
    BY <2>2 DEF WalkOn
  <2> QED BY <2>3, <2>4, <1>1 DEF Inv, WellFormed
<1>7. CASE s # <<>>
  <2>1. 1 \in 1 .. Len(s) /\ n = s[1] /\ n \in Nodes /\ n # NULL /\ n \in Cells(heap, m)
    <3>1. 1 \in 1 .. Len(s)
      BY <1>3, <1>7
    <3> QED BY <3>1, <1>3, MapAssumption DEF CellAt
  <2>2. cursor' = [map |-> m, at |-> n, unread |-> KeysOf(heap, m) \ {heap.node[n].key}]
    BY <2>1, <1>2 DEF Unread
  <2> HIDE DEF n
  <2>3. ASSUME NEW k \in KeysOf(heap, m) \ {heap.node[n].key} PROVE heap.node[n].key < k
    <3>1. PICK i \in 1 .. Len(s) : k = heap.node[s[i]].key
      BY <1>3, <1>4
    <3>2. 1 < i
      BY <2>1, <2>3, <3>1
    <3> QED BY <3>1, <3>2, <2>1, <1>1 DEF ListOf, Increasing
  <2>4. cursor' \in [map: Maps \cup {NULL}, at: Nodes \cup {NULL}, unread: SUBSET Keys]
    BY <2>1, <2>2, <1>5
  <2>5. WalkOn'
    BY <2>1, <2>2, <2>3, <1>1 DEF WalkOn, Cells
  <2> QED BY <2>4, <2>5, <1>1 DEF Inv, WellFormed
<1> QED BY <1>6, <1>7

LEMMA StepStep ==
  ASSUME Inv, UNCHANGED kind, Step
  PROVE  Inv'
<1> DEFINE m == cursor.map
           s == Forward(heap, m)
           n == IteratorNext(heap, cursor.at)
<1>1. /\ m \in Maps /\ cursor.at \in Cells(heap, m) /\ cursor.unread \subseteq KeysOf(heap, m)
      /\ \A k \in cursor.unread : heap.node[cursor.at].key < k
      /\ cursor \in [map: Maps \cup {NULL}, at: Nodes \cup {NULL}, unread: SUBSET Keys]
  BY DEF Inv, WalkOn, Step, Cells
<1>2. heap \in HeapType /\ ListOf(heap, m, s) /\ heap' = heap /\ kind' \in Kinds
  BY <1>1 DEF Inv, WellFormed, Step
<1>3. cursor.at # NULL /\ cursor' = [cursor EXCEPT !.at = n, !.unread = Unread(@, n)]
  BY DEF Step
<1> HIDE DEF s, m, n
<1>4. s \in Seq(Nodes) /\ Len(s) \in Nat
      /\ \A c : c \in Cells(heap, m) <=> \E i \in 1 .. Len(s) : s[i] = c
  BY <1>2 DEF ListOf, Cells, s, ToSet
<1>5. PICK i \in 1 .. Len(s) : cursor.at = s[i]
  BY <1>1, <1>4
<1>6. n = CellAt(s, i + 1)
  BY <1>2, <1>3, <1>5 DEF n, IteratorNext, ListOf, Linked
<1>7. KeysOf(heap, m) = {heap.node[c].key : c \in Cells(heap, m)}
  BY DEF KeysOf, Cells
<1>8. \A k \in cursor.unread : \E j \in 1 .. Len(s) : i < j /\ k = heap.node[s[j]].key
  <2> SUFFICES ASSUME NEW k \in cursor.unread
               PROVE  \E j \in 1 .. Len(s) : i < j /\ k = heap.node[s[j]].key
    OBVIOUS
  <2>1. PICK j \in 1 .. Len(s) : k = heap.node[s[j]].key
    BY <1>1, <1>4, <1>7
  <2>2. heap.node[s[i]].key < heap.node[s[j]].key
    BY <2>1, <1>1, <1>5
  <2>3. i < j
    BY <2>2, <1>1, <1>2, KeyOrder
  <2> QED BY <2>1, <2>3
<1>9. CASE i = Len(s)
  <2>1. n = NULL
    BY <1>4, <1>6, <1>9 DEF CellAt
  <2>2. cursor.unread = {}
    BY <1>8, <1>9, <1>4
  <2>3. cursor' = [cursor EXCEPT !.at = NULL, !.unread = {}]
    BY <2>1, <2>2, <1>3 DEF Unread
  <2>4. cursor' \in [map: Maps \cup {NULL}, at: Nodes \cup {NULL}, unread: SUBSET Keys]
        /\ cursor'.at = NULL /\ cursor'.unread = {}
    BY <2>3, <1>1
  <2>5. WalkOn'
    BY <2>4 DEF WalkOn
  <2> QED BY <2>4, <2>5, <1>2 DEF Inv, WellFormed
<1>10. CASE i # Len(s)
  <2>1. i + 1 \in 1 .. Len(s) /\ n = s[i + 1] /\ n \in Nodes /\ n # NULL /\ n \in Cells(heap, m)
    <3>1. i + 1 \in 1 .. Len(s)
      BY <1>4, <1>10
    <3> QED BY <3>1, <1>4, <1>6, MapAssumption DEF CellAt
  <2> DEFINE rest == cursor.unread \ {heap.node[n].key}
  <2>2. cursor' = [cursor EXCEPT !.at = n, !.unread = rest]
    BY <2>1, <1>3 DEF Unread
  <2>3. ASSUME NEW k \in rest PROVE heap.node[n].key < k
    <3>1. PICK j \in 1 .. Len(s) : i < j /\ k = heap.node[s[j]].key
      BY <1>8
    <3>2. i + 1 < j
      BY <2>1, <2>3, <3>1
    <3> QED BY <3>1, <3>2, <2>1, <1>2 DEF ListOf, Increasing
  <2>4. rest \subseteq Keys /\ rest \subseteq KeysOf(heap, m)
    BY <1>1
  <2> HIDE DEF rest
  <2>5. cursor' \in [map: Maps \cup {NULL}, at: Nodes \cup {NULL}, unread: SUBSET Keys]
        /\ cursor'.map = m /\ cursor'.at = n /\ cursor'.unread = rest
    BY <2>1, <2>2, <2>4, <1>1 DEF m
  <2>6. WalkOn'
    BY <2>1, <2>3, <2>4, <2>5, <1>1, <1>2 DEF WalkOn, Cells
  <2> QED BY <2>5, <2>6, <1>2 DEF Inv, WellFormed
<1> QED BY <1>9, <1>10

(* What a step may be: a call, the client's walk, or nothing. *)
LEMMA NextCases ==
  ASSUME [Next]_vars
  PROVE  /\ UNCHANGED kind
         /\ \/ \E m \in Maps, key \in Keys, value \in Values : Inserts(m, key, value)
            \/ \E m \in Maps, src \in Maps : src # m /\ Copies(src, m)
            \/ \E m \in Maps : Frees(m)
            \/ \E m \in Maps : Begin(m)
            \/ Step
            \/ UNCHANGED vars
<1>1. CASE UNCHANGED vars
  BY <1>1 DEF vars
<1>2. CASE Next
  <2>1. SetValue \in Values
    BY MapAssumption DEF SetValue
  <2> QED BY <1>2, <2>1 DEF Next, Insert, InsertInSet, Copy, CopySet, Free, FreeSet
<1> QED BY <1>1, <1>2

LEMMA InvStep == Inv /\ [Next]_vars => Inv'
<1> SUFFICES ASSUME Inv, [Next]_vars PROVE Inv'
  OBVIOUS
<1>1. UNCHANGED kind
  BY NextCases
<1>2. ASSUME NEW m \in Maps, NEW key \in Keys, NEW value \in Values, Inserts(m, key, value)
      PROVE  Inv'
  BY <1>1, <1>2, InsertsStep
<1>3. ASSUME NEW m \in Maps, NEW src \in Maps, src # m, Copies(src, m) PROVE Inv'
  BY <1>1, <1>3, CopiesStep
<1>4. ASSUME NEW m \in Maps, Frees(m) PROVE Inv'
  BY <1>1, <1>4, FreesStep
<1>5. ASSUME NEW m \in Maps, Begin(m) PROVE Inv'
  BY <1>1, <1>5, BeginStep
<1>6. CASE Step
  BY <1>1, <1>6, StepStep
<1>7. CASE UNCHANGED vars
  BY <1>7 DEF vars, Inv, WellFormed, WalkOn, KeysOf, Forward, Nexts
<1> QED BY <1>2, <1>3, <1>4, <1>5, <1>6, <1>7, NextCases

(* The lists stay sorted and linked, and the walk stays on its list. *)
THEOREM Invariant == Spec => []Inv
  BY InitInv, InvStep, PTL DEF Spec
-----------------------------------------------------------------------------
(* The lists and the walk hold cells in use only: what the cells must be   *)
(* for map.c to read and write them.                                       *)
THEOREM MapTypeCorrect == Spec => []TypeOK
<1>1. Inv => TypeOK
  <2> SUFFICES ASSUME Inv PROVE TypeOK
    OBVIOUS
  <2>1. WellFormed(heap) /\ heap \in HeapType
    BY DEF Inv, WellFormed
  <2>2. ASSUME NEW m \in Maps
        PROVE  heap.list[m].first \in Pointer /\ heap.list[m].last \in Pointer
    <3> DEFINE s == Forward(heap, m)
    <3>1. ListOf(heap, m, s)
      BY <2>1 DEF WellFormed
    <3> HIDE DEF s
    <3>2. \A i : CellAt(s, i) \in Pointer
      BY <3>1 DEF ListOf, InUse, CellAt, Pointer
    <3> QED BY <3>1, <3>2 DEF ListOf, Ends
  <2>3. heap \in [node: [Nodes -> Cell], allocated: SUBSET Nodes,
                  list: [Maps -> [first: Pointer, last: Pointer]]]
    <3>1. heap.list \in [Maps -> [first: Pointer, last: Pointer]]
      BY <2>1, <2>2 DEF HeapType
    <3> QED BY <2>1, <3>1 DEF HeapType
  <2>4. cursor.at \in Pointer
    <3>1. CASE cursor.at = NULL
      BY <3>1 DEF Pointer
    <3>2. CASE cursor.map \in Maps /\ cursor.at \in Cells(heap, cursor.map)
      BY <3>2, <2>1, WellFormedCells DEF Pointer
    <3> QED BY <3>1, <3>2 DEF Inv, WalkOn, Cells
  <2>5. cursor \in [map: Maps \cup {NULL}, at: Pointer, unread: SUBSET Keys]
    BY <2>4 DEF Inv
  <2> QED BY <2>3, <2>5 DEF Inv, TypeOK
<1> QED BY <1>1, Invariant, PTL

(* Each list reads the same from its end back, as pelib_copy and           *)
(* pelib_free_buffer need, and lists share no cell.                        *)
THEOREM ListsCorrect == Spec => []ListsWellLinked
<1>1. Inv => ListsWellLinked
  <2> SUFFICES ASSUME Inv PROVE ListsWellLinked
    OBVIOUS
  <2>1. WellFormed(heap) /\ heap \in HeapType
    BY DEF Inv, WellFormed
  <2>2. ASSUME NEW m \in Maps PROVE Backward(heap, m) = Reverse(Forward(heap, m))
    <3>1. ListOf(heap, m, Forward(heap, m))
      BY <2>1 DEF WellFormed
    <3> QED BY <3>1, <2>1, Followed
  <2>3. \A m \in Maps : \A n \in ToSet(Forward(heap, m)) : n \in heap.allocated
    BY <2>1, WellFormedCells DEF Cells
  <2> QED BY <2>1, <2>2, <2>3 DEF WellFormed, ListsWellLinked
<1> QED BY <1>1, Invariant, PTL

(* A client that walks a map with begin and next while it inserts into it  *)
(* reads every key that was there.                                         *)
THEOREM WalkCorrect == Spec => []WalkMissesNoKey
<1>1. Inv => WalkMissesNoKey
  <2> SUFFICES ASSUME Inv, NEW k \in cursor.unread
               PROVE  cursor.at # NULL /\ heap.node[cursor.at].key < k
    BY DEF WalkMissesNoKey
  <2>1. cursor.map \in Maps /\ cursor.at \in Cells(heap, cursor.map)
        /\ heap.node[cursor.at].key < k
    BY DEF Inv, WalkOn, Cells
  <2>2. cursor.at \in Nodes
    BY <2>1, WellFormedCells DEF Inv
  <2> QED BY <2>1, <2>2, MapAssumption
<1> QED BY <1>1, Invariant, PTL

(* map.c:181 ignores what pelib_map_insert_element returns: a copy loses   *)
(* one cell for each key that the destination had, and no other call loses *)
(* any.                                                                    *)
THEOREM LossCorrect == Spec => LosesOnlyRefusedCopies
<1> DEFINE refused == IF call'.asked[1] # "copy" THEN {}
                      ELSE KeysOf(heap, call'.asked[2]) \cap KeysOf(heap, call'.asked[3])
           Loss == /\ Lost(heap) \subseteq Lost(heap')
                   /\ Cardinality(Lost(heap') \ Lost(heap)) = Cardinality(refused)
<1>1. Inv /\ [Next]_vars => [Loss]_<<heap, call>>
  <2> SUFFICES ASSUME Inv, [Next]_vars, ~ UNCHANGED <<heap, call>> PROVE Loss
    OBVIOUS
  <2>1. WellFormed(heap) /\ UNCHANGED kind
    BY NextCases DEF Inv
  <2>2. ASSUME Lost(heap') = Lost(heap), call'.asked[1] # "copy" PROVE Loss
    <3>1. Lost(heap') \ Lost(heap) = {} /\ refused = {}
      BY <2>2
    <3> QED BY <3>1, <2>2
  <2>3. ASSUME NEW m \in Maps, NEW key \in Keys, NEW value \in Values, Inserts(m, key, value)
        PROVE  Loss
    <3>1. call'.asked[1] # "copy"
      BY <2>3 DEF Inserts, Returns
    <3>2. CASE heap' = heap
      BY <2>2, <3>1, <3>2
    <3>3. ASSUME NEW elem \in Nodes \ heap.allocated,
                 Adds(heap, heap', m, {elem}), Uses(heap, heap', elem, key, value)
          PROVE  Lost(heap') = Lost(heap)
      <4>1. heap'.allocated = heap.allocated \cup {elem} /\ {elem} \cap heap.allocated = {}
        BY <3>3 DEF Uses
      <4>2. Lost(heap') = Lost(heap) \cup ({elem} \ {elem})
        BY <4>1, <3>3, <2>1, AddsLost
      <4> QED BY <4>2
    <3>4. \/ heap' = heap
          \/ \E elem \in Nodes \ heap.allocated :
               Adds(heap, heap', m, {elem}) /\ Uses(heap, heap', elem, key, value)
      BY <2>1, <2>3, InsertsStep
    <3> HIDE DEF Loss
    <3> QED BY <2>2, <3>1, <3>2, <3>3, <3>4
  <2>4. ASSUME NEW dst \in Maps, NEW src \in Maps, src # dst, Copies(src, dst) PROVE Loss
    <3> DEFINE L == Len(Backward(heap, src))
    <3>1. PICK cells \in [1 .. L -> Nodes \ heap.allocated] :
            /\ \A j, l \in 1 .. L : cells[j] = cells[l] => j = l
            /\ Copied(heap, dst, Backward(heap, src), cells, heap', L)
      BY <2>1, <2>4, CopiesStep
    <3>2. refused = KeysOf(heap, src) \cap KeysOf(heap, dst)
      BY <2>4 DEF Copies, Returns
    <3>3. LosesShared(heap, heap', src, dst)
      BY <2>1, <2>4, <3>1, CopyLost
    <3> HIDE DEF refused
    <3> QED BY <3>2, <3>3 DEF LosesShared
  <2>5. ASSUME NEW m \in Maps, Frees(m) PROVE Loss
    <3>1. heap' = FreeResult(heap, m) /\ call'.asked[1] # "copy"
      BY <2>5 DEF Frees, Returns
    <3>2. /\ Cells(heap', m) = {} /\ heap'.allocated = heap.allocated \ Cells(heap, m)
          /\ \A k \in Maps : k # m => Cells(heap', k) = Cells(heap, k)
      BY <2>1, <3>1, FreeLemma
    <3>3. \A k \in Maps : k # m => Cells(heap, k) \cap Cells(heap, m) = {}
      BY <2>1, WellFormedCells
    <3>4. \A h : InLists(h) = UNION {Cells(h, k) : k \in Maps}
      BY DEF InLists, Cells
    <3>5. InLists(heap') = InLists(heap) \ Cells(heap, m)
      BY <3>2, <3>3, <3>4
    <3>6. Cells(heap, m) \subseteq InLists(heap)
      BY <3>4
    <3>7. Lost(heap') = Lost(heap)
      BY <3>2, <3>5, <3>6 DEF Lost
    <3> QED BY <2>2, <3>1, <3>7
  <2>6. ASSUME NEW m \in Maps, Begin(m) PROVE UNCHANGED <<heap, call>>
    BY <2>6 DEF Begin
  <2>7. Step => UNCHANGED <<heap, call>>
    BY DEF Step
  <2>8. UNCHANGED vars => UNCHANGED <<heap, call>>
    BY DEF vars
  <2> HIDE DEF Loss
  <2> QED BY <2>3, <2>4, <2>5, <2>6, <2>7, <2>8, NextCases
<1>2. [][Loss]_<<heap, call>> => LosesOnlyRefusedCopies
  BY DEF LosesOnlyRefusedCopies
<1> QED BY <1>1, <1>2, Invariant, PTL DEF Spec
-----------------------------------------------------------------------------
(* Two pairs compare to a number, and in the other order to its opposite.  *)
LEMMA ComparePairs ==
  ASSUME NEW p, NEW q, p.key \in Keys, p.value \in Values, q.key \in Keys, q.value \in Values
  PROVE  /\ ComparePair(p, q) \in Int /\ ComparePair(q, p) = - ComparePair(p, q)
         /\ ComparePair(p, q) = 0 <=> p.key = q.key /\ p.value = q.value
<1>1. /\ p.key \in Int /\ q.key \in Int /\ p.value \in Int /\ q.value \in Int
      /\ CompareInt(p.key, q.key) = p.key - q.key /\ CompareInt(q.key, p.key) = q.key - p.key
      /\ CompareInt(p.value, q.value) = p.value - q.value
      /\ CompareInt(q.value, p.value) = q.value - p.value
  BY CompareIsDifference
<1> QED BY <1>1 DEF ComparePair

LEMMA CompareSwaps ==
  ASSUME NEW h, WellFormed(h), NEW m1 \in Maps, NEW m2 \in Maps, Compare(h, m1, m2) # Crash
  PROVE  Compare(h, m2, m1) # Crash /\ Compare(h, m1, m2) * Compare(h, m2, m1) < 0
<1> DEFINE s1 == Forward(h, m1)
           s2 == Forward(h, m2)
           b == Min({Len(s1), Len(s2)})
           P(i) == ComparePair(h.node[s1[i]], h.node[s2[i]])
           Q(i) == ComparePair(h.node[s2[i]], h.node[s1[i]])
           S == {i \in 1 .. b : P(i) # 0}
           T == {i \in 1 .. b : Q(i) # 0}
<1>1. s1 \in Seq(Nodes) /\ s2 \in Seq(Nodes) /\ h \in HeapType
  BY DEF WellFormed, ListOf
<1>2. {Len(s2), Len(s1)} = {Len(s1), Len(s2)}
  OBVIOUS
<1>3. Compare(h, m1, m2) =
        IF S # {} THEN P(Min(S)) ELSE IF Len(s1) < Len(s2) THEN 1
        ELSE IF Len(s1) > Len(s2) THEN -1 ELSE Crash
  BY DEF Compare
<1>4. Compare(h, m2, m1) =
        IF T # {} THEN Q(Min(T)) ELSE IF Len(s2) < Len(s1) THEN 1
        ELSE IF Len(s2) > Len(s1) THEN -1 ELSE Crash
  BY <1>2 DEF Compare
<1> HIDE DEF s1, s2
<1>5. Len(s1) \in Nat /\ Len(s2) \in Nat
  BY <1>1
<1>6. b \in Nat /\ b <= Len(s1) /\ b <= Len(s2)
  <2> DEFINE R == {Len(s1), Len(s2)}
  <2>1. R \in SUBSET Nat /\ R # {} /\ Len(s1) \in R /\ Len(s2) \in R
    BY <1>5
  <2> HIDE DEF R
  <2>2. Min(R) \in R /\ \A y \in R : Min(R) <= y
    BY <2>1, MinLemma
  <2> QED BY <2>1, <2>2 DEF R
<1> HIDE DEF b
<1>7. \A i \in 1 .. b : P(i) \in Int /\ Q(i) = - P(i)
  <2> SUFFICES ASSUME NEW i \in 1 .. b PROVE P(i) \in Int /\ Q(i) = - P(i)
    OBVIOUS
  <2>1. s1[i] \in Nodes /\ s2[i] \in Nodes
    BY <1>1, <1>5, <1>6
  <2>2. /\ h.node[s1[i]].key \in Keys /\ h.node[s1[i]].value \in Values
        /\ h.node[s2[i]].key \in Keys /\ h.node[s2[i]].value \in Values
    BY <2>1, <1>1, HeapFields, MapAssumption
  <2> QED BY <2>2, ComparePairs
<1> HIDE DEF P, Q
<1>8. S = T
  BY <1>7
<1>9. CASE S # {}
  <2> DEFINE i == Min(S)
  <2>1. S \in SUBSET Nat
    BY <1>6
  <2> HIDE DEF S
  <2>2. i \in S
    BY <2>1, <1>9, MinLemma
  <2> HIDE DEF i
  <2>3. i \in 1 .. b /\ P(i) # 0
    BY <2>2 DEF S
  <2> DEFINE x == P(i)
  <2>4. x \in Int /\ x # 0 /\ Q(i) = - x
    BY <2>3, <1>7
  <2>5. Compare(h, m1, m2) = x /\ Compare(h, m2, m1) = - x
    <3> HIDE DEF T
    <3> QED BY <2>4, <1>3, <1>4, <1>8, <1>9 DEF i
  <2> HIDE DEF x
  <2>6. - x \in Int /\ x * (- x) < 0
    <3>1. x > 0 \/ x < 0
      BY <2>4
    <3>2. x > 0 => x * (- x) < 0
      BY <2>4
    <3>3. x < 0 => x * (- x) < 0
      BY <2>4
    <3> QED BY <3>1, <3>2, <3>3, <2>4
  <2>7. - x # Crash
    BY <2>6, MapAssumption DEF Crash
  <2> QED BY <2>5, <2>6, <2>7
<1>10. CASE S = {}
  <2> HIDE DEF S, T
  <2>1. Len(s1) < Len(s2) \/ Len(s2) < Len(s1)
    BY <1>3, <1>5, <1>10
  <2>2. 1 # Crash /\ -1 # Crash
    BY MapAssumption DEF Crash
  <2>3. CASE Len(s1) < Len(s2)
    <3>1. Compare(h, m1, m2) = 1 /\ Compare(h, m2, m1) = -1
      BY <2>3, <1>3, <1>4, <1>5, <1>8, <1>10
    <3> QED BY <3>1, <2>2
  <2>4. CASE Len(s2) < Len(s1)
    <3>1. Compare(h, m1, m2) = -1 /\ Compare(h, m2, m1) = 1
      BY <2>4, <1>3, <1>4, <1>5, <1>8, <1>10
    <3> QED BY <3>1, <2>2
  <2> QED BY <2>1, <2>3, <2>4
<1> QED BY <1>9, <1>10

LEMMA BeginningIsGreater ==
  ASSUME NEW h, WellFormed(h), NEW m1 \in Maps, NEW m2 \in Maps, BeginningOf(h, m1, m2)
  PROVE  Compare(h, m1, m2) = 1
<1> DEFINE s1 == Forward(h, m1)
           s2 == Forward(h, m2)
           b == Min({Len(s1), Len(s2)})
           P(i) == ComparePair(h.node[s1[i]], h.node[s2[i]])
           S == {i \in 1 .. b : P(i) # 0}
<1>1. s1 \in Seq(Nodes) /\ s2 \in Seq(Nodes) /\ h \in HeapType
  BY DEF WellFormed, ListOf
<1>2. Compare(h, m1, m2) =
        IF S # {} THEN P(Min(S)) ELSE IF Len(s1) < Len(s2) THEN 1
        ELSE IF Len(s1) > Len(s2) THEN -1 ELSE Crash
  BY DEF Compare
<1>3. /\ Len(s1) < Len(s2)
      /\ \A i \in 1 .. Len(s1) : /\ h.node[s1[i]].key = h.node[s2[i]].key
                                 /\ h.node[s1[i]].value = h.node[s2[i]].value
  BY DEF BeginningOf
<1> HIDE DEF s1, s2
<1>4. Len(s1) \in Nat /\ Len(s2) \in Nat
  BY <1>1
<1>5. b \in Nat /\ b <= Len(s1)
  <2> DEFINE R == {Len(s1), Len(s2)}
  <2>1. R \in SUBSET Nat /\ R # {} /\ Len(s1) \in R
    BY <1>4
  <2> HIDE DEF R
  <2>2. Min(R) \in R /\ \A y \in R : Min(R) <= y
    BY <2>1, MinLemma
  <2> QED BY <2>1, <2>2 DEF R
<1> HIDE DEF b
<1>6. ASSUME NEW i \in 1 .. b PROVE P(i) = 0
  <2>1. s1[i] \in Nodes /\ s2[i] \in Nodes /\ i \in 1 .. Len(s1)
    BY <1>1, <1>3, <1>4, <1>5
  <2>2. /\ h.node[s1[i]].key \in Keys /\ h.node[s1[i]].value \in Values
        /\ h.node[s2[i]].key \in Keys /\ h.node[s2[i]].value \in Values
    BY <1>1, <2>1, HeapFields, MapAssumption
  <2> QED BY <2>1, <2>2, <1>3, ComparePairs
<1>7. S = {}
  BY <1>6
<1> HIDE DEF S
<1> QED BY <1>2, <1>3, <1>7

LEMMA SizeCounts ==
  ASSUME NEW h, WellFormed(h), NEW m \in Maps
  PROVE  Size(h, m) = Cardinality(KeysOf(h, m))
<1> DEFINE s == Forward(h, m)
<1>1. h \in HeapType /\ ListOf(h, m, s)
  BY DEF WellFormed
<1>2. Size(h, m) = Len(s) /\ KeysOf(h, m) = {h.node[n].key : n \in ToSet(s)}
  BY DEF Size, KeysOf
<1> HIDE DEF s
<1>3. s \in Seq(Nodes) /\ Len(s) \in Nat
  BY <1>1 DEF ListOf
<1>4. \A i, j \in 1 .. Len(s) : s[i] = s[j] => i = j
  BY <1>1, <1>3, DistinctCells DEF ListOf
<1> DEFINE C == {s[i] : i \in 1 .. Len(s)}
<1>5. Cardinality(C) = Len(s)
  BY <1>3, <1>4, ListLength
<1>6. C = ToSet(s) /\ C = Cells(h, m) /\ C \subseteq Nodes
  BY <1>3 DEF ToSet, Cells, s
<1>7. \A n, o \in C : h.node[n].key = h.node[o].key => n = o
  BY <1>6, WellFormedCells
<1> HIDE DEF C
<1>8. IsFiniteSet(C)
  BY <1>6, MapAssumption, FS_Subset
<1> DEFINE K == {h.node[n].key : n \in C}
           f == [n \in C |-> h.node[n].key]
<1>9. f \in Bijection(C, K)
  BY <1>7 DEF Bijection, Injection, Surjection, IsInjective
<1>10. ExistsBijection(C, K)
  BY <1>9 DEF ExistsBijection
<1> HIDE DEF K, f
<1>11. Cardinality(K) = Cardinality(C)
  BY <1>8, <1>10, FS_Bijection
<1> QED BY <1>2, <1>5, <1>6, <1>11 DEF K

(* iterator.c:187 looks at the cell after start in every round. *)
LEMMA DistanceLemma ==
  ASSUME NEW h, WellFormed(h), NEW m \in Maps, NEW s, s = Forward(h, m),
         NEW i \in 1 .. Len(s), NEW j \in 1 .. Len(s)
  PROVE  Distance(h, s[i], s[j]) \in IF j - i \in {0, 1} THEN {j - i} ELSE {Forever, Crash}
<1>1. h \in HeapType /\ ListOf(h, m, s) /\ s \in Seq(Nodes) /\ Len(s) \in Nat
  BY DEF WellFormed, ListOf
<1>2. \A k \in 1 .. Len(s) : s[k] \in Nodes /\ s[k] # NULL /\ s[k] \in Cells(h, m)
  BY <1>1, MapAssumption DEF Cells, ToSet
<1>3. \A k, l \in 1 .. Len(s) : s[k] = s[l] => k = l
  BY <1>1, DistinctCells DEF ListOf
<1> DEFINE Same(n) == ComparePair(h.node[n], h.node[s[j]]) = 0
<1>4. ASSUME NEW k \in 1 .. Len(s) PROVE Same(s[k]) <=> k = j
  <2>1. /\ h.node[s[k]].key \in Keys /\ h.node[s[k]].value \in Values
        /\ h.node[s[j]].key \in Keys /\ h.node[s[j]].value \in Values
    BY <1>1, <1>2, HeapFields, MapAssumption
  <2>2. Same(s[k]) <=> h.node[s[k]].key = h.node[s[j]].key /\ h.node[s[k]].value = h.node[s[j]].value
    BY <2>1, ComparePairs
  <2>3. h.node[s[k]].key = h.node[s[j]].key => s[k] = s[j]
    BY <1>2, WellFormedCells
  <2> QED BY <2>2, <2>3, <1>3
<1>5. IteratorNext(h, s[i]) = CellAt(s, i + 1)
  BY <1>1, <1>2 DEF IteratorNext, ListOf, Linked
<1>6. Distance(h, s[i], s[j]) =
        IF Same(s[i]) THEN 0
        ELSE IF CellAt(s, i + 1) = NULL THEN Crash
        ELSE IF Same(CellAt(s, i + 1)) THEN 1 ELSE Forever
  BY <1>5 DEF Distance
<1> HIDE DEF Same
<1>7. CASE i = j
  <2>1. Distance(h, s[i], s[j]) = 0 /\ j - i = 0
    BY <1>4, <1>6, <1>7
  <2> QED BY <2>1
<1>8. CASE i # j /\ i = Len(s)
  <2>1. CellAt(s, i + 1) = NULL /\ j - i \notin {0, 1}
    BY <1>1, <1>8 DEF CellAt
  <2> QED BY <2>1, <1>4, <1>6, <1>8
<1>9. CASE i # j /\ i # Len(s)
  <2>1. i + 1 \in 1 .. Len(s) /\ CellAt(s, i + 1) = s[i + 1]
    BY <1>1, <1>9 DEF CellAt
  <2>2. CellAt(s, i + 1) # NULL /\ (Same(CellAt(s, i + 1)) <=> i + 1 = j)
    BY <2>1, <1>2, <1>4
  <2>3. ~Same(s[i])
    BY <1>4, <1>9
  <2>4. CASE i + 1 = j
    <3>1. j - i = 1 /\ Distance(h, s[i], s[j]) = 1
      BY <2>2, <2>3, <2>4, <1>6
    <3> QED BY <3>1
  <2>5. CASE i + 1 # j
    <3>1. j - i \notin {0, 1} /\ Distance(h, s[i], s[j]) = Forever
      BY <2>2, <2>3, <2>5, <1>6, <1>9
    <3> QED BY <3>1
  <2> QED BY <2>4, <2>5
<1> QED BY <1>7, <1>8, <1>9

(* What pelib_compare, pelib_map_size and pelib_pelib_iterator_distance    *)
(* answer fits the lists: swapping two maps swaps their order, and the     *)
(* distance is right when it is 0 or 1.                                    *)
THEOREM ObserversCorrect == Spec => []ObserversAgree
<1>1. Inv => ObserversAgree
  <2> SUFFICES ASSUME Inv PROVE ObserversAgree
    OBVIOUS
  <2>1. WellFormed(heap)
    BY DEF Inv
  <2>2. ASSUME NEW m1 \in Maps, NEW m2 \in Maps, Compare(heap, m1, m2) # Crash
        PROVE  Compare(heap, m2, m1) # Crash /\ Compare(heap, m1, m2) * Compare(heap, m2, m1) < 0
    BY <2>1, <2>2, CompareSwaps
  <2>3. \A m1, m2 : CompareSets(heap, m1, m2) = Compare(heap, m1, m2)
    BY DEF CompareSets
  <2>4. \A m \in Maps : Size(heap, m) = Cardinality(KeysOf(heap, m))
    BY <2>1, SizeCounts
  <2>5. ASSUME NEW m \in Maps, NEW i \in 1 .. Len(Forward(heap, m)), NEW j \in 1 .. Len(Forward(heap, m))
        PROVE  Distance(heap, Forward(heap, m)[i], Forward(heap, m)[j]) \in
                 IF j - i \in {0, 1} THEN {j - i} ELSE {Forever, Crash}
    BY <2>1, DistanceLemma
  <2> DEFINE Of(a, b) == IF kind = "set" THEN CompareSets(heap, a, b) ELSE Compare(heap, a, b)
  <2>6. \A m1, m2 : Of(m1, m2) = Compare(heap, m1, m2)
    BY <2>3
  <2> HIDE DEF Of
  <2>7. ASSUME NEW m1 \in Maps, NEW m2 \in Maps, Of(m1, m2) # Crash
        PROVE  Of(m2, m1) # Crash /\ Of(m1, m2) * Of(m2, m1) < 0
    BY <2>2, <2>6, <2>7
  <2>8. ASSUME NEW m1 \in Maps, NEW m2 \in Maps, BeginningOf(heap, m1, m2)
        PROVE  Of(m1, m2) = 1
    BY <2>1, <2>6, <2>8, BeginningIsGreater
  <2> USE DEF Of
  <2> QED BY <2>4, <2>5, <2>7, <2>8, Zenon DEF ObserversAgree
<1> QED BY <1>1, Invariant, PTL
(* What the abstract map sees. *)
Meaning == [m \in Maps |-> Entries(heap, m)]

(* The lists implement maps: an insert adds a key with its value or finds  *)
(* it there, a copy adds the keys that the destination lacks, a free       *)
(* empties one map, and walking changes nothing.                           *)
THEOREM MapRefines == Spec => ImplementsMap
<1>1. Init => MapSpec!Init
  <2> SUFFICES ASSUME Init PROVE MapSpec!Init
    OBVIOUS
  <2>1. WellFormed(heap)
    BY InitInv DEF Inv
  <2>2. ASSUME NEW m \in Maps PROVE Entries(heap, m) = [k \in {} |-> 0]
    <3>1. heap.list[m].first = NULL
      BY DEF Init
    <3>2. ListOf(heap, m, Forward(heap, m))
      BY <2>1 DEF WellFormed
    <3>3. Cells(heap, m) = {}
      <4> DEFINE s == Forward(heap, m)
      <4>1. s \in Seq(Nodes) /\ CellAt(s, 1) = NULL
        BY <3>1, <3>2 DEF ListOf, Ends
      <4> HIDE DEF s
      <4>2. Len(s) = 0
        BY <4>1, MapAssumption DEF CellAt
      <4>3. ToSet(s) = {}
        BY <4>1, <4>2 DEF ToSet
      <4> QED BY <4>3 DEF Cells, s
    <3>4. IsTable(heap.node, {}, Entries(heap, m))
      BY <2>1, <3>3, EntriesTable
    <3>5. IsTable(heap.node, {}, [k \in {} |-> 0])
      BY DEF IsTable
    <3> QED BY <3>4, <3>5, OneTable
  <2> QED BY <2>2 DEF Init, MapSpec!Init, MapSpec!Empty
<1>2. Inv /\ [Next]_vars => [MapSpec!Next]_(MapSpec!vars)
  <2> SUFFICES ASSUME Inv, [Next]_vars PROVE MapSpec!Next \/ UNCHANGED MapSpec!vars
    OBVIOUS
  <2>1. WellFormed(heap) /\ UNCHANGED kind
    BY NextCases DEF Inv
  <2>2. \A m \in Maps : DOMAIN Entries(heap, m) = KeysOf(heap, m)
    BY <2>1, EntriesTable
  <2>3. \A m \in Maps : Meaning[m] = Entries(heap, m) /\ Meaning'[m] = Entries(heap, m)'
    BY DEF Meaning
  <2>4. ASSUME NEW m \in Maps, NEW key \in Keys, NEW value \in Values, Inserts(m, key, value)
        PROVE  MapSpec!Insert(m, key, value)
    <3>1. CASE /\ key \in KeysOf(heap, m) /\ heap' = heap
               /\ Returns(<<"insert", m, key, value>>, 0)
      <4>1. Meaning' = Meaning
        BY <3>1 DEF Meaning, Entries, Find, Forward, Nexts
      <4> QED BY <3>1, <4>1, <2>2 DEF MapSpec!Insert, MapSpec!Returns, Returns, Meaning
    <3>2. ASSUME NEW elem \in Nodes \ heap.allocated,
                 key \notin KeysOf(heap, m),
                 Adds(heap, heap', m, {elem}), Uses(heap, heap', elem, key, value),
                 Returns(<<"insert", m, key, value>>, 1)
          PROVE  MapSpec!Insert(m, key, value)
      <4> DEFINE f == [k \in KeysOf(heap, m) \cup {key} |->
                         IF k = key THEN value ELSE Entries(heap, m)[k]]
      <4>1. heap'.node[elem].key = key /\ heap'.node[elem].value = value
        BY <3>2 DEF Uses
      <4>2. f = [k \in DOMAIN f |-> f[k]] /\ f[key] = value
            /\ DOMAIN f = KeysOf(heap, m) \cup {heap'.node[n].key : n \in {elem}}
            /\ \A k \in KeysOf(heap, m) : f[k] = Entries(heap, m)[k]
        BY <4>1, <3>2
      <4> HIDE DEF f
      <4>3. Entries(heap', m) = f
        BY <2>1, <3>2, <4>1, <4>2, AddsEntries
      <4>4. \A k \in Maps : k # m => Entries(heap', k) = Entries(heap, k)
        BY <2>1, <3>2, AddsKeys
      <4>5. Meaning' = [Meaning EXCEPT ![m] = f]
        BY <4>3, <4>4 DEF Meaning
      <4> QED BY <3>2, <4>5, <2>2, <2>3 DEF MapSpec!Insert, MapSpec!Returns, Returns, Meaning, f
    <3> QED BY <2>1, <2>4, <3>1, <3>2, InsertsStep
  <2>5. ASSUME NEW dst \in Maps, NEW src \in Maps, src # dst, Copies(src, dst)
        PROVE  MapSpec!Copy(src, dst)
    <3> DEFINE L == Len(Backward(heap, src))
    <3>1. PICK cells \in [1 .. L -> Nodes \ heap.allocated] :
            Copied(heap, dst, Backward(heap, src), cells, heap', L)
      BY <2>1, <2>5, CopiesStep
    <3>2. Entries(heap', dst) = Merged(Entries(heap, src), Entries(heap, dst))
      BY <2>1, <2>5, <3>1, CopyMeaning
    <3>3. Adds(heap, heap', dst, Taken(heap, dst, Backward(heap, src), cells, L))
      BY <3>1 DEF Copied
    <3>4. \A k \in Maps : k # dst => Entries(heap', k) = Entries(heap, k)
      BY <2>1, <3>3, AddsKeys
    <3>5. Meaning' = [Meaning EXCEPT ![dst] = Merged(Meaning[src], Meaning[dst])]
      BY <3>2, <3>4 DEF Meaning
    <3>6. Returns(<<"copy", src, dst>>, 0)
      BY <2>5 DEF Copies
    <3> QED BY <3>5, <3>6 DEF MapSpec!Copy, MapSpec!Returns, Returns, Meaning, Merged
  <2>6. ASSUME NEW m \in Maps, Frees(m) PROVE MapSpec!Free(m)
    <3>1. heap' = FreeResult(heap, m) /\ Returns(<<"free", m>>, 1)
      BY <2>6 DEF Frees
    <3>2. Entries(heap', m) = [k \in {} |-> 0]
          /\ \A k \in Maps : k # m => Entries(heap', k) = Entries(heap, k)
      BY <2>1, <3>1, FreeEntries
    <3>3. Meaning' = [Meaning EXCEPT ![m] = [k \in {} |-> 0]]
      BY <3>2 DEF Meaning
    <3> QED BY <3>1, <3>3 DEF MapSpec!Free, MapSpec!Returns, MapSpec!Empty, Returns, Meaning
  <2>7. heap' = heap /\ call' = call => UNCHANGED MapSpec!vars
    <3>1. heap' = heap => Meaning' = Meaning
      BY DEF Meaning, Entries, Find, Forward, Nexts
    <3> QED BY <3>1 DEF MapSpec!vars, Meaning
  <2>8. ASSUME NEW m \in Maps, Begin(m) PROVE UNCHANGED MapSpec!vars
    BY <2>7, <2>8 DEF Begin
  <2>9. Step => UNCHANGED MapSpec!vars
    BY <2>7 DEF Step
  <2>10. UNCHANGED vars => UNCHANGED MapSpec!vars
    BY <2>7 DEF vars
  <2>11. \A m \in Maps, key \in Keys, value \in Values :
           MapSpec!Insert(m, key, value) => MapSpec!Next
    BY DEF MapSpec!Next
  <2>12. \A m \in Maps, src \in Maps : src # m /\ MapSpec!Copy(src, m) => MapSpec!Next
    BY DEF MapSpec!Next
  <2>13. \A m \in Maps : MapSpec!Free(m) => MapSpec!Next
    BY DEF MapSpec!Next
  <2> QED BY <2>4, <2>5, <2>6, <2>8, <2>9, <2>10, <2>11, <2>12, <2>13, NextCases
<1> QED BY <1>1, <1>2, Invariant, PTL DEF Spec, ImplementsMap, MapSpec!Spec
=============================================================================
