---------------------------- MODULE ArrayProofs ----------------------------
(***************************************************************************)
(* The theorems about module Array, for any arrays, values, lengths and    *)
(* widths: no operation leaves the memory of an array, the observers agree *)
(* with the elements, and the arrays and their files implement Archive.    *)
(* The invariant says what a file is: the length and the elements of an    *)
(* array that was stored, as words or as units, or the first units of one. *)
(***************************************************************************)
EXTENDS Array, FiniteSetTheorems, SequenceTheorems, TLAPS

(* A set that holds 0, and with a number below m the next one, holds 0..m: *)
(* the least number missing would follow one that is there.                *)
LEMMA IntervalInduction ==
  ASSUME NEW S, NEW m \in Nat, 0 \in S,
         \A n \in Nat : n < m /\ n \in S => n + 1 \in S
  PROVE  \A n \in 0 .. m : n \in S
<1> SUFFICES ASSUME NEW k \in 0 .. m, k \notin S PROVE FALSE
  OBVIOUS
<1> DEFINE T == {n \in Nat : n <= m /\ n \notin S}
           R == OpToRel(<, Nat)
<1>1. T \subseteq Nat /\ T # {}
  OBVIOUS
<1> HIDE DEF T, R
<1>2. PICK n \in T : \A j \in T : ~ (<<j, n>> \in R)
  BY <1>1, NatLessThanWellFounded, WFMin DEF R
<1>3. n \in Nat /\ n <= m /\ n \notin S /\ n - 1 \in Nat
  BY <1>2 DEF T
<1>4. n - 1 \in T
  <2>1. n - 1 < m /\ (n - 1) + 1 = n
    BY <1>3
  <2> QED BY <1>3, <2>1 DEF T
<1>5. <<n - 1, n>> \in R
  BY <1>3 DEF R, OpToRel
<1> QED BY <1>2, <1>4, <1>5


(* The least of some naturals. *)
LEMMA LeastOf ==
  ASSUME NEW S \in SUBSET Nat, S # {}
  PROVE  Min(S) \in S /\ \A n \in S : Min(S) <= n
<1> DEFINE R == OpToRel(<, Nat)
<1> HIDE DEF R
<1>1. PICK n \in S : \A j \in S : ~ (<<j, n>> \in R)
  BY NatLessThanWellFounded, WFMin DEF R
<1>2. ASSUME NEW j \in S PROVE n <= j
  <2>1. n \in Nat /\ j \in Nat
    OBVIOUS
  <2>2. j < n => <<j, n>> \in R
    BY <2>1 DEF R, OpToRel
  <2> QED BY <2>1, <2>2, <1>1
<1> QED BY <1>1, <1>2 DEF Min

-----------------------------------------------------------------------------
(* What can be stored, and what a file holds then. *)
Storable == UNION {[1 .. n -> Values] : n \in 0 .. MaxLength}
WordsOf(s) == <<Len(s)>> \o s
FileOf(s) == Units("length", Len(s), IntSize) \o ElementUnits(s)

(* An array of the client: what its fields are, and how long it may be. *)
ArrayOK(x) ==
  /\ x \in ArrayType /\ Len(x.data) = x.capacity
  /\ x.length <= MaxLength /\ x.capacity <= MaxLength
  /\ x.length > x.capacity => format = "binary" /\ x.capacity = 0
DiskOK ==
  \/ disk = None
  \/ format = "text" /\ (disk = <<>> \/ \E s \in Storable : disk = WordsOf(s))
  \/ format = "binary" /\ \E s \in Storable : \E k \in 0 .. Len(FileOf(s)) : disk = SubSeq(FileOf(s), 1, k)

(* A call stores an array that stays as it is, and the file has the first  *)
(* units of it.                                                            *)
Storing(a) ==
  /\ a \in Arrays /\ HasBuffer(a) /\ format = "binary"
  /\ ToSet(Elements(arrays[a])) \subseteq Values
  /\ \E k \in 0 .. Len(FileOf(Elements(arrays[a]))) : disk = SubSeq(FileOf(Elements(arrays[a])), 1, k)
WritingOK == writing # None => Storing(writing)
UnsavedOK ==
  /\ IsFiniteSet(unsaved) /\ open \in 0 .. MaxOpen /\ Cardinality(unsaved) <= open
  /\ \A words \in unsaved : \E s \in Storable : words = WordsOf(s)
  /\ format = "binary" => unsaved = {}

ArraysOK ==
  /\ arrays \in [Arrays -> ArrayType \cup {None}]
  /\ \A a \in Arrays : Exists(a) => ArrayOK(arrays[a])
FormatOK == format \in {"text", "binary"} /\ width \in Widths

(* The inductive invariant. *)
Inv == ArraysOK /\ FormatOK /\ DiskOK /\ WritingOK /\ UnsavedOK

LEMMA StorableIsSeq ==
  ASSUME NEW s
  PROVE  s \in Storable <=> s \in Seq(Values) /\ Len(s) <= MaxLength
<1>1. ASSUME s \in Storable PROVE s \in Seq(Values) /\ Len(s) <= MaxLength
  <2>1. PICK n \in 0 .. MaxLength : s \in [1 .. n -> Values]
    BY <1>1 DEF Storable
  <2> QED BY <2>1, ArrayAssumption
<1>2. ASSUME s \in Seq(Values), Len(s) <= MaxLength PROVE s \in Storable
  <2>1. Len(s) \in 0 .. MaxLength /\ s \in [1 .. Len(s) -> Values]
    BY <1>2, ArrayAssumption
  <2> QED BY <2>1 DEF Storable
<1> QED BY <1>1, <1>2

LEMMA SizeFacts ==
  /\ MaxLength \in Nat /\ MaxOpen \in Nat /\ SizeMax \in Nat /\ MaxLength <= SizeMax
  /\ Radix \in Nat /\ Radix >= 2 /\ IntSize \in Nat /\ IntSize >= 1
  /\ IntModulus \in Nat \ {0}
  /\ Values \subseteq Int /\ Torn \in Int /\ Torn \notin Values
  /\ width \in Widths => width \in Nat /\ width >= IntSize /\ width >= 1
  BY ArrayAssumption

LEMMA StorableIsInt ==
  ASSUME NEW s \in Storable
  PROVE  /\ s \in Seq(Int) /\ Len(s) \in 0 .. MaxLength
         /\ \A i \in 1 .. Len(s) : s[i] \in Values
<1>1. PICK n \in 0 .. MaxLength : s \in [1 .. n -> Values]
  BY DEF Storable
<1>2. s \in [1 .. n -> Int] /\ n \in Nat
  <2>1. Values \subseteq Int /\ MaxLength \in Nat
    BY SizeFacts
  <2>2. \A i \in 1 .. n : s[i] \in Int
    BY <1>1, <2>1, Zenon
  <2>3. s \in [1 .. n -> Int]
    BY <1>1, <2>2, Zenon
  <2>4. n \in Nat
    BY <2>1
  <2> QED BY <2>3, <2>4
<1>3. s \in Seq(Int) /\ Len(s) = n
  BY <1>2
<1> QED BY <1>1, <1>3

LEMMA ReplacedElement ==
  ASSUME NEW S, NEW s \in Seq(S), NEW k \in 1 .. Len(s), NEW v \in S
  PROVE  /\ [s EXCEPT ![k] = v] \in Seq(S) /\ Len([s EXCEPT ![k] = v]) = Len(s)
         /\ \A i \in 1 .. Len(s) : [s EXCEPT ![k] = v][i] = IF i = k THEN v ELSE s[i]
  OBVIOUS

-----------------------------------------------------------------------------
(* The elements of an array, and what the operations make of them. *)
LEMMA ElementsAre ==
  ASSUME NEW x \in ArrayType, Len(x.data) = x.capacity
  PROVE  /\ x.length \in Nat /\ x.capacity \in Nat /\ x.data \in Seq(Int)
         /\ Elements(x) \in Seq(Int) /\ Len(Elements(x)) = x.length
         /\ \A i \in 1 .. x.length :
              Elements(x)[i] = IF i <= x.capacity THEN x.data[i] ELSE 0
         /\ \A i \in 1 .. x.length : Elements(x)[i] = Read(x, i - 1)
<1>1. x.length \in Nat /\ x.capacity \in Nat /\ x.data \in Seq(Int)
  BY DEF ArrayType
<1>2. ASSUME NEW i \in 1 .. x.length
      PROVE  /\ Read(x, i - 1) = IF i <= x.capacity THEN x.data[i] ELSE 0
             /\ Read(x, i - 1) \in Int
  <2>1. x.capacity > i - 1 <=> i <= x.capacity
    BY <1>1
  <2>2. (i - 1) + 1 = i
    OBVIOUS
  <2>3. i <= x.capacity => x.data[i] \in Int
    BY <1>1
  <2> QED BY <2>1, <2>2, <2>3 DEF Read
<1>3. Elements(x) = [i \in 1 .. x.length |-> Read(x, i - 1)]
  BY DEF Elements
<1>4. Elements(x) \in Seq(Int) /\ Len(Elements(x)) = x.length
  BY <1>1, <1>2, <1>3
<1> QED BY <1>1, <1>2, <1>3, <1>4

LEMMA NewArrayLemma ==
  ASSUME NEW capacity \in 0 .. MaxLength
  PROVE  ArrayOK(NewArray(capacity)) /\ Elements(NewArray(capacity)) = <<>>
<1>1. [i \in 1 .. capacity |-> 0] \in Seq(Int) /\ Len([i \in 1 .. capacity |-> 0]) = capacity
  OBVIOUS
<1>2. NewArray(capacity) \in ArrayType
  BY <1>1 DEF NewArray, ArrayType
<1>3. Elements(NewArray(capacity)) = <<>>
  BY DEF Elements, NewArray
<1> QED BY <1>1, <1>2, <1>3, SizeFacts DEF ArrayOK, NewArray

LEMMA ClearLemma ==
  ASSUME NEW x, ArrayOK(x), NEW y, y = [x EXCEPT !.length = 0]
  PROVE  ArrayOK(y) /\ Elements(y) = <<>>
<1>1. y \in ArrayType /\ y.length = 0 /\ y.capacity = x.capacity /\ y.data = x.data
  BY DEF ArrayOK, ArrayType
<1>2. Elements(y) = <<>>
  BY <1>1 DEF Elements
<1>3. y.capacity \in Nat
  BY <1>1 DEF ArrayType
<1> QED BY <1>1, <1>2, <1>3, SizeFacts DEF ArrayOK

LEMMA WrittenLemma ==
  ASSUME NEW x, ArrayOK(x), x.length <= x.capacity, NEW pos \in Nat, NEW val \in Int
  PROVE  /\ ArrayOK(Written(x, pos, val))
         /\ Elements(Written(x, pos, val)) =
              IF pos + 1 \in 1 .. x.length THEN [Elements(x) EXCEPT ![pos + 1] = val] ELSE Elements(x)
<1> DEFINE y == Written(x, pos, val)
<1>1. x \in ArrayType /\ Len(x.data) = x.capacity
  BY DEF ArrayOK
<1>2. /\ x.length \in Nat /\ x.capacity \in Nat /\ x.data \in Seq(Int)
      /\ Elements(x) \in Seq(Int) /\ Len(Elements(x)) = x.length
      /\ \A i \in 1 .. x.length : Elements(x)[i] = IF i <= x.capacity THEN x.data[i] ELSE 0
  BY <1>1, ElementsAre
<1>3. CASE x.capacity > pos
  <2> DEFINE d == [x.data EXCEPT ![pos + 1] = val]
             e == [Elements(x) EXCEPT ![pos + 1] = val]
  <2>1. pos + 1 \in 1 .. Len(x.data)
    BY <1>1, <1>2, <1>3
  <2>2. /\ d \in Seq(Int) /\ Len(d) = x.capacity
        /\ \A i \in 1 .. x.capacity : d[i] = IF i = pos + 1 THEN val ELSE x.data[i]
    BY <2>1, <1>1, <1>2, ReplacedElement
  <2>3. y = [x EXCEPT !.data = d]
    BY <1>3 DEF Written
  <2> HIDE DEF d
  <2>4. /\ y \in ArrayType /\ y.length = x.length /\ y.capacity = x.capacity
        /\ y.data = d
    BY <2>2, <2>3, <1>1 DEF ArrayType
  <2> HIDE DEF y
  <2>5. ArrayOK(y)
    BY <2>2, <2>4, <1>1 DEF ArrayOK
  <2>6. /\ Elements(y) \in Seq(Int) /\ Len(Elements(y)) = x.length
        /\ \A i \in 1 .. x.length : Elements(y)[i] = IF i <= x.capacity THEN y.data[i] ELSE 0
    BY <2>2, <2>4, <1>1, ElementsAre
  <2>7. ASSUME NEW i \in 1 .. x.length
        PROVE  Elements(y)[i] = IF i = pos + 1 THEN val ELSE Elements(x)[i]
    <3>1. i <= x.capacity /\ i \in 1 .. x.capacity
      BY <1>1, <1>2
    <3> QED BY <3>1, <2>2, <2>4, <2>6, <1>2
  <2>8. Elements(y) = IF pos + 1 \in 1 .. x.length THEN e ELSE Elements(x)
    <3>1. CASE pos + 1 \in 1 .. x.length
      <4>1. /\ e \in Seq(Int) /\ Len(e) = x.length
            /\ \A i \in 1 .. x.length : e[i] = IF i = pos + 1 THEN val ELSE Elements(x)[i]
        BY <3>1, <1>2, ReplacedElement
      <4> HIDE DEF e
      <4>2. \A i \in 1 .. x.length : Elements(y)[i] = e[i]
        BY <4>1, <2>7
      <4>3. Elements(y) = e
        BY <4>1, <4>2, <2>6, SeqEqual
      <4> QED BY <3>1, <4>3
    <3>2. CASE pos + 1 \notin 1 .. x.length
      <4>1. \A i \in 1 .. x.length : Elements(y)[i] = Elements(x)[i]
        BY <3>2, <2>7
      <4>2. Elements(y) = Elements(x)
        BY <4>1, <1>2, <2>6, SeqEqual
      <4> QED BY <3>2, <4>2
    <3> QED BY <3>1, <3>2
  <2> QED BY <2>5, <2>8 DEF y, e
<1>4. CASE ~(x.capacity > pos)
  <2>1. y = x /\ pos + 1 \notin 1 .. x.length
    BY <1>2, <1>4 DEF Written
  <2> QED BY <2>1
<1> QED BY <1>3, <1>4

LEMMA AppendedLemma ==
  ASSUME NEW x, ArrayOK(x), x.length <= x.capacity, NEW val \in Int
  PROVE  /\ ArrayOK(Appended(x, val))
         /\ \/ Elements(Appended(x, val)) = Append(Elements(x), val)
            \/ Elements(Appended(x, val)) = Elements(x)
<1> DEFINE y == Appended(x, val)
<1>1. x \in ArrayType /\ Len(x.data) = x.capacity /\ x.capacity <= MaxLength
  BY DEF ArrayOK
<1>2. /\ x.length \in Nat /\ x.capacity \in Nat /\ x.data \in Seq(Int)
      /\ Elements(x) \in Seq(Int) /\ Len(Elements(x)) = x.length
      /\ \A i \in 1 .. x.length : Elements(x)[i] = IF i <= x.capacity THEN x.data[i] ELSE 0
  BY <1>1, ElementsAre
<1>3. CASE x.length < x.capacity
  <2> DEFINE d == [x.data EXCEPT ![x.length + 1] = val]
             n == x.length + 1
  <2>1. n \in 1 .. Len(x.data) /\ n \in Nat
    BY <1>1, <1>2, <1>3
  <2>2. /\ d \in Seq(Int) /\ Len(d) = x.capacity
        /\ \A i \in 1 .. x.capacity : d[i] = IF i = x.length + 1 THEN val ELSE x.data[i]
    BY <2>1, <1>1, <1>2, ReplacedElement
  <2>3. y = [[x EXCEPT !.data = d] EXCEPT !.length = n]
    BY <1>1, <1>3 DEF Appended, ArrayType
  <2> HIDE DEF d
  <2>4. /\ y \in ArrayType /\ y.length = x.length + 1 /\ y.capacity = x.capacity
        /\ y.data = d
    <3> HIDE DEF n
    <3>1. y \in ArrayType /\ y.length = n /\ y.capacity = x.capacity /\ y.data = d
      BY <2>1, <2>2, <2>3, <1>1 DEF ArrayType
    <3> QED BY <3>1 DEF n
  <2> HIDE DEF y
  <2>5. ArrayOK(y)
    BY <2>2, <2>4, <1>1, <1>2, <1>3, SizeFacts DEF ArrayOK
  <2>6. /\ Elements(y) \in Seq(Int) /\ Len(Elements(y)) = x.length + 1
        /\ \A i \in 1 .. x.length + 1 : Elements(y)[i] = IF i <= x.capacity THEN y.data[i] ELSE 0
    BY <2>2, <2>4, <1>1, ElementsAre
  <2>7. ASSUME NEW i \in 1 .. x.length + 1
        PROVE  Elements(y)[i] = IF i = x.length + 1 THEN val ELSE Elements(x)[i]
    <3>1. i <= x.capacity /\ i \in 1 .. x.capacity /\ (i # x.length + 1 => i \in 1 .. x.length)
      BY <1>1, <1>2, <1>3
    <3> QED BY <3>1, <2>2, <2>4, <2>6, <1>2
  <2>8. Elements(y) = Append(Elements(x), val)
    <3> DEFINE e == Append(Elements(x), val)
    <3>1. /\ e \in Seq(Int) /\ Len(e) = x.length + 1
          /\ \A i \in 1 .. x.length + 1 : e[i] = IF i = x.length + 1 THEN val ELSE Elements(x)[i]
      BY <1>2
    <3> HIDE DEF e
    <3>2. \A i \in 1 .. x.length + 1 : Elements(y)[i] = e[i]
      BY <3>1, <2>7
    <3>3. Elements(y) = e
      BY <3>1, <3>2, <2>6, SeqEqual
    <3> QED BY <3>3 DEF e
  <2> QED BY <2>5, <2>8 DEF y
<1>4. CASE ~(x.length < x.capacity)
  BY <1>4 DEF Appended
<1> QED BY <1>3, <1>4

LEMMA CopyOfLemma ==
  ASSUME NEW x, ArrayOK(x), x.length <= x.capacity, NEW held \in Int
  PROVE  ArrayOK(CopyOf(x, held)) /\ Elements(CopyOf(x, held)) = Elements(x)
<1> DEFINE d == [i \in 1 .. x.capacity |-> IF i <= x.length THEN x.data[i] ELSE held]
           y == CopyOf(x, held)
<1>1. x \in ArrayType /\ Len(x.data) = x.capacity
  BY DEF ArrayOK
<1>2. /\ x.length \in Nat /\ x.capacity \in Nat /\ x.data \in Seq(Int)
      /\ Elements(x) \in Seq(Int) /\ Len(Elements(x)) = x.length
      /\ \A i \in 1 .. x.length : Elements(x)[i] = IF i <= x.capacity THEN x.data[i] ELSE 0
  BY <1>1, ElementsAre
<1>3. d \in Seq(Int) /\ Len(d) = x.capacity /\ \A i \in 1 .. x.length : d[i] = x.data[i]
  <2>1. ASSUME NEW i \in 1 .. x.capacity PROVE x.data[i] \in Int
    BY <1>1, <1>2
  <2> QED BY <2>1, <1>2
<1>4. y = [x EXCEPT !.data = d]
  BY DEF CopyOf
<1> HIDE DEF d
<1>5. /\ y \in ArrayType /\ y.length = x.length /\ y.capacity = x.capacity /\ y.data = d
  BY <1>1, <1>3, <1>4 DEF ArrayType
<1> HIDE DEF y
<1>6. ArrayOK(y)
  BY <1>1, <1>3, <1>5 DEF ArrayOK
<1>7. /\ Elements(y) \in Seq(Int) /\ Len(Elements(y)) = x.length
      /\ \A i \in 1 .. x.length : Elements(y)[i] = IF i <= x.capacity THEN d[i] ELSE 0
  BY <1>3, <1>5, <1>1, ElementsAre
<1>8. Elements(y) = Elements(x)
  <2>1. \A i \in 1 .. x.length : Elements(y)[i] = Elements(x)[i]
    BY <1>2, <1>3, <1>7
  <2> QED BY <2>1, <1>2, <1>7, SeqEqual
<1> QED BY <1>6, <1>8 DEF y

(* The client's buffer for an array without one: the length stays. *)
LEMMA SetBufferLemma ==
  ASSUME NEW x, ArrayOK(x), x.capacity = 0, NEW size \in 0 .. MaxLength, size >= x.length,
         NEW held \in Int, NEW y,
         y = [x EXCEPT !.capacity = size, !.data = [i \in 1 .. size |-> held]]
  PROVE  /\ ArrayOK(y) /\ Len(Elements(y)) = Len(Elements(x))
         /\ \A i \in 1 .. Len(Elements(x)) : Elements(x)[i] = 0
<1>1. x \in ArrayType /\ Len(x.data) = x.capacity
  BY DEF ArrayOK
<1>2. /\ x.length \in Nat /\ Len(Elements(x)) = x.length
      /\ \A i \in 1 .. x.length : Elements(x)[i] = IF i <= x.capacity THEN x.data[i] ELSE 0
  BY <1>1, ElementsAre
<1> DEFINE d == [i \in 1 .. size |-> held]
<1>3. d \in Seq(Int) /\ Len(d) = size
  OBVIOUS
<1> HIDE DEF d
<1>4. y \in ArrayType /\ y.length = x.length /\ y.capacity = size /\ Len(y.data) = size
  <2> DEFINE z == [x EXCEPT !.capacity = size]
  <2>1. z \in ArrayType /\ z.length = x.length /\ z.capacity = size
    BY <1>1 DEF ArrayType
  <2>2. y = [z EXCEPT !.data = d]
    BY <1>1 DEF d, ArrayType
  <2> HIDE DEF z
  <2>3. y \in ArrayType /\ y.length = z.length /\ y.capacity = z.capacity /\ y.data = d
    BY <2>1, <2>2, <1>3 DEF ArrayType
  <2> QED BY <2>1, <2>3, <1>3
<1>5. ArrayOK(y)
  BY <1>2, <1>4 DEF ArrayOK
<1>6. Len(Elements(y)) = y.length
  BY <1>4, ElementsAre
<1> QED BY <1>2, <1>4, <1>5, <1>6

-----------------------------------------------------------------------------
(* The difference of ints that are near each other is an int. *)
LEMMA CompareNear ==
  ASSUME NEW a \in Int, NEW b \in Int, Near(a, b)
  PROVE  CompareInt(a, b) = a - b
<1> DEFINE M == IntModulus
           h == IntModulus \div 2
           x == a - b + h
<1>1. M \in Nat \ {0} /\ h \in Nat /\ 2 * h <= M /\ M <= 2 * h + 1
  BY SizeFacts
<1>2. 2 * (a - b) < M /\ 2 * (b - a) < M
  BY DEF Near
<1>3. CompareInt(a, b) = (x % M) - h
  BY DEF CompareInt
<1> HIDE DEF M, h
<1>4. x \in 0 .. M - 1
  BY <1>1, <1>2
<1>5. x % M = x
  BY <1>1, <1>4
<1> QED BY <1>1, <1>3, <1>5

(* compare stops where the elements differ for the first time. *)
LEMMA CompareLemma ==
  ASSUME NEW x, ArrayOK(x), NEW y, ArrayOK(y)
  PROVE  ElementsDecide(x, y)
<1> DEFINE s == Elements(x)
           t == Elements(y)
<1>1. /\ s \in Seq(Int) /\ Len(s) = x.length /\ x.length \in Nat
      /\ \A i \in 1 .. x.length : s[i] = Read(x, i - 1)
  BY ElementsAre DEF ArrayOK
<1>2. /\ t \in Seq(Int) /\ Len(t) = y.length /\ y.length \in Nat
      /\ \A i \in 1 .. y.length : t[i] = Read(y, i - 1)
  BY ElementsAre DEF ArrayOK
<1> HIDE DEF s, t
<1>3. CASE x.length # y.length
  <2>1. Compare(x, y) = IF x.length < y.length THEN -1 ELSE 1
    BY <1>3 DEF Compare
  <2>2. Compare(x, y) < 0 <=> Len(s) < Len(t)
    BY <2>1, <1>1, <1>2
  <2> QED BY <2>2, <1>1, <1>2, <1>3 DEF ElementsDecide, s, t
<1>4. ASSUME x.length = y.length, NEW n \in 1 .. Len(s), DifferFirstAt(s, t, n), Near(s[n], t[n])
      PROVE  Compare(x, y) # 0 /\ (Compare(x, y) < 0 <=> s[n] < t[n])
  <2> DEFINE C(i) == CompareInt(Read(x, i), Read(y, i))
             S == {i \in 0 .. x.length : i = x.length \/ C(i) # 0}
             stop == Min(S)
  <2>1. S \in SUBSET Nat /\ x.length \in S
    BY <1>1
  <2>2. stop \in S /\ \A i \in S : stop <= i
    <3> HIDE DEF S
    <3> QED BY <2>1, LeastOf
  <2>3. Compare(x, y) = C(stop)
    BY <1>4 DEF Compare
  <2>4. \A i \in 1 .. Len(s) : s[i] \in Int /\ t[i] \in Int
    BY <1>1, <1>2, <1>4
  <2>5. C(n - 1) = s[n] - t[n] /\ C(n - 1) # 0
    <3>1. CompareInt(s[n], t[n]) = s[n] - t[n] /\ s[n] # t[n]
      BY <1>4, <2>4, CompareNear DEF DifferFirstAt
    <3>2. s[n] = Read(x, n - 1) /\ t[n] = Read(y, n - 1)
      BY <1>1, <1>2, <1>4
    <3>3. C(n - 1) = CompareInt(s[n], t[n])
      BY <3>2
    <3> HIDE DEF C
    <3> QED BY <2>4, <3>1, <3>3
  <2>6. ASSUME NEW i \in 1 .. n - 1 PROVE C(i - 1) = 0
    <3>1. i \in 1 .. Len(s) /\ i \in 1 .. Len(t) /\ n - 1 \in 0 .. Len(s) /\ n - 1 \in 0 .. Len(t)
      BY <1>1, <1>2, <1>4
    <3>2. SubSeq(s, 1, n - 1)[i] = s[i] /\ SubSeq(t, 1, n - 1)[i] = t[i]
      BY <3>1, <1>1, <1>2
    <3>3. s[i] = t[i]
      BY <3>2, <1>4 DEF DifferFirstAt
    <3>4. s[i] = Read(x, i - 1) /\ t[i] = Read(y, i - 1)
      BY <3>1, <1>1, <1>2
    <3>5. CompareInt(s[i], s[i]) = s[i] - s[i]
      BY <2>4, <3>1, CompareNear, SizeFacts DEF Near
    <3>6. C(i - 1) = CompareInt(s[i], s[i])
      BY <3>3, <3>4
    <3> HIDE DEF C
    <3> QED BY <2>4, <3>1, <3>5, <3>6
  <2> HIDE DEF C
  <2>7. n - 1 \in S
    BY <2>5, <1>1
  <2>8. stop = n - 1
    <3>1. stop \in 0 .. x.length /\ stop <= n - 1 /\ (stop = x.length \/ C(stop) # 0)
      BY <2>2, <2>7
    <3> HIDE DEF stop
    <3>2. ASSUME stop < n - 1 PROVE FALSE
      <4>1. stop + 1 \in 1 .. n - 1 /\ (stop + 1) - 1 = stop /\ stop # x.length
        BY <3>1, <3>2, <1>1
      <4> QED BY <4>1, <3>1, <2>6
    <3> QED BY <3>1, <3>2, <1>1
  <2>9. Compare(x, y) = s[n] - t[n]
    BY <2>3, <2>5, <2>8
  <2> QED BY <2>4, <2>5, <2>8, <2>9
<1>5. CASE x.length = y.length
  BY <1>1, <1>2, <1>4, <1>5 DEF ElementsDecide, s, t
<1> QED BY <1>3, <1>5

(* The string of an array that is not empty: the number before its length  *)
(* is a size_t.                                                            *)
LEMMA ShownLemma ==
  ASSUME NEW x, ArrayOK(x), x.length > 0
  PROVE  Shown(x) = [i \in 1 .. x.length |-> [elem |-> Elements(x)[i], separator |-> i < x.length]]
<1>1. x.length \in 1 .. SizeMax /\ SizeMax \in Nat
  BY SizeFacts DEF ArrayOK, ArrayType
<1>2. LastShown(x) = x.length - 1
  BY <1>1 DEF LastShown
<1>3. Shown(x) = [i \in 1 .. x.length |-> [elem |-> Read(x, i - 1), separator |-> i <= LastShown(x)]]
  BY <1>1, <1>2 DEF Shown
<1>4. ASSUME NEW i \in 1 .. x.length
      PROVE  Read(x, i - 1) = Elements(x)[i] /\ (i <= LastShown(x)) = (i < x.length)
  <2>1. Read(x, i - 1) = Elements(x)[i]
    BY ElementsAre DEF ArrayOK
  <2>2. i <= LastShown(x) <=> i < x.length
    BY <1>1, <1>2
  <2> QED BY <2>1, <2>2
<1>5. \A i \in 1 .. x.length :
        [elem |-> Read(x, i - 1), separator |-> i <= LastShown(x)] = [elem |-> Elements(x)[i], separator |-> i < x.length]
  BY <1>4, Zenon
<1> QED BY <1>3, <1>5, Zenon

LEMMA ObserversCorrect == Inv => ObserversAgree
<1> SUFFICES ASSUME Inv, NEW a \in Arrays, Exists(a)
             PROVE  /\ \A b \in Arrays : Exists(b) => ElementsDecide(arrays[a], arrays[b])
                    /\ arrays[a].length > 0 =>
                         Shown(arrays[a]) = [i \in 1 .. arrays[a].length |->
                           [elem |-> Elements(arrays[a])[i], separator |-> i < arrays[a].length]]
  BY DEF ObserversAgree
<1>1. \A b \in Arrays : Exists(b) => ArrayOK(arrays[b])
  BY DEF Inv, ArraysOK
<1> QED BY <1>1, CompareLemma, ShownLemma

LEMMA TypeCorrect == Inv => TypeOK
<1> SUFFICES ASSUME Inv PROVE TypeOK
  OBVIOUS
<1>1. ASSUME NEW a \in Arrays, Exists(a)
      PROVE  /\ arrays[a] \in ArrayType /\ Len(arrays[a].data) = arrays[a].capacity
             /\ arrays[a].length > arrays[a].capacity => format = "binary" /\ arrays[a].capacity = 0
  BY <1>1 DEF Inv, ArraysOK, ArrayOK
<1>2. open \in 0 .. MaxOpen /\ Cardinality(unsaved) <= open
  BY DEF Inv, UnsavedOK
<1>3. writing # None => writing \in Arrays /\ HasBuffer(writing) /\ format = "binary"
  BY DEF Inv, WritingOK, Storing
<1> QED BY <1>1, <1>2, <1>3 DEF TypeOK

-----------------------------------------------------------------------------
(* Text.  The powers of the radix: one more each is a digit more. *)
PowerRow(p, d) == IF d = 0 THEN 1 ELSE Radix * p[d - 1]
PowersUpTo(m, p) == p = [d \in 0 .. m |-> IF d = 0 THEN 1 ELSE Radix * p[d - 1]]

LEMMA PowersExist ==
  ASSUME NEW m \in Nat
  PROVE  \E p : PowersUpTo(m, p)
<1>1. ASSUME NEW i \in Nat, NEW c, NEW d, i = 0 \/ c[i - 1] = d[i - 1]
      PROVE  PowerRow(c, i) = PowerRow(d, i)
  BY <1>1 DEF PowerRow
<1> DEFINE S == {n \in 0 .. m : \E c : \A i \in 0 .. n : c[i] = PowerRow(c, i)}
<1>2. 0 \in S
  <2> DEFINE c == [i \in 0 .. m |-> 1]
  <2>1. \A i \in 0 .. 0 : c[i] = PowerRow(c, i)
    BY DEF PowerRow
  <2> QED BY <2>1
<1>3. ASSUME NEW n \in Nat, n < m, n \in S PROVE n + 1 \in S
  <2>1. PICK c : \A i \in 0 .. n : c[i] = PowerRow(c, i)
    BY <1>3
  <2> DEFINE d == [i \in 0 .. m |-> IF i = n + 1 THEN PowerRow(c, i) ELSE c[i]]
  <2>2. ASSUME NEW i \in 0 .. n + 1 PROVE d[i] = PowerRow(d, i)
    <3>1. i \in Nat /\ (i = 0 \/ d[i - 1] = c[i - 1])
      BY <1>3
    <3>2. d[i] = PowerRow(c, i)
      BY <2>1, <1>3
    <3> HIDE DEF d
    <3>3. PowerRow(c, i) = PowerRow(d, i)
      BY <3>1, <1>1
    <3> QED BY <3>2, <3>3
  <2>3. n + 1 \in 0 .. m
    BY <1>3
  <2> QED BY <2>2, <2>3
<1> HIDE DEF S
<1>4. m \in S
  BY <1>2, <1>3, IntervalInduction
<1>5. PICK c : \A i \in 0 .. m : c[i] = PowerRow(c, i)
  BY <1>4 DEF S
<1> DEFINE d == [i \in 0 .. m |-> c[i]]
<1>6. ASSUME NEW i \in 0 .. m PROVE d[i] = PowerRow(d, i)
  <2>1. i \in Nat /\ (i = 0 \/ d[i - 1] = c[i - 1])
    OBVIOUS
  <2>2. d[i] = PowerRow(c, i)
    BY <1>5
  <2> HIDE DEF d
  <2> QED BY <2>1, <2>2, <1>1
<1>7. d = [i \in 0 .. m |-> d[i]]
  OBVIOUS
<1> HIDE DEF d
<1>8. d = [i \in 0 .. m |-> PowerRow(d, i)]
  BY <1>6, <1>7, Zenon
<1> QED BY <1>8 DEF PowerRow, PowersUpTo

LEMMA PowersAre ==
  ASSUME NEW m \in Nat
  PROVE  /\ Powers(m)[0] = 1
         /\ \A d \in 1 .. m : Powers(m)[d] = Radix * Powers(m)[d - 1]
<1>1. \E p : PowersUpTo(m, p)
  BY PowersExist
<1>2. Powers(m) = CHOOSE p : PowersUpTo(m, p)
  BY Zenon DEF Powers, PowersUpTo
<1>3. PowersUpTo(m, Powers(m))
  BY <1>1, <1>2, Zenon
<1> DEFINE q == Powers(m)
<1> HIDE DEF q
<1>4. q = [d \in 0 .. m |-> IF d = 0 THEN 1 ELSE Radix * q[d - 1]]
  BY <1>3 DEF PowersUpTo, q
<1> QED BY <1>4 DEF q

LEMMA PowersGrow ==
  ASSUME NEW m \in Nat, NEW d \in 0 .. m
  PROVE  Powers(m)[d] \in Nat /\ Powers(m)[d] > d
<1> DEFINE p == Powers(m)
           S == {n \in 0 .. m : p[n] \in Nat /\ p[n] > n}
<1>1. p[0] = 1 /\ \A n \in 1 .. m : p[n] = Radix * p[n - 1]
  BY PowersAre
<1> HIDE DEF p
<1>2. 0 \in S
  BY <1>1
<1>3. ASSUME NEW n \in Nat, n < m, n \in S PROVE n + 1 \in S
  <2> DEFINE k == n + 1
             r == Radix
  <2>1. k \in 1 .. m /\ k - 1 = n
    BY <1>3
  <2>2. p[k] = r * p[k - 1]
    BY <1>1, <2>1
  <2>3. r \in Nat /\ r >= 2 /\ p[n] \in Nat /\ p[n] > n
    BY <1>3, SizeFacts
  <2> HIDE DEF k, r
  <2>4. p[k] = r * p[n]
    BY <2>1, <2>2
  <2>5. \A x, y \in Nat : x >= 2 => x * y \in Nat /\ x * y >= y + y
    OBVIOUS
  <2>6. p[k] \in Nat /\ p[k] >= p[n] + p[n]
    BY <2>3, <2>4, <2>5
  <2>7. p[k] > n + 1
    BY <2>3, <2>6
  <2> QED BY <2>1, <2>6, <2>7 DEF k
<1> HIDE DEF S
<1>4. d \in S
  BY <1>2, <1>3, IntervalInduction
<1> QED BY <1>4 DEF S, p

LEMMA NumDigitsLemma ==
  ASSUME NEW n \in Nat
  PROVE  NumDigits(n) \in Nat \ {0} /\ (NumDigits(n) = 1 <=> n < Radix)
<1> DEFINE m == n + 1
           S == {d \in 1 .. n + 1 : n < Powers(n + 1)[d]}
<1>1. m \in Nat /\ m \in 0 .. m /\ 1 \in 1 .. m /\ 1 - 1 = 0
  OBVIOUS
<1> HIDE DEF m
<1>2. Powers(m)[m] \in Nat /\ Powers(m)[m] > m
  BY <1>1, PowersGrow
<1>3. Powers(m)[1] = Radix * Powers(m)[1 - 1] /\ Powers(m)[0] = 1
  BY <1>1, PowersAre
<1>4. Powers(m)[1] = Radix
  BY <1>1, <1>3, SizeFacts
<1>5. S = {d \in 1 .. m : n < Powers(m)[d]}
  BY DEF m
<1> HIDE DEF S
<1>6. m \in S /\ S \in SUBSET Nat
  <2>1. n < m /\ m \in 1 .. m
    BY DEF m
  <2> QED BY <2>1, <1>1, <1>2, <1>5
<1>7. 1 \in S <=> n < Radix
  BY <1>1, <1>4, <1>5
<1>8. NumDigits(n) = Min(S)
  BY DEF NumDigits, S
<1>9. NumDigits(n) \in S /\ \A d \in S : NumDigits(n) <= d
  BY <1>6, <1>8, LeastOf
<1>10. NumDigits(n) \in Nat \ {0}
  BY <1>1, <1>5, <1>9
<1> QED BY <1>7, <1>9, <1>10

(* A number that is not negative is read as it is, and has one digit when  *)
(* it is below the radix.                                                  *)
LEMMA FreadLemma ==
  ASSUME NEW words \in Seq(Int), NEW i \in Nat \ {0}
  PROVE  /\ Fread(words, i).num \in Int
         /\ i > Len(words) => Fread(words, i).total = 0
         /\ i <= Len(words) /\ words[i] >= 0 =>
              /\ Fread(words, i).num = words[i]
              /\ Fread(words, i).total = 1 <=> words[i] < Radix
<1>1. CASE i > Len(words)
  BY <1>1 DEF Fread
<1>2. CASE i <= Len(words)
  <2> DEFINE word == words[i]
             digits == NumDigits(IF word < 0 THEN -word ELSE word)
  <2>1. word \in Int
    BY <1>2
  <2>2. Fread(words, i) = IF word >= 0 THEN [num |-> word, total |-> digits]
                          ELSE [num |-> (-3) * Powers(digits)[digits] - word, total |-> digits + 1]
    BY <1>2 DEF Fread
  <2>3. CASE word >= 0
    <3>1. word \in Nat /\ digits = NumDigits(word)
      BY <2>1, <2>3
    <3>2. digits = 1 <=> word < Radix
      BY <3>1, NumDigitsLemma
    <3> HIDE DEF digits
    <3>3. Fread(words, i) = [num |-> word, total |-> digits]
      BY <2>2, <2>3
    <3> QED BY <3>2, <3>3, <2>1, <1>2
  <2>4. CASE word < 0
    <3>1. -word \in Nat /\ digits = NumDigits(-word)
      BY <2>1, <2>4
    <3>2. digits \in Nat
      BY <3>1, NumDigitsLemma
    <3> HIDE DEF digits
    <3> DEFINE p == Powers(digits)[digits]
    <3>3. p \in Nat
      BY <3>2, PowersGrow
    <3> HIDE DEF p
    <3>4. Fread(words, i).num = (-3) * p - word
      BY <2>1, <2>2, <2>4 DEF p
    <3>5. (-3) * p - word \in Int
      BY <3>3, <2>1
    <3> QED BY <3>4, <3>5, <2>1, <2>4, <1>2
  <2> QED BY <2>1, <2>3, <2>4
<1> QED BY <1>1, <1>2

LEMMA WordsOfAre ==
  ASSUME NEW s \in Storable
  PROVE  /\ WordsOf(s) \in Seq(Int) /\ Len(WordsOf(s)) = Len(s) + 1 /\ WordsOf(s)[1] = Len(s)
         /\ Tail(WordsOf(s)) = s /\ WordsOf(s) # <<>>
         /\ \A i \in 1 .. Len(s) : WordsOf(s)[i + 1] = s[i]
<1>1. s \in Seq(Int) /\ Len(s) \in Nat
  BY StorableIsInt
<1>2. /\ WordsOf(s) \in Seq(Int) /\ Len(WordsOf(s)) = Len(s) + 1 /\ WordsOf(s)[1] = Len(s)
      /\ \A i \in 1 .. Len(s) : WordsOf(s)[i + 1] = s[i]
  BY <1>1 DEF WordsOf
<1> DEFINE w == WordsOf(s)
           t == Tail(w)
<1> HIDE DEF w
<1>3. /\ t \in Seq(Int) /\ Len(t) = Len(s)
      /\ \A i \in 1 .. Len(s) : t[i] = w[i + 1]
  BY <1>1, <1>2 DEF w
<1> HIDE DEF t
<1>4. \A i \in 1 .. Len(s) : t[i] = s[i]
  BY <1>2, <1>3 DEF w
<1>5. t = s
  BY <1>1, <1>3, <1>4, SeqEqual
<1>6. w # <<>>
  BY <1>1, <1>2 DEF w
<1> QED BY <1>2, <1>5, <1>6 DEF t, w

LEMMA TextLoadEmpty == TextLoad(<<>>) = None
  BY DEF TextLoad, Fread

(* What a text file gives back. *)
LEMMA TextLoadLemma ==
  ASSUME NEW s \in Storable, NEW x, x = TextLoad(WordsOf(s))
  PROVE  /\ Len(s) >= Radix => x = None
         /\ Len(s) < Radix =>
              /\ ArrayOK(x) /\ Len(Elements(x)) = Len(s)
              /\ \A i \in 1 .. Len(s) : s[i] >= 0 => Elements(x)[i] = s[i]
<1> DEFINE words == WordsOf(s)
           size == Fread(words, 1)
<1>1. /\ words \in Seq(Int) /\ Len(words) = Len(s) + 1 /\ words[1] = Len(s)
      /\ \A i \in 1 .. Len(s) : words[i + 1] = s[i]
  BY WordsOfAre
<1>2. s \in Seq(Int) /\ Len(s) \in 0 .. MaxLength
  BY StorableIsInt
<1> HIDE DEF words
<1>3. size.num = Len(s) /\ (size.total = 1 <=> Len(s) < Radix)
  <2>1. 1 \in Nat \ {0} /\ 1 <= Len(words) /\ words[1] >= 0
    BY <1>1, <1>2
  <2> QED BY <1>1, <2>1, FreadLemma
<1>4. x = IF size.total # 1 THEN None
          ELSE [capacity |-> size.num, length |-> size.num,
                data |-> [i \in 1 .. size.num |-> Fread(words, i + 1).num]]
  BY DEF TextLoad, words
<1> HIDE DEF size
<1>5. CASE Len(s) >= Radix
  BY <1>2, <1>3, <1>4, <1>5, SizeFacts
<1>6. CASE Len(s) < Radix
  <2> DEFINE n == Len(s)
             d == [i \in 1 .. n |-> Fread(words, i + 1).num]
  <2>1. ASSUME NEW i \in 1 .. n
        PROVE  Fread(words, i + 1).num \in Int /\ (s[i] >= 0 => Fread(words, i + 1).num = s[i])
    <3> DEFINE j == i + 1
    <3>1. j \in Nat \ {0} /\ j <= Len(words) /\ words[j] = s[i]
      BY <1>1, <1>2
    <3> HIDE DEF j
    <3>2. Fread(words, j).num \in Int /\ (words[j] >= 0 => Fread(words, j).num = words[j])
      BY <1>1, <3>1, FreadLemma
    <3> QED BY <3>1, <3>2 DEF j
  <2>2. /\ d \in Seq(Int) /\ Len(d) = n
        /\ \A i \in 1 .. n : s[i] >= 0 => d[i] = s[i]
    BY <2>1, <1>2
  <2>3. x = [capacity |-> n, length |-> n, data |-> d]
    BY <1>3, <1>4, <1>6
  <2>4. n \in Nat /\ n <= MaxLength /\ ~(n >= Radix) /\ ~(n > n)
    BY <1>2, <1>6, SizeFacts
  <2> HIDE DEF d, n
  <2>5. x \in ArrayType /\ x.length = n /\ x.capacity = n /\ x.data = d
    BY <2>2, <2>3, <2>4 DEF ArrayType
  <2>6. ArrayOK(x)
    BY <2>2, <2>4, <2>5 DEF ArrayOK
  <2>7. /\ Len(Elements(x)) = n
        /\ \A i \in 1 .. n : Elements(x)[i] = IF i <= n THEN d[i] ELSE 0
    BY <2>2, <2>5, ElementsAre
  <2>8. \A i \in 1 .. n : s[i] >= 0 => Elements(x)[i] = s[i]
    BY <2>2, <2>4, <2>7
  <2> QED BY <2>4, <2>6, <2>7, <2>8 DEF n
<1> QED BY <1>2, <1>5, <1>6, SizeFacts

-----------------------------------------------------------------------------
(* Binary.  Arithmetic of blocks of w units. *)
LEMMA DivMod ==
  ASSUME NEW w \in Nat, w >= 1, NEW q \in Nat, NEW r \in 0 .. w - 1
  PROVE  (q * w + r) \div w = q /\ (q * w + r) % w = r
<1> DEFINE n == q * w + r
           d == n \div w
           m == n % w
<1>1. n \in Nat
  OBVIOUS
<1> HIDE DEF n
<1>2. d \in Int /\ m \in Int /\ n = w * d + m /\ 0 <= m /\ m < w
  BY <1>1
<1> HIDE DEF d, m
<1>3. q * w + r = w * d + m
  BY <1>2 DEF n
<1>4. (q - d) * w = m - r
  BY <1>2, <1>3
<1>5. q - d = 0
  <2> DEFINE e == q - d
  <2>1. e \in Int /\ e * w = m - r /\ m - r < w /\ m - r > -w
    BY <1>2, <1>4
  <2> HIDE DEF e
  <2>2. e >= 1 => e * w >= w
    BY <2>1
  <2>3. e <= -1 => e * w <= -w
    BY <2>1
  <2> QED BY <2>1, <2>2, <2>3 DEF e
<1> QED BY <1>2, <1>3, <1>5 DEF n, d, m

LEMMA DivAtMost ==
  ASSUME NEW w \in Nat, w >= 1, NEW q \in Nat, NEW n \in Nat, n <= q * w
  PROVE  n \div w \in Nat /\ n \div w <= q
<1> DEFINE d == n \div w
           m == n % w
<1>2. d \in Int /\ m \in Int /\ n = w * d + m /\ 0 <= m /\ m < w
  OBVIOUS
<1> HIDE DEF d, m
<1>1. w * d <= q * w /\ w * d > -w
  BY <1>2
<1>3. d > q => w * d >= w * (q + 1)
  BY <1>2
<1>4. w * (q + 1) = q * w + w
  OBVIOUS
<1>5. d <= -1 => w * d <= -w
  BY <1>2
<1> QED BY <1>1, <1>2, <1>3, <1>4, <1>5 DEF d

LEMMA InBlock ==
  ASSUME NEW w \in Nat, w >= 1, NEW n \in Nat, NEW i \in 1 .. n, NEW j \in 1 .. w
  PROVE  (i - 1) * w + j \in 1 .. n * w
<1>1. i - 1 \in Nat /\ i - 1 <= n - 1 /\ (i - 1) * w \in Nat
  OBVIOUS
<1>2. (i - 1) * w <= (n - 1) * w
  BY <1>1
<1>3. (n - 1) * w = n * w - w
  OBVIOUS
<1> QED BY <1>1, <1>2, <1>3

LEMMA UnitsAre ==
  ASSUME NEW kind \in {"length", "elem"}, NEW num \in Int, NEW size \in Nat
  PROVE  /\ Units(kind, num, size) \in Seq(UnitType) /\ Len(Units(kind, num, size)) = size
         /\ \A k \in 1 .. size : Units(kind, num, size)[k] = <<kind, num, k>>
<1>1. \A k \in 1 .. size : <<kind, num, k>> \in UnitType
  BY DEF UnitType
<1>2. Units(kind, num, size) = [k \in 1 .. size |-> <<kind, num, k>>]
  BY DEF Units
<1> QED BY <1>1, <1>2

(* The units of one element give that element, other units a number. *)
LEMMA DecodeUnits ==
  ASSUME width \in Widths, NEW v \in Values
  PROVE  Decode(Units("elem", v, width)) = v
<1> DEFINE u == Units("elem", v, width)
<1>1. ASSUME NEW x \in Values, u = Units("elem", x, width) PROVE x = v
  <2>1. v \in Int /\ x \in Int /\ width \in Nat /\ 1 \in 1 .. width
    BY SizeFacts
  <2>2. u[1] = <<"elem", v, 1>>
    BY <2>1, UnitsAre
  <2>3. Units("elem", x, width)[1] = <<"elem", x, 1>>
    BY <2>1, UnitsAre
  <2> QED BY <1>1, <2>2, <2>3
<1>2. u = Units("elem", v, width)
  OBVIOUS
<1> HIDE DEF u
<1>3. \E x \in Values : u = Units("elem", x, width)
  BY <1>2
<1>4. Decode(u) = CHOOSE x \in Values : u = Units("elem", x, width)
  BY <1>3 DEF Decode
<1>5. Decode(u) \in Values /\ u = Units("elem", Decode(u), width)
  BY <1>3, <1>4
<1> QED BY <1>1, <1>5 DEF u

LEMMA DecodeType ==
  ASSUME NEW units
  PROVE  Decode(units) \in Int
<1>1. CASE \E v \in Values : units = Units("elem", v, width)
  <2>1. Decode(units) = CHOOSE v \in Values : units = Units("elem", v, width)
    BY <1>1 DEF Decode
  <2>2. Decode(units) \in Values
    BY <1>1, <2>1
  <2> QED BY <2>2, SizeFacts
<1>2. CASE ~ \E v \in Values : units = Units("elem", v, width)
  <2>1. Decode(units) = Torn
    BY <1>2 DEF Decode
  <2> QED BY <2>1, SizeFacts
<1> QED BY <1>1, <1>2

(* Unit j of element i. *)
LEMMA ElementUnitsAre ==
  ASSUME NEW s \in Storable, width \in Widths
  PROVE  /\ ElementUnits(s) \in Seq(UnitType) /\ Len(ElementUnits(s)) = Len(s) * width
         /\ \A i \in 1 .. Len(s), j \in 1 .. width :
              ElementUnits(s)[(i - 1) * width + j] = <<"elem", s[i], j>>
<1> DEFINE w == width
           n == Len(s)
           L == n * w
           Of(k) == <<"elem", s[((k - 1) \div w) + 1], ((k - 1) % w) + 1>>
<1>1. w \in Nat /\ w >= 1 /\ n \in Nat /\ s \in Seq(Int) /\ L \in Nat
  <2>1. w \in Nat /\ w >= 1 /\ n \in Nat /\ s \in Seq(Int)
    BY SizeFacts, StorableIsInt
  <2> HIDE DEF w, n
  <2> QED BY <2>1 DEF n
<1>2. ElementUnits(s) = [k \in 1 .. L |-> Of(k)]
  BY DEF ElementUnits
<1>3. ASSUME NEW i \in 1 .. n, NEW j \in 1 .. w
      PROVE  (i - 1) * w + j \in 1 .. L /\ Of((i - 1) * w + j) = <<"elem", s[i], j>>
  <2> DEFINE k == (i - 1) * w + j
  <2> HIDE DEF w, n
  <2>1. k \in 1 .. n * w
    BY <1>1, InBlock
  <2>2. k - 1 = (i - 1) * w + (j - 1) /\ i - 1 \in Nat /\ j - 1 \in 0 .. w - 1
    BY <1>1
  <2>3. ((i - 1) * w + (j - 1)) \div w = i - 1 /\ ((i - 1) * w + (j - 1)) % w = j - 1
    BY <1>1, <2>2, DivMod
  <2>4. (k - 1) \div w = i - 1 /\ (k - 1) % w = j - 1
    BY <2>2, <2>3
  <2> HIDE DEF k
  <2>5. ((k - 1) \div w) + 1 = i /\ ((k - 1) % w) + 1 = j
    BY <2>4, <1>1
  <2> QED BY <2>1, <2>5 DEF k
<1>4. ASSUME NEW k \in 1 .. L PROVE Of(k) \in UnitType
  <2> DEFINE q == (k - 1) \div w
             r == (k - 1) % w
  <2> HIDE DEF w, n
  <2>1. k - 1 \in Nat /\ k - 1 = w * q + r /\ q \in Int /\ r \in Nat
    BY <1>1
  <2>2. q \in Nat /\ q <= n
    <3>1. k - 1 <= n * w
      BY <1>1
    <3> QED BY <1>1, <2>1, <3>1, DivAtMost
  <2>3. q # n
    <3>1. w * n = n * w /\ k - 1 < n * w
      BY <1>1
    <3> HIDE DEF q, r
    <3> QED BY <1>1, <2>1, <3>1
  <2> HIDE DEF q, r
  <2>4. q + 1 \in 1 .. n /\ r + 1 \in Nat
    BY <1>1, <2>1, <2>2, <2>3
  <2>5. s[q + 1] \in Int
    BY <1>1, <2>4 DEF n
  <2> QED BY <2>4, <2>5 DEF UnitType, q, r
<1> HIDE DEF Of, L
<1>5. ElementUnits(s) \in Seq(UnitType) /\ Len(ElementUnits(s)) = L
  BY <1>1, <1>2, <1>4
<1>6. ASSUME NEW i \in 1 .. n, NEW j \in 1 .. w
      PROVE  ElementUnits(s)[(i - 1) * w + j] = <<"elem", s[i], j>>
  BY <1>2, <1>3
<1> QED BY <1>5, <1>6 DEF L

LEMMA FileOfAre ==
  ASSUME NEW s \in Storable, width \in Widths
  PROVE  /\ FileOf(s) \in Seq(UnitType) /\ Len(FileOf(s)) = IntSize + Len(s) * width
         /\ Header(FileOf(s)) = Len(s) /\ FileOf(s) # <<>>
         /\ \A i \in 1 .. Len(s), j \in 1 .. width :
              FileOf(s)[IntSize + (i - 1) * width + j] = <<"elem", s[i], j>>
<1> DEFINE h == Units("length", Len(s), IntSize)
           e == ElementUnits(s)
           f == h \o e
<1>1. /\ Len(s) \in Nat /\ IntSize \in Nat /\ IntSize >= 1 /\ width \in Nat /\ width >= 1
      /\ Len(s) * width \in Nat
  <2>1. Len(s) \in Nat /\ IntSize \in Nat /\ IntSize >= 1 /\ width \in Nat /\ width >= 1
    BY SizeFacts, StorableIsInt
  <2> QED BY <2>1
<1>2. h \in Seq(UnitType) /\ Len(h) = IntSize /\ h[1] = <<"length", Len(s), 1>>
  <2> DEFINE n == Len(s)
  <2>1. n \in Int /\ 1 \in 1 .. IntSize
    BY <1>1
  <2> HIDE DEF n
  <2>2. /\ Units("length", n, IntSize) \in Seq(UnitType) /\ Len(Units("length", n, IntSize)) = IntSize
        /\ Units("length", n, IntSize)[1] = <<"length", n, 1>>
    BY <1>1, <2>1, UnitsAre
  <2> QED BY <2>2 DEF n
<1>3. /\ e \in Seq(UnitType) /\ Len(e) = Len(s) * width
      /\ \A i \in 1 .. Len(s), j \in 1 .. width :
           e[(i - 1) * width + j] = <<"elem", s[i], j>>
  BY ElementUnitsAre
<1> HIDE DEF h, e
<1>4. /\ f \in Seq(UnitType) /\ Len(f) = Len(h) + Len(e) /\ f[1] = h[1]
      /\ \A k \in 1 .. Len(e) : f[Len(h) + k] = e[k]
  <2>1. /\ f \in Seq(UnitType) /\ Len(f) = Len(h) + Len(e)
        /\ \A i \in 1 .. Len(h) + Len(e) : f[i] = IF i <= Len(h) THEN h[i] ELSE e[i - Len(h)]
    BY <1>2, <1>3, ConcatProperties
  <2>2. Len(h) \in Nat /\ Len(h) >= 1 /\ Len(e) \in Nat
    BY <1>1, <1>2, <1>3
  <2> HIDE DEF f
  <2>3. f[1] = h[1]
    <3>1. 1 \in 1 .. Len(h) + Len(e) /\ 1 <= Len(h)
      BY <2>2
    <3> QED BY <2>1, <3>1
  <2>4. ASSUME NEW k \in 1 .. Len(e) PROVE f[Len(h) + k] = e[k]
    <3> DEFINE i == Len(h) + k
    <3>1. i \in 1 .. Len(h) + Len(e) /\ ~(i <= Len(h)) /\ i - Len(h) = k
      BY <2>2
    <3> HIDE DEF i
    <3> QED BY <2>1, <3>1 DEF i
  <2> QED BY <2>1, <2>3, <2>4
<1> HIDE DEF f
<1>5. ASSUME NEW i \in 1 .. Len(s), NEW j \in 1 .. width
      PROVE  f[IntSize + (i - 1) * width + j] = <<"elem", s[i], j>>
  <2> DEFINE k == (i - 1) * width + j
  <2>1. k \in 1 .. Len(e)
    BY <1>1, <1>3, InBlock
  <2>2. IntSize + (i - 1) * width + j = IntSize + k
    BY <1>1
  <2>3. e[k] = <<"elem", s[i], j>>
    BY <1>3
  <2> HIDE DEF k
  <2> QED BY <2>1, <2>2, <2>3, <1>2, <1>4
<1>6. FileOf(s) = f
  BY DEF FileOf, f, h, e
<1>7. Header(f) = Len(s) /\ f # <<>>
  BY <1>1, <1>2, <1>4 DEF Header
<1>8. Len(f) = IntSize + Len(s) * width
  BY <1>2, <1>3, <1>4
<1> QED BY <1>4, <1>5, <1>6, <1>7, <1>8

(* The first k units of a file. *)
PrefixOf(s, k) == SubSeq(FileOf(s), 1, k)

LEMMA PrefixAre ==
  ASSUME NEW s \in Storable, width \in Widths, NEW k \in 0 .. Len(FileOf(s))
  PROVE  /\ PrefixOf(s, k) \in Seq(UnitType) /\ Len(PrefixOf(s, k)) = k
         /\ \A i \in 1 .. k : PrefixOf(s, k)[i] = FileOf(s)[i]
         /\ IntSize <= k => HasHeader(PrefixOf(s, k)) /\ Header(PrefixOf(s, k)) = Len(s)
         /\ k < IntSize => ~HasHeader(PrefixOf(s, k))
<1> DEFINE f == FileOf(s)
           g == SubSeq(f, 1, k)
<1>1. f \in Seq(UnitType) /\ f[1][2] = Len(s) /\ IntSize \in Nat /\ IntSize >= 1
  BY FileOfAre, SizeFacts DEF Header
<1>2. g = PrefixOf(s, k)
  BY DEF PrefixOf
<1> HIDE DEF f
<1>3. g \in Seq(UnitType) /\ Len(g) = k /\ \A i \in 1 .. k : g[i] = f[i]
  BY <1>1 DEF f
<1> HIDE DEF g
<1>4. IntSize <= k => g[1] = f[1]
  BY <1>1, <1>3
<1>5. (IntSize <= k => HasHeader(g) /\ Header(g) = Len(s)) /\ (k < IntSize => ~HasHeader(g))
  BY <1>1, <1>3, <1>4 DEF HasHeader, Header
<1> QED BY <1>2, <1>3, <1>5 DEF f

(* The w entries behind the first b. *)
LEMMA Piece ==
  ASSUME NEW S, NEW f \in Seq(S), NEW b \in Nat, NEW w \in Nat, b + w <= Len(f)
  PROVE  /\ SubSeq(f, b + 1, b + w) \in Seq(S) /\ Len(SubSeq(f, b + 1, b + w)) = w
         /\ \A j \in 1 .. w : SubSeq(f, b + 1, b + w)[j] = f[b + j]
<1> DEFINE u == SubSeq(f, b + 1, b + w)
<1>1. u \in Seq(S) /\ Len(u) = w
  OBVIOUS
<1>2. ASSUME NEW j \in 1 .. w PROVE u[j] = f[b + j]
  OBVIOUS
<1> QED BY <1>1, <1>2

(* The units of element i, if they are among the first k. *)
LEMMA ElementAt ==
  ASSUME NEW s \in Storable, width \in Widths, NEW i \in 1 .. Len(s), NEW k \in 0 .. Len(FileOf(s)),
         IntSize + i * width <= k
  PROVE  Decode(SubSeq(PrefixOf(s, k), IntSize + (i - 1) * width + 1, IntSize + i * width)) = s[i]
<1> DEFINE f == PrefixOf(s, k)
           w == width
           b == IntSize + (i - 1) * w
           u == SubSeq(f, b + 1, b + w)
<1>1. /\ Len(s) \in Nat /\ IntSize \in Nat /\ w \in Nat /\ w >= 1 /\ s[i] \in Values /\ s[i] \in Int
  BY SizeFacts, StorableIsInt
<1>2. /\ f \in Seq(UnitType) /\ Len(f) = k
      /\ \A m \in 1 .. k : f[m] = FileOf(s)[m]
      /\ \A j \in 1 .. w : FileOf(s)[b + j] = <<"elem", s[i], j>>
  BY FileOfAre, PrefixAre
<1> HIDE DEF f, w
<1>9. k \in Nat
  BY FileOfAre
<1>3. b \in Nat /\ b + w = IntSize + i * w /\ b + w <= k
  <2>1. (i - 1) * w \in Nat /\ (i - 1) * w + w = i * w
    BY <1>1
  <2> QED BY <2>1, <1>1 DEF w
<1> HIDE DEF b
<1>4. /\ u \in Seq(UnitType) /\ Len(u) = w
      /\ \A j \in 1 .. w : u[j] = f[b + j]
  <2>1. f \in Seq(UnitType) /\ w \in Nat /\ b + w <= Len(f)
    BY <1>1, <1>2, <1>3
  <2> QED BY <2>1, <1>3, Piece
<1> HIDE DEF u
<1> DEFINE v == Units("elem", s[i], w)
<1>5. v \in Seq(UnitType) /\ Len(v) = w /\ \A j \in 1 .. w : v[j] = <<"elem", s[i], j>>
  BY <1>1, UnitsAre
<1> HIDE DEF v
<1>6. u = v
  <2>1. ASSUME NEW j \in 1 .. w PROVE u[j] = v[j]
    <3>1. b + j \in 1 .. k
      BY <1>1, <1>3
    <3> QED BY <3>1, <1>2, <1>4, <1>5
  <2> QED BY <2>1, <1>4, <1>5, SeqEqual
<1>7. Decode(v) = s[i]
  BY <1>1, DecodeUnits DEF v, w
<1>8. SubSeq(f, b + 1, IntSize + i * w) = u
  BY <1>3 DEF u
<1> QED BY <1>6, <1>7, <1>8 DEF f, b, w

(* How many whole elements the first k units have. *)
Whole(k) == (k - IntSize) \div width

LEMMA WholeAre ==
  ASSUME NEW s \in Storable, width \in Widths, NEW k \in IntSize .. Len(FileOf(s))
  PROVE  /\ Whole(k) \in 0 .. Len(s)
         /\ \A i \in 1 .. Whole(k) : IntSize + i * width <= k
         /\ k < IntSize + (Whole(k) + 1) * width
<1> DEFINE w == width
           z == IntSize
           n == Len(s)
           q == Whole(k)
           r == (k - z) % w
<1>1. w \in Nat /\ w >= 1 /\ z \in Nat /\ n \in Nat /\ Len(FileOf(s)) = z + n * w
  BY SizeFacts, StorableIsInt, FileOfAre
<1>2. k \in Nat /\ z <= k /\ k <= z + n * w
  <2> HIDE DEF w, z, n
  <2>1. n * w \in Nat
    BY <1>1
  <2> QED BY <1>1, <2>1 DEF z
<1>3. q = (k - z) \div w
  BY DEF Whole
<1> HIDE DEF w, z, n, q
<1>4. q \in Nat /\ q <= n
  BY <1>1, <1>2, <1>3, DivAtMost
<1>5. k - z = w * q + r /\ r \in 0 .. w - 1
  BY <1>1, <1>2, <1>3
<1> HIDE DEF r
<1>6. ASSUME NEW i \in 1 .. q PROVE z + i * w <= k
  <2>1. i * w <= q * w /\ q * w = w * q
    BY <1>1, <1>4
  <2> QED BY <2>1, <1>1, <1>2, <1>5, <1>4
<1>7. k < z + (q + 1) * w
  <2>1. (q + 1) * w = w * q + w
    BY <1>1, <1>4
  <2> QED BY <2>1, <1>1, <1>2, <1>5, <1>4
<1> QED BY <1>4, <1>6, <1>7 DEF w, z, n, q

(* What is behind the place the window loader seeks to, of k units: at     *)
(* most what is left of the elements.                                      *)
LEMMA RestOfFile ==
  ASSUME NEW w \in Nat, w >= 1, NEW z \in Nat, z <= w, NEW n \in Nat, NEW o \in Nat, o < n,
         NEW k \in Nat, k <= z + n * w,
         NEW left, left = IF w * (o + 1) > k THEN 0 ELSE k - w * (o + 1)
  PROVE  left \in Nat /\ left <= (n - o) * w
<1>1. w * (o + 1) = o * w + w /\ o * w \in Nat /\ n * w \in Nat
  OBVIOUS
<1>2. n * w = o * w + (n - o) * w /\ (n - o) * w \in Nat
  OBVIOUS
<1> QED BY <1>1, <1>2

LEMMA RestOfWide ==
  ASSUME NEW w \in Nat, w >= 1, NEW o \in Nat, NEW k \in Nat, w <= k,
         NEW q \in Nat, q = (k - w) \div w,
         NEW left, left = IF w * (o + 1) > k THEN 0 ELSE k - w * (o + 1)
  PROVE  left \div w = IF q > o THEN q - o ELSE 0
<1> DEFINE r == (k - w) % w
<1>1. k - w = w * q + r /\ r \in 0 .. w - 1
  OBVIOUS
<1> HIDE DEF r
<1>2. w * (o + 1) = o * w + w /\ o * w \in Nat /\ w * q = q * w
  OBVIOUS
<1>3. CASE q > o
  <2>1. q * w = o * w + (q - o) * w /\ (q - o) * w \in Nat /\ q - o \in Nat
    BY <1>3
  <2>2. left = (q - o) * w + r
    BY <1>1, <1>2, <2>1
  <2>3. ((q - o) * w + r) \div w = q - o
    BY <1>1, <2>1, DivMod
  <2> QED BY <1>3, <2>2, <2>3
<1>4. CASE ~(q > o)
  <2>1. q * w <= o * w
    BY <1>4
  <2>2. left \in 0 .. w - 1
    BY <1>1, <1>2, <2>1
  <2>3. left = 0 * w + left /\ 0 \in Nat
    BY <2>2
  <2>4. (0 * w + left) \div w = 0
    BY <2>2, <2>3, DivMod
  <2> QED BY <1>4, <2>3, <2>4
<1> QED BY <1>3, <1>4

(* The elements read, at most ask of them, from the offset on, of which    *)
(* whole are there; and the part of one behind them.                       *)
ReadFrom(s, whole, offset, ask, F) ==
  /\ F \in Seq(Int) /\ Len(F) <= ask /\ Len(F) <= Len(s) - offset
  /\ width = IntSize =>
       /\ Len(F) = IF whole <= offset THEN 0 ELSE IF ask < whole - offset THEN ask ELSE whole - offset
       /\ \A i \in 1 .. Len(F) : F[i] = s[offset + i]
PartOf(s, offset, ask, F, P) ==
  P \in Seq(Int) /\ Len(F) + Len(P) <= ask /\ Len(F) + Len(P) <= Len(s) - offset

LEMMA PartIs ==
  /\ <<Torn>> \in Seq(Int) /\ Len(<<Torn>>) = 1 /\ <<>> \in Seq(Int) /\ Len(<<>>) = 0
  /\ \A l, m \in Nat : l < m => l + 1 <= m
<1> QED BY SizeFacts

LEMMA FreadUnitsLemma ==
  ASSUME NEW s \in Storable, width \in Widths, NEW k \in IntSize .. Len(FileOf(s)),
         NEW offset \in Nat, offset < Len(s),
         NEW ask \in Nat, NEW from, from = width * (offset + 1),
         NEW F, F = FreadUnits(PrefixOf(s, k), from, ask),
         NEW P, P = PartRead(PrefixOf(s, k), from, ask)
  PROVE  ReadFrom(s, Whole(k), offset, ask, F) /\ PartOf(s, offset, ask, F, P)
<1> DEFINE w == width
           z == IntSize
           n == Len(s)
           f == PrefixOf(s, k)
           left == IF from > k THEN 0 ELSE k - from
           there == left \div w
           num == IF ask < there THEN ask ELSE there
           q == Whole(k)
           At(i) == Decode(SubSeq(f, from + (i - 1) * w + 1, from + i * w))
<1>1. w \in Nat /\ w >= 1 /\ z \in Nat /\ z <= w /\ n \in Nat /\ offset < n
  BY SizeFacts, StorableIsInt
<1>2. /\ k \in Nat /\ z <= k /\ k <= z + n * w /\ k \in 0 .. Len(FileOf(s))
      /\ Len(f) = k
  <2>1. Len(FileOf(s)) = z + n * w
    BY FileOfAre
  <2> HIDE DEF w, z, n, f
  <2>2. n * w \in Nat
    BY <1>1
  <2>3. k \in Nat /\ z <= k /\ k <= z + n * w /\ k \in 0 .. Len(FileOf(s))
    BY <1>1, <2>1, <2>2 DEF z
  <2> QED BY <2>3, PrefixAre DEF f
<1>3. q = (k - z) \div w /\ q \in Nat /\ q <= n /\ \A i \in 1 .. q : z + i * w <= k
  BY WholeAre DEF Whole
<1>4. F = [i \in 1 .. num |-> At(i)]
  BY <1>2 DEF FreadUnits, Left
<1>5. P = IF there < ask /\ there * w < left THEN <<Torn>> ELSE <<>>
  BY <1>2 DEF PartRead, Left
<1>6. left \in Nat /\ left <= (n - offset) * w
  <2> HIDE DEF w, z, n
  <2> QED BY <1>1, <1>2, RestOfFile DEF w
<1>7. /\ there \in Nat /\ there <= n - offset
      /\ w = z => there = IF q > offset THEN q - offset ELSE 0
  <2> HIDE DEF w, z, n, q
  <2>1. left \div w \in Nat /\ left \div w <= n - offset
    <3> HIDE DEF left
    <3>1. n - offset \in Nat
      BY <1>1
    <3> QED BY <1>1, <1>6, <3>1, DivAtMost
  <2>2. ASSUME w = z PROVE left \div w = IF q > offset THEN q - offset ELSE 0
    <3>1. /\ q = (k - w) \div w /\ w <= k
          /\ left = IF w * (offset + 1) > k THEN 0 ELSE k - w * (offset + 1)
      BY <2>2, <1>2, <1>3 DEF w
    <3> HIDE DEF left
    <3> QED BY <3>1, <1>1, <1>2, <1>3, RestOfWide
  <2> QED BY <2>1, <2>2
<1> HIDE DEF there
<1>8. num \in Nat /\ num <= ask /\ num <= n - offset /\ num <= there
  BY <1>1, <1>7
<1>9. w = z => num = IF q <= offset THEN 0 ELSE IF ask < q - offset THEN ask ELSE q - offset
  <2> HIDE DEF q, w, z, n
  <2> QED BY <1>3, <1>7
<1>10. \A i \in 1 .. num : At(i) \in Int
  BY DecodeType
<1>11. ASSUME w = z, NEW i \in 1 .. num PROVE At(i) = s[offset + i]
  <2> DEFINE j == offset + i
  <2>1. j \in 1 .. q /\ j \in 1 .. n
    <3> HIDE DEF q, w, z, n
    <3> QED BY <1>1, <1>3, <1>8, <1>9, <1>11
  <2>2. from + (i - 1) * w + 1 = z + (j - 1) * w + 1 /\ from + i * w = z + j * w
    <3>1. from = w * (offset + 1)
      OBVIOUS
    <3> HIDE DEF w, z, n, q, num, left
    <3>2. w * (offset + 1) = offset * w + w /\ (i - 1) * w = i * w - w /\ i \in Nat
      BY <1>1, <1>8
    <3>3. (offset + i - 1) * w = offset * w + i * w - w /\ (offset + i) * w = offset * w + i * w
      BY <1>1, <3>2
    <3> QED BY <1>1, <1>11, <3>1, <3>2, <3>3
  <2>3. z + j * w <= k
    BY <2>1, <1>3
  <2> HIDE DEF j
  <2>4. Decode(SubSeq(f, z + (j - 1) * w + 1, z + j * w)) = s[j]
    BY <1>2, <2>1, <2>3, ElementAt
  <2> QED BY <2>2, <2>4 DEF j
<1> HIDE DEF At, num
<1>12. /\ F \in Seq(Int) /\ Len(F) = num
       /\ \A i \in 1 .. num : F[i] = At(i)
  BY <1>4, <1>8, <1>10
<1>13. ReadFrom(s, q, offset, ask, F)
  BY <1>8, <1>9, <1>11, <1>12 DEF ReadFrom
<1>14. PartOf(s, offset, ask, F, P)
  <2> HIDE DEF w, z, n, left
  <2>1. CASE there < ask /\ there * w < left
    <3>4. P = <<Torn>>
      BY <1>5, <2>1, Zenon
    <3>1. P \in Seq(Int) /\ Len(P) = 1
      BY <3>4, PartIs, Zenon
    <3>2. num = there
      BY <2>1, <1>1, <1>7 DEF num
    <3>3. there < n - offset /\ n - offset \in Nat
      BY <2>1, <1>1, <1>6, <1>7
    <3>5. there + 1 <= ask /\ there + 1 <= n - offset
      BY <1>7, <2>1, <3>3, PartIs
    <3>6. Len(F) + Len(P) <= ask /\ Len(F) + Len(P) <= n - offset
      BY <1>12, <3>1, <3>2, <3>5, Zenon
    <3> QED BY <3>1, <3>6, Zenon DEF PartOf, n
  <2>2. CASE ~(there < ask /\ there * w < left)
    <3>4. P = <<>>
      BY <1>5, <2>2, Zenon
    <3>1. P \in Seq(Int) /\ Len(P) = 0
      BY <3>4, PartIs, Zenon
    <3>5. num + 0 = num
      BY <1>8
    <3>6. Len(F) + Len(P) <= ask /\ Len(F) + Len(P) <= n - offset
      BY <1>8, <1>12, <3>1, <3>5, Zenon
    <3> QED BY <3>1, <3>6, Zenon DEF PartOf, n
  <2> QED BY <2>1, <2>2
<1> QED BY <1>13, <1>14

(* What fread is given room for. *)
LEMMA FilledByLemma ==
  ASSUME NEW capacity \in 0 .. MaxLength, NEW F \in Seq(Int), NEW P \in Seq(Int),
         Len(F) + Len(P) <= capacity, NEW x, x = FilledBy(capacity, F, P)
  PROVE  ArrayOK(x) /\ Elements(x) = F
<1> DEFINE all == F \o P
           d == [i \in 1 .. (IF Len(all) > capacity THEN Len(all) ELSE capacity) |->
                   IF i <= Len(all) THEN all[i] ELSE 0]
<1>1. x = [capacity |-> capacity, length |-> Len(F), data |-> d]
  BY DEF FilledBy
<1>2. /\ all \in Seq(Int) /\ Len(all) = Len(F) + Len(P)
      /\ \A i \in 1 .. Len(F) + Len(P) : all[i] = IF i <= Len(F) THEN F[i] ELSE P[i - Len(F)]
  BY ConcatProperties
<1>3. Len(F) \in Nat /\ Len(P) \in Nat /\ capacity \in Nat /\ MaxLength \in Nat /\ capacity <= MaxLength
  BY SizeFacts
<1> HIDE DEF all
<1>4. d = [i \in 1 .. capacity |-> IF i <= Len(all) THEN all[i] ELSE 0]
  BY <1>2, <1>3
<1> HIDE DEF d
<1>5. d \in Seq(Int) /\ Len(d) = capacity /\ \A i \in 1 .. Len(F) : d[i] = F[i]
  <2>1. \A i \in 1 .. capacity : (IF i <= Len(all) THEN all[i] ELSE 0) \in Int
    BY <1>2, <1>3
  <2>2. d \in Seq(Int) /\ Len(d) = capacity
    BY <1>3, <1>4, <2>1
  <2>3. ASSUME NEW i \in 1 .. Len(F) PROVE d[i] = F[i]
    <3>1. i \in 1 .. capacity /\ i <= Len(all) /\ i \in 1 .. Len(F) + Len(P) /\ i <= Len(F)
      BY <1>2, <1>3
    <3> QED BY <3>1, <1>2, <1>4
  <2> QED BY <2>2, <2>3
<1>6. x \in ArrayType /\ x.capacity = capacity /\ x.length = Len(F) /\ x.data = d
  BY <1>1, <1>3, <1>5 DEF ArrayType
<1>7. ArrayOK(x)
  BY <1>3, <1>5, <1>6 DEF ArrayOK
<1>8. /\ Elements(x) \in Seq(Int) /\ Len(Elements(x)) = Len(F)
      /\ \A i \in 1 .. Len(F) : Elements(x)[i] = IF i <= capacity THEN d[i] ELSE 0
  BY <1>5, <1>6, ElementsAre
<1>9. Elements(x) = F
  <2>1. \A i \in 1 .. Len(F) : Elements(x)[i] = F[i]
    BY <1>3, <1>5, <1>8
  <2> QED BY <2>1, <1>8, SeqEqual
<1> QED BY <1>7, <1>9

(* The elements of which the first k units are the whole. *)
HeldOf(s, k) == SubSeq(s, 1, Whole(k))

LEMMA HeldOfAre ==
  ASSUME NEW s \in Storable, width \in Widths, NEW k \in IntSize .. Len(FileOf(s))
  PROVE  /\ Whole(k) \in 0 .. Len(s) /\ HeldOf(s, k) \in Seq(Int) /\ Len(HeldOf(s, k)) = Whole(k)
         /\ \A i \in 1 .. Whole(k) : HeldOf(s, k)[i] = s[i]
<1> DEFINE q == Whole(k)
           t == SubSeq(s, 1, q)
<1>1. q \in 0 .. Len(s) /\ s \in Seq(Int) /\ Len(s) \in Nat
  BY WholeAre, StorableIsInt
<1> HIDE DEF q
<1>2. t \in Seq(Int) /\ Len(t) = q /\ \A i \in 1 .. q : t[i] = s[i]
  BY <1>1
<1> QED BY <1>1, <1>2 DEF HeldOf, q

(* The slice of them that was read: how long it is, and what is in it. *)
LEMMA SliceLength ==
  ASSUME NEW n \in Nat, NEW q \in Nat, q <= n, NEW offset \in Nat, offset < n, NEW length \in Nat,
         NEW ask, ask = IF length > 0 THEN length ELSE n - offset,
         NEW to, to = IF length = 0 \/ offset + length > q THEN q ELSE offset + length
  PROVE  /\ to \in 0 .. q
         /\ (IF q <= offset THEN 0 ELSE IF ask < q - offset THEN ask ELSE q - offset)
            = IF to <= offset THEN 0 ELSE to - offset
<1>1. CASE length = 0
  BY <1>1
<1>2. CASE length > 0
  BY <1>2
<1> QED BY <1>1, <1>2

LEMMA SliceElement ==
  ASSUME NEW t \in Seq(Int), NEW offset \in Nat, NEW to \in Nat, to <= Len(t), NEW i \in 1 .. to - offset
  PROVE  SubSeq(t, offset + 1, to)[i] = t[offset + i] /\ offset + i \in 1 .. Len(t)
<1> DEFINE m == offset + 1
<1>1. /\ m \in 1 .. Len(t) + 1 /\ to \in m - 1 .. Len(t) /\ i \in 1 .. to - m + 1
      /\ m + i - 1 = offset + i /\ offset + i \in 1 .. Len(t)
  OBVIOUS
<1> HIDE DEF m
<1>2. SubSeq(t, m, to)[i] = t[m + i - 1]
  BY <1>1, SubSeqProperties
<1> QED BY <1>1, <1>2 DEF m

LEMMA SliceLemma ==
  ASSUME NEW s \in Storable, width \in Widths, width = IntSize, NEW k \in IntSize .. Len(FileOf(s)),
         NEW offset \in Nat, offset < Len(s), NEW length \in Nat, NEW F,
         NEW ask, ask = IF length > 0 THEN length ELSE Len(s) - offset,
         ReadFrom(s, Whole(k), offset, ask, F)
  PROVE  Promise!Slice(HeldOf(s, k), offset, length) = F
<1> DEFINE t == HeldOf(s, k)
           q == Whole(k)
           to == IF length = 0 \/ offset + length > q THEN q ELSE offset + length
           u == SubSeq(t, offset + 1, to)
           n == Len(s)
<1>1. /\ n \in Nat /\ q \in 0 .. n /\ q \in Nat /\ q <= n /\ t \in Seq(Int) /\ Len(t) = q
      /\ \A i \in 1 .. q : t[i] = s[i]
  <2>1. n \in Nat
    BY StorableIsInt
  <2>2. q \in 0 .. n /\ t \in Seq(Int) /\ Len(t) = q /\ \A i \in 1 .. q : t[i] = s[i]
    BY HeldOfAre
  <2> HIDE DEF q, n, t
  <2>3. q \in Nat /\ q <= n
    BY <2>1, <2>2
  <2> QED BY <2>1, <2>2, <2>3
<1>8. /\ F \in Seq(Int) /\ \A i \in 1 .. Len(F) : F[i] = s[offset + i]
      /\ Len(F) = IF q <= offset THEN 0 ELSE IF ask < q - offset THEN ask ELSE q - offset
  BY DEF ReadFrom
<1>9. offset < n /\ ask = IF length > 0 THEN length ELSE n - offset
  OBVIOUS
<1> HIDE DEF t, q, n
<1>10. to \in 0 .. q /\ Len(F) = (IF to <= offset THEN 0 ELSE to - offset)
  BY <1>1, <1>8, <1>9, SliceLength
<1>3. Promise!Slice(t, offset, length) = u
  BY <1>1 DEF Promise!Slice
<1> HIDE DEF to
<1>2. to \in Nat /\ to <= q /\ Len(F) = (IF to <= offset THEN 0 ELSE to - offset)
  BY <1>1, <1>10
<1>4. u \in Seq(Int) /\ Len(u) = (IF to <= offset THEN 0 ELSE to - offset)
  BY <1>1, <1>2
<1>5. ASSUME NEW i \in 1 .. Len(F) PROVE u[i] = t[offset + i] /\ offset + i \in 1 .. q
  <2>1. i \in 1 .. to - offset
    BY <1>1, <1>2
  <2> QED BY <1>1, <1>2, <2>1, SliceElement
<1> HIDE DEF u
<1>6. \A i \in 1 .. Len(F) : u[i] = F[i]
  BY <1>1, <1>5, <1>8
<1>7. u = F
  BY <1>2, <1>4, <1>6, <1>8, SeqEqual
<1> QED BY <1>3, <1>7 DEF t

(* What a binary file gives back. *)
LEMMA BinaryLoadLemma ==
  ASSUME NEW s \in Storable, width \in Widths, NEW k \in IntSize .. Len(FileOf(s)),
         NEW offset \in Nat, NEW length \in Nat,
         NEW x, x = BinaryLoad(PrefixOf(s, k), offset, length)
  PROVE  /\ Len(s) <= offset => x = None
         /\ offset < Len(s) =>
              /\ ArrayOK(x)
              /\ width = IntSize => Elements(x) = Promise!Slice(HeldOf(s, k), offset, length)
<1> DEFINE n == Len(s)
           rest == n - offset
           ask == IF length > 0 THEN length ELSE rest
           capacity == IF ask < rest THEN ask ELSE rest
           from == width * (offset + 1)
           F == FreadUnits(PrefixOf(s, k), from, ask)
           P == PartRead(PrefixOf(s, k), from, ask)
<1>1. n \in 0 .. MaxLength /\ MaxLength \in Nat /\ s \in Seq(Int)
  BY SizeFacts, StorableIsInt
<1>2. HasHeader(PrefixOf(s, k)) /\ Header(PrefixOf(s, k)) = n
  <2>1. k \in 0 .. Len(FileOf(s)) /\ IntSize <= k
    BY SizeFacts, FileOfAre
  <2> QED BY <2>1, PrefixAre
<1>3. x = IF rest <= 0 THEN None ELSE FilledBy(capacity, F, P)
  BY <1>2 DEF BinaryLoad
<1>4. CASE n <= offset
  BY <1>1, <1>3, <1>4
<1>5. CASE offset < n
  <2>1. ask \in Nat /\ capacity \in 0 .. MaxLength /\ rest \in Nat /\ ~(rest <= 0)
    BY <1>1, <1>5
  <2>2. ReadFrom(s, Whole(k), offset, ask, F) /\ PartOf(s, offset, ask, F, P)
    <3> HIDE DEF ask, from, F, P
    <3> QED BY <1>5, <2>1, FreadUnitsLemma DEF from, F, P
  <2> HIDE DEF F, P
  <2>3. /\ F \in Seq(Int) /\ P \in Seq(Int) /\ Len(F) + Len(P) <= ask
        /\ Len(F) + Len(P) <= rest
    BY <2>2 DEF ReadFrom, PartOf
  <2>4. Len(F) + Len(P) <= capacity
    BY <2>1, <2>3
  <2>5. x = FilledBy(capacity, F, P)
    BY <1>3, <2>1
  <2>6. ArrayOK(x) /\ Elements(x) = F
    <3> HIDE DEF capacity
    <3> QED BY <2>1, <2>3, <2>4, <2>5, FilledByLemma
  <2>7. ASSUME width = IntSize PROVE F = Promise!Slice(HeldOf(s, k), offset, length)
    <3>1. ask = IF length > 0 THEN length ELSE Len(s) - offset
      OBVIOUS
    <3> HIDE DEF ask
    <3> QED BY <3>1, <1>5, <2>2, <2>7, SliceLemma
  <2> QED BY <2>6, <2>7, <1>5, <1>1
<1> QED BY <1>1, <1>4, <1>5

(* A file without a length. *)
LEMMA HeaderMissing ==
  ASSUME NEW s \in Storable, width \in Widths, NEW k \in 0 .. Len(FileOf(s)), k < IntSize,
         NEW offset, NEW length
  PROVE  BinaryLoad(PrefixOf(s, k), offset, length) = None /\ LengthLoad(PrefixOf(s, k)) = None
<1>1. ~HasHeader(PrefixOf(s, k))
  BY PrefixAre
<1> QED BY <1>1 DEF BinaryLoad, LengthLoad

-----------------------------------------------------------------------------
(* What the mapping makes of the files. *)
LEMMA NoneFacts ==
  /\ \A x \in ArrayType : x # None
  /\ \A s \in Seq(Int) : s # None
  /\ \A f \in Seq(UnitType) : f # None
  /\ Promise!Blank # None
  /\ \A l \in Nat, e \in Seq(Int) : [length |-> l, elements |-> e] \notin {None, Promise!Blank}
<1> DEFINE R == [length : Nat \cup {None}, elements : Seq(Int)]
<1>1. Promise!Blank = [length |-> None, elements |-> <<>>] /\ Promise!Blank \in R
  BY DEF Promise!Blank
<1>2. ASSUME NEW l \in Nat, NEW e \in Seq(Int)
      PROVE  [length |-> l, elements |-> e] \in R /\ [length |-> l, elements |-> e] # Promise!Blank
  <2>1. l # None
    BY NoneAssumption
  <2> QED BY <1>1, <2>1
<1>3. None \notin R
  BY NoneAssumption
<1> HIDE DEF R
<1> QED BY <1>1, <1>2, <1>3, NoneAssumption

FileMeaning ==
  /\ disk = None => File = None
  /\ disk = <<>> => File = Promise!Blank
  /\ \A s \in Storable : format = "text" /\ disk = WordsOf(s) => File = Promise!Whole(s)
  /\ \A s \in Storable : \A k \in 0 .. Len(FileOf(s)) :
       format = "binary" /\ width \in Widths /\ disk = PrefixOf(s, k) =>
         File = IF k < IntSize THEN Promise!Blank
                ELSE [length |-> Len(s), elements |-> HeldOf(s, k)]

LEMMA FileMeans == FileMeaning
<1>1. disk = None => File = None
  BY DEF File
<1>2. ASSUME disk = <<>> PROVE File = Promise!Blank
  <2>1. <<>> \in Seq(Int)
    OBVIOUS
  <2>2. disk # None
    BY <1>2, <2>1, NoneFacts
  <2> QED BY <1>2, <2>2 DEF File, Promise!Blank
<1>3. ASSUME NEW s \in Storable, format = "text", disk = WordsOf(s) PROVE File = Promise!Whole(s)
  <2>1. disk \in Seq(Int) /\ disk # <<>> /\ Tail(disk) = s
    BY <1>3, WordsOfAre
  <2>2. disk # None
    BY <2>1, NoneFacts
  <2>3. File = [length |-> Len(Tail(disk)), elements |-> Tail(disk)]
    BY <2>1, <2>2, <1>3 DEF File
  <2> QED BY <2>1, <2>3 DEF Promise!Whole
<1>4. ASSUME NEW s \in Storable, NEW k \in 0 .. Len(FileOf(s)),
             format = "binary", width \in Widths, disk = PrefixOf(s, k)
      PROVE  File = IF k < IntSize THEN Promise!Blank
                    ELSE [length |-> Len(s), elements |-> HeldOf(s, k)]
  <2>1. /\ disk \in Seq(UnitType) /\ Len(disk) = k
        /\ IntSize <= k => HasHeader(disk) /\ Header(disk) = Len(s)
        /\ k < IntSize => ~HasHeader(disk)
    BY <1>4, PrefixAre
  <2>2. disk # None /\ k \in Int /\ IntSize \in Nat /\ IntSize >= 1
    BY <2>1, NoneFacts, SizeFacts, FileOfAre, <1>4
  <2>3. CASE k < IntSize
    BY <2>1, <2>2, <2>3, <1>4 DEF File, Promise!Blank
  <2>4. CASE ~(k < IntSize)
    <3> DEFINE At(i) == Decode(SubSeq(disk, IntSize + (i - 1) * width + 1, IntSize + i * width))
    <3>1. k \in IntSize .. Len(FileOf(s)) /\ IntSize <= k /\ disk # <<>>
      BY <2>1, <2>2, <2>4
    <3>2. StoredElements = [i \in 1 .. Whole(k) |-> At(i)]
      BY <2>1 DEF StoredElements, Whole
    <3>3. \A i \in 1 .. Whole(k) : At(i) = s[i]
      <4> SUFFICES ASSUME NEW i \in 1 .. Whole(k) PROVE At(i) = s[i]
        OBVIOUS
      <4>1. Whole(k) \in 0 .. Len(s) /\ IntSize + i * width <= k /\ Len(s) \in Nat
        BY <3>1, <1>4, WholeAre, StorableIsInt
      <4>2. i \in 1 .. Len(s)
        BY <4>1
      <4> QED BY <4>1, <4>2, <1>4, ElementAt
    <3> HIDE DEF At
    <3>4. StoredElements = [i \in 1 .. Whole(k) |-> s[i]]
      BY <3>2, <3>3
    <3>5. StoredElements = HeldOf(s, k)
      <4> DEFINE q == Whole(k)
                 t == HeldOf(s, k)
      <4>1. q \in Nat /\ t \in Seq(Int) /\ Len(t) = q /\ \A i \in 1 .. q : t[i] = s[i]
        BY <3>1, <1>4, HeldOfAre
      <4> HIDE DEF t, q
      <4>2. t = [i \in 1 .. q |-> s[i]]
        BY <4>1
      <4> QED BY <3>4, <4>2 DEF q, t
    <3>6. File = [length |-> Header(disk), elements |-> StoredElements]
      BY <2>1, <2>2, <3>1, <1>4 DEF File
    <3> QED BY <2>1, <2>4, <3>1, <3>5, <3>6
  <2> QED BY <2>3, <2>4
<1> QED BY <1>1, <1>2, <1>3, <1>4 DEF FileMeaning

LEMMA FileMeansNext == FileMeaning'
  BY FileMeans, PTL

-----------------------------------------------------------------------------
(* What the steps have in common: an array becomes x, its content s. *)
LEMMA ContentIs ==
  ASSUME Inv, NEW a \in Arrays
  PROVE  /\ Exists(a) => /\ ArrayOK(arrays[a]) /\ Content[a] = Elements(arrays[a])
                         /\ Content[a] \in Seq(Int) /\ Len(Content[a]) = arrays[a].length
                         /\ Content[a] # None
         /\ ~Exists(a) => arrays[a] = None /\ Content[a] = None
<1>1. Content[a] = IF Exists(a) THEN Elements(arrays[a]) ELSE None
  BY DEF Content
<1>2. ASSUME Exists(a)
      PROVE  /\ ArrayOK(arrays[a]) /\ Elements(arrays[a]) \in Seq(Int)
             /\ Len(Elements(arrays[a])) = arrays[a].length
  <2>1. ArrayOK(arrays[a])
    BY <1>2 DEF Inv, ArraysOK
  <2> QED BY <2>1, ElementsAre DEF ArrayOK
<1>3. ~Exists(a) => arrays[a] = None
  BY DEF Exists
<1> QED BY <1>1, <1>2, <1>3, NoneFacts

LEMMA SetStep ==
  ASSUME Inv, UNCHANGED <<format, width>>, NEW a \in Arrays, NEW x, Set(a, x),
         x = None \/ ArrayOK(x)
  PROVE  /\ ArraysOK' /\ FormatOK'
         /\ Content' = [Content EXCEPT ![a] = IF x = None THEN None ELSE Elements(x)]
<1>1. x \in ArrayType \cup {None} /\ (x # None => ArrayOK(x))
  BY DEF ArrayOK
<1>2. arrays' = [arrays EXCEPT ![a] = x] /\ format' = format
  BY DEF Set
<1>3. arrays \in [Arrays -> ArrayType \cup {None}] /\ \A b \in Arrays : arrays[b] # None => ArrayOK(arrays[b])
  BY DEF Inv, ArraysOK, Exists
<1>4. arrays' \in [Arrays -> ArrayType \cup {None}] /\ \A b \in Arrays : arrays'[b] = IF b = a THEN x ELSE arrays[b]
  BY <1>1, <1>2, <1>3
<1>5. \A b \in Arrays : arrays'[b] # None => ArrayOK(arrays'[b])
  BY <1>1, <1>3, <1>4
<1>6. ArraysOK'
  <2>1. \A b \in Arrays : arrays'[b] # None => ArrayOK(arrays[b])'
    BY <1>2, <1>5 DEF ArrayOK
  <2> QED BY <1>4, <2>1 DEF ArraysOK, Exists
<1>7. FormatOK'
  BY DEF Inv, FormatOK
<1>8. Content' = [Content EXCEPT ![a] = IF x = None THEN None ELSE Elements(x)]
  <2> DEFINE Shows(y) == IF y # None THEN Elements(y) ELSE None
  <2>1. Content' = [b \in Arrays |-> Shows(arrays'[b])]
    BY DEF Content, Exists
  <2>2. Content = [b \in Arrays |-> Shows(arrays[b])]
    BY DEF Content, Exists
  <2>3. Shows(x) = IF x = None THEN None ELSE Elements(x)
    OBVIOUS
  <2> HIDE DEF Shows
  <2>4. [Content EXCEPT ![a] = Shows(x)] = [b \in Arrays |-> Shows(arrays'[b])]
    BY <1>4, <2>2
  <2> QED BY <2>1, <2>3, <2>4
<1> QED BY <1>6, <1>7, <1>8

LEMMA SamePrefixes ==
  ASSUME UNCHANGED width, NEW s
  PROVE  FileOf(s)' = FileOf(s) /\ \A k : PrefixOf(s, k)' = PrefixOf(s, k)
BY DEF FileOf, ElementUnits, PrefixOf

LEMMA SameDisk ==
  ASSUME Inv, UNCHANGED <<format, width, disk>>
  PROVE  DiskOK' /\ File' = File
<1>1. \A s : FileOf(s)' = FileOf(s)
  BY SamePrefixes
<1>2. DiskOK'
  BY <1>1 DEF Inv, DiskOK
<1>3. File' = File
  BY DEF File, StoredElements, Decode, HasHeader
<1> QED BY <1>2, <1>3

LEMMA SameUnsaved ==
  ASSUME Inv, UNCHANGED <<format, unsaved>>, open' \in 0 .. MaxOpen, open' >= open
  PROVE  UnsavedOK' /\ Pending' = Pending
<1>1. Pending' = Pending
  BY DEF Pending
<1>2. IsFiniteSet(unsaved) /\ Cardinality(unsaved) <= open /\ open \in 0 .. MaxOpen
  BY DEF Inv, UnsavedOK
<1>3. Cardinality(unsaved) \in Nat
  BY <1>2, FS_CardinalityType
<1>4. Cardinality(unsaved) <= open'
  BY <1>2, <1>3, SizeFacts
<1> QED BY <1>1, <1>2, <1>4 DEF Inv, UnsavedOK

LEMMA SameFiles ==
  ASSUME Inv, UNCHANGED <<format, width>>, FileUnchanged
  PROVE  DiskOK' /\ UnsavedOK' /\ UNCHANGED Promise!fileVars
<1>1. open \in 0 .. MaxOpen /\ open' = open /\ open' >= open
  BY SizeFacts DEF Inv, UnsavedOK, FileUnchanged
<1>2. DiskOK' /\ UnsavedOK' /\ File' = File /\ Pending' = Pending
  BY <1>1, SameDisk, SameUnsaved DEF FileUnchanged
<1> QED BY <1>1, <1>2 DEF FileUnchanged, Promise!fileVars

(* A step that gives one array x and leaves the files. *)
LEMMA ArrayStep ==
  ASSUME Inv, UNCHANGED <<format, width>>, writing = None, NEW a \in Arrays, NEW x, Set(a, x), FileUnchanged,
         x = None \/ ArrayOK(x)
  PROVE  /\ Inv' /\ UNCHANGED Promise!fileVars
         /\ Content' = [Content EXCEPT ![a] = IF x = None THEN None ELSE Elements(x)]
<1>1. WritingOK'
  BY DEF FileUnchanged, WritingOK
<1> QED BY <1>1, SetStep, SameFiles DEF Inv

LEMMA ContentSet ==
  ASSUME NEW a \in Arrays, NEW s, Content' = [Content EXCEPT ![a] = s]
  PROVE  Content'[a] = s /\ Promise!Becomes(a, s)
<1>1. a \in DOMAIN Content
  BY DEF Content
<1> QED BY <1>1 DEF Promise!Becomes

-----------------------------------------------------------------------------
(* The steps on one array. *)
Stutters == UNCHANGED <<Content, Promise!fileVars>>

LEMMA AllocStep ==
  ASSUME Inv, UNCHANGED <<format, width>>, writing = None, NEW a \in Arrays, NEW n \in 0 .. MaxLength, Alloc(a, n)
  PROVE  Inv' /\ Promise!New(a)
<1> DEFINE x == NewArray(n)
<1>1. Set(a, x) /\ FileUnchanged /\ ArrayOK(x) /\ Elements(x) = <<>>
  BY NewArrayLemma DEF Alloc
<1>2. x # None
  BY <1>1, NoneFacts DEF ArrayOK
<1> HIDE DEF x
<1>3. Inv' /\ UNCHANGED Promise!fileVars /\ Content' = [Content EXCEPT ![a] = <<>>]
  BY <1>1, <1>2, ArrayStep
<1> QED BY <1>3, ContentSet DEF Promise!New

LEMMA ClearStep ==
  ASSUME Inv, UNCHANGED <<format, width>>, writing = None, NEW a \in Arrays, Clear(a)
  PROVE  Inv' /\ Promise!New(a)
<1> DEFINE x == arrays[a]
           y == [x EXCEPT !.length = 0]
<1>1. ArrayOK(x) /\ Set(a, y) /\ FileUnchanged
  BY ContentIs DEF Clear
<1> HIDE DEF x
<1>2. ArrayOK(y) /\ Elements(y) = <<>>
  BY <1>1, ClearLemma
<1>3. y # None
  BY <1>2, NoneFacts DEF ArrayOK
<1> HIDE DEF y
<1>4. Inv' /\ UNCHANGED Promise!fileVars /\ Content' = [Content EXCEPT ![a] = <<>>]
  BY <1>1, <1>2, <1>3, ArrayStep
<1> QED BY <1>4, ContentSet DEF Promise!New

LEMMA SetBufferStep ==
  ASSUME Inv, UNCHANGED <<format, width>>, writing = None, NEW a \in Arrays, NEW n \in 0 .. MaxLength,
         NEW v \in Values, SetBuffer(a, n, v)
  PROVE  Inv' /\ Promise!Attach(a)
<1> DEFINE x == arrays[a]
           y == [x EXCEPT !.capacity = n, !.data = [i \in 1 .. n |-> v]]
<1>1. /\ ArrayOK(x) /\ Content[a] = Elements(x) /\ Content[a] # None
      /\ x.capacity = 0 /\ n >= x.length /\ Set(a, y) /\ FileUnchanged
  BY ContentIs DEF SetBuffer
<1> HIDE DEF x
<1>2. v \in Int
  BY SizeFacts
<1>3. /\ ArrayOK(y) /\ Len(Elements(y)) = Len(Elements(x))
      /\ \A i \in 1 .. Len(Elements(x)) : Elements(x)[i] = 0
  BY <1>1, <1>2, SetBufferLemma
<1>4. y # None /\ Elements(y) \in Seq(Int)
  BY <1>3, NoneFacts, ElementsAre DEF ArrayOK
<1> HIDE DEF y
<1>5. Inv' /\ UNCHANGED Promise!fileVars /\ Content' = [Content EXCEPT ![a] = Elements(y)]
  BY <1>1, <1>3, <1>4, ArrayStep
<1>6. Elements(y) # None
  BY <1>4, NoneFacts
<1>7. Content'[a] = Elements(y) /\ Promise!Becomes(a, Content'[a])
  BY <1>5, ContentSet
<1> QED BY <1>1, <1>3, <1>5, <1>6, <1>7 DEF Promise!Attach

LEMMA WriteStep ==
  ASSUME Inv, UNCHANGED <<format, width>>, writing = None, NEW a \in Arrays, NEW n \in 0 .. MaxLength,
         NEW v \in Values, Write(a, n, v)
  PROVE  Inv' /\ (Stutters \/ (n + 1 \in 1 .. MaxLength /\ Promise!Put(a, n + 1, v)))
<1> DEFINE x == arrays[a]
           y == Written(x, n, v)
           k == n + 1
<1>1. /\ ArrayOK(x) /\ Content[a] = Elements(x) /\ Content[a] # None /\ Content[a] \in Seq(Int)
      /\ Len(Content[a]) = x.length /\ x.length <= x.capacity /\ Set(a, y) /\ FileUnchanged
  BY ContentIs DEF Write, HasBuffer
<1> HIDE DEF x
<1>2. v \in Int /\ n \in Nat /\ MaxLength \in Nat /\ x.length \in Nat /\ x.length <= MaxLength
  BY <1>1, SizeFacts DEF ArrayOK, ArrayType
<1>3. /\ ArrayOK(y)
      /\ Elements(y) = IF k \in 1 .. x.length THEN [Elements(x) EXCEPT ![k] = v] ELSE Elements(x)
  BY <1>1, <1>2, WrittenLemma
<1>4. y # None
  BY <1>3, NoneFacts DEF ArrayOK
<1> HIDE DEF y
<1>5. Inv' /\ UNCHANGED Promise!fileVars /\ Content' = [Content EXCEPT ![a] = Elements(y)]
  BY <1>1, <1>3, <1>4, ArrayStep
<1>6. k \in 1 .. x.length => k \in 1 .. MaxLength
  BY <1>2
<1> HIDE DEF k
<1>7. CASE k \in 1 .. x.length
  <2>1. Content' = [Content EXCEPT ![a] = [Content[a] EXCEPT ![k] = v]]
    BY <1>1, <1>3, <1>5, <1>7
  <2>2. k \in DOMAIN Content[a]
    BY <1>1, <1>7
  <2>3. Promise!Put(a, k, v)
    BY <2>1, <2>2, <1>1, <1>5 DEF Promise!Put
  <2> QED BY <2>3, <1>5, <1>6, <1>7 DEF k
<1>8. CASE k \notin 1 .. x.length
  <2>1. Content' = [Content EXCEPT ![a] = Content[a]]
    BY <1>1, <1>3, <1>5, <1>8
  <2>2. Content' = Content
    BY <2>1 DEF Content
  <2> QED BY <2>2, <1>5 DEF Stutters
<1> QED BY <1>7, <1>8

LEMMA AddStep ==
  ASSUME Inv, UNCHANGED <<format, width>>, writing = None, NEW a \in Arrays, NEW v \in Values, Add(a, v)
  PROVE  Inv' /\ Promise!Push(a, v)
<1> DEFINE x == arrays[a]
           y == Appended(x, v)
<1>1. /\ ArrayOK(x) /\ Content[a] = Elements(x) /\ Content[a] # None
      /\ x.length <= x.capacity /\ Set(a, y) /\ FileUnchanged
  BY ContentIs DEF Add, HasBuffer
<1> HIDE DEF x
<1>2. v \in Int
  BY SizeFacts
<1>3. ArrayOK(y) /\ (Elements(y) = Append(Elements(x), v) \/ Elements(y) = Elements(x))
  BY <1>1, <1>2, AppendedLemma
<1>4. y # None
  BY <1>3, NoneFacts DEF ArrayOK
<1> HIDE DEF y
<1>5. Inv' /\ UNCHANGED Promise!fileVars /\ Content' = [Content EXCEPT ![a] = Elements(y)]
  BY <1>1, <1>3, <1>4, ArrayStep
<1>6. CASE Elements(y) = Append(Elements(x), v)
  <2>1. Promise!Becomes(a, Append(Content[a], v))
    BY <1>1, <1>5, <1>6, ContentSet
  <2> QED BY <2>1, <1>1, <1>5 DEF Promise!Push
<1>7. CASE Elements(y) = Elements(x)
  <2>1. Content' = [Content EXCEPT ![a] = Content[a]]
    BY <1>1, <1>5, <1>7
  <2>2. Content' = Content
    BY <2>1 DEF Content
  <2> QED BY <2>2, <1>1, <1>5 DEF Promise!Push
<1> QED BY <1>3, <1>6, <1>7

LEMMA CopyStep ==
  ASSUME Inv, UNCHANGED <<format, width>>, writing = None, NEW src \in Arrays, NEW dst \in Arrays,
         NEW v \in Values, Copy(src, dst, v)
  PROVE  Inv' /\ Promise!Copy(src, dst)
<1> DEFINE x == arrays[src]
           y == CopyOf(x, v)
<1>1. /\ ArrayOK(x) /\ Content[src] = Elements(x) /\ Content[src] # None
      /\ x.length <= x.capacity /\ Set(dst, y) /\ FileUnchanged
  BY ContentIs DEF Copy, HasBuffer
<1> HIDE DEF x
<1>2. v \in Int
  BY SizeFacts
<1>3. ArrayOK(y) /\ Elements(y) = Elements(x)
  BY <1>1, <1>2, CopyOfLemma
<1>4. y # None
  BY <1>3, NoneFacts DEF ArrayOK
<1> HIDE DEF y
<1>5. Inv' /\ UNCHANGED Promise!fileVars /\ Content' = [Content EXCEPT ![dst] = Content[src]]
  BY <1>1, <1>3, <1>4, ArrayStep
<1>6. Promise!Becomes(dst, Content[src])
  BY <1>5, ContentSet
<1> QED BY <1>1, <1>5, <1>6 DEF Promise!Copy

LEMMA FreeStep ==
  ASSUME Inv, UNCHANGED <<format, width>>, writing = None, NEW a \in Arrays, Free(a)
  PROVE  Inv' /\ Promise!Drop(a)
<1>1. Set(a, None) /\ FileUnchanged
  BY DEF Free
<1>2. Inv' /\ UNCHANGED Promise!fileVars /\ Content' = [Content EXCEPT ![a] = None]
  BY <1>1, ArrayStep
<1>3. Promise!Becomes(a, None)
  BY <1>2, ContentSet
<1> QED BY <1>2, <1>3 DEF Promise!Drop

-----------------------------------------------------------------------------
(* The end of a program. *)
LEMMA EndedStep ==
  ASSUME Inv, UNCHANGED <<format, width>>, Ended
  PROVE  /\ ArraysOK' /\ FormatOK' /\ WritingOK' /\ UnsavedOK'
         /\ Content' = [a \in Arrays |-> None] /\ writing' = None /\ Pending' = {} /\ open' = 0
<1>1. arrays' = [a \in Arrays |-> None] /\ writing' = None /\ unsaved' = {} /\ open' = 0
  BY DEF Ended
<1>2. \A a \in Arrays : ~Exists(a)'
  BY <1>1 DEF Exists
<1>3. ArraysOK' /\ FormatOK'
  BY <1>1, <1>2 DEF ArraysOK, Inv, FormatOK
<1>4. IsFiniteSet({}) /\ Cardinality({}) = 0
  BY FS_EmptySet
<1>5. UnsavedOK'
  BY <1>1, <1>4, SizeFacts DEF UnsavedOK
<1>6. Content' = [a \in Arrays |-> None]
  BY <1>2 DEF Content
<1>7. WritingOK'
  BY <1>1 DEF WritingOK
<1> QED BY <1>1, <1>3, <1>5, <1>6, <1>7 DEF Pending

LEMMA KilledStep ==
  ASSUME Inv, UNCHANGED <<format, width>>, Killed
  PROVE  Inv' /\ Promise!Killed
<1>1. Ended /\ UNCHANGED disk
  BY DEF Killed
<1>2. /\ ArraysOK' /\ FormatOK' /\ WritingOK' /\ UnsavedOK'
      /\ Content' = [a \in Arrays |-> None] /\ writing' = None /\ Pending' = {} /\ open' = 0
  BY <1>1, EndedStep
<1>3. DiskOK' /\ File' = File
  BY <1>1, SameDisk
<1> QED BY <1>2, <1>3 DEF Inv, Promise!Killed, Promise!Quit

(* One of the text stores decides what the file holds. *)
LEMMA ExitStep ==
  ASSUME Inv, UNCHANGED <<format, width>>, writing = None, Exit
  PROVE  Inv' /\ Promise!Exit
<1>1. /\ ArraysOK' /\ FormatOK' /\ WritingOK' /\ UnsavedOK'
      /\ Content' = [a \in Arrays |-> None] /\ writing' = None /\ Pending' = {} /\ open' = 0
  BY EndedStep DEF Exit
<1>2. CASE unsaved = {}
  <2>1. UNCHANGED disk
    BY <1>2 DEF Exit
  <2>2. DiskOK' /\ File' = File
    BY <2>1, SameDisk
  <2>3. Pending = {}
    BY <1>2 DEF Pending
  <2> QED BY <1>1, <2>2, <2>3 DEF Inv, Promise!Exit, Promise!Quit
<1>3. CASE unsaved # {}
  <2>1. disk' \in unsaved
    BY <1>3 DEF Exit
  <2>2. PICK s \in Storable : disk' = WordsOf(s)
    BY <2>1 DEF Inv, UnsavedOK
  <2>3. format' = "text"
    BY <1>3 DEF Inv, UnsavedOK, FormatOK
  <2>4. DiskOK'
    BY <2>2, <2>3 DEF DiskOK
  <2>5. File' = Promise!Whole(s)
    BY <2>2, <2>3, FileMeansNext DEF FileMeaning, Promise!Whole
  <2>6. s \in Pending
    <3>1. Tail(disk') = s
      BY <2>2, WordsOfAre
    <3> QED BY <2>1, <3>1 DEF Pending
  <2>7. Pending # {}
    BY <2>6
  <2> QED BY <1>1, <2>4, <2>5, <2>6, <2>7 DEF Inv, Promise!Exit, Promise!Quit
<1> QED BY <1>2, <1>3

-----------------------------------------------------------------------------
(* The stores. *)
LEMMA StoredIs ==
  ASSUME NEW x, ArrayOK(x), ToSet(Elements(x)) \subseteq Values
  PROVE  /\ Elements(x) \in Storable /\ Words(x) = WordsOf(Elements(x))
         /\ UnitsOf(x) = FileOf(Elements(x))
<1> DEFINE s == Elements(x)
<1>1. s \in Seq(Int) /\ Len(s) = x.length /\ x.length \in Nat /\ x.length <= MaxLength
  BY ElementsAre DEF ArrayOK
<1>2. Words(x) = WordsOf(s) /\ UnitsOf(x) = FileOf(s)
  BY <1>1 DEF Words, WordsOf, UnitsOf, FileOf
<1>3. ToSet(s) \subseteq Values
  OBVIOUS
<1> HIDE DEF s
<1>4. \A i \in 1 .. Len(s) : s[i] \in Values
  BY <1>1, <1>3 DEF ToSet
<1>5. s \in Seq(Values)
  BY <1>1, <1>4
<1>6. s \in Storable
  BY <1>1, <1>5, StorableIsSeq
<1> QED BY <1>2, <1>6 DEF s

LEMMA StoreTextStep ==
  ASSUME Inv, UNCHANGED <<format, width>>, writing = None, NEW a \in Arrays, StoreText(a)
  PROVE  Inv' /\ (Promise!Killed \/ Promise!Store(a))
<1> DEFINE s == Elements(arrays[a])
<1>1. /\ ArrayOK(arrays[a]) /\ Content[a] = s /\ Content[a] # None /\ format = "text"
      /\ ToSet(s) \subseteq Values
  BY ContentIs DEF StoreText, HasBuffer
<1>2. s \in Storable /\ Words(arrays[a]) = WordsOf(s)
  BY <1>1, StoredIs
<1>3. CASE open = MaxOpen
  BY <1>3, KilledStep DEF StoreText
<1>4. CASE open # MaxOpen
  <2>1. /\ disk' = <<>> /\ unsaved' = unsaved \cup {WordsOf(s)} /\ open' = open + 1
        /\ arrays' = arrays /\ writing' = writing
    BY <1>2, <1>4 DEF StoreText
  <2> HIDE DEF s
  <2>2. open \in Nat /\ open < MaxOpen /\ open' \in 0 .. MaxOpen /\ IsFiniteSet(unsaved)
        /\ Cardinality(unsaved) <= open
    BY <1>4, <2>1, SizeFacts DEF Inv, UnsavedOK
  <2>3. IsFiniteSet(unsaved') /\ Cardinality(unsaved') <= open'
    <3>1. /\ IsFiniteSet(unsaved \cup {WordsOf(s)}) /\ Cardinality(unsaved) \in Nat
          /\ \/ Cardinality(unsaved \cup {WordsOf(s)}) = Cardinality(unsaved)
             \/ Cardinality(unsaved \cup {WordsOf(s)}) = Cardinality(unsaved) + 1
      BY <2>2, FS_AddElement, FS_CardinalityType
    <3> DEFINE U == unsaved \cup {WordsOf(s)}
    <3>2. unsaved' = U
      BY <2>1
    <3> HIDE DEF U
    <3>3. IsFiniteSet(U) /\ Cardinality(U) <= open + 1
      BY <3>1, <2>2 DEF U
    <3> QED BY <3>2, <3>3, <2>1
  <2>4. \A words \in unsaved' : \E t \in Storable : words = WordsOf(t)
    BY <1>2, <2>1 DEF Inv, UnsavedOK
  <2>5. UnsavedOK'
    BY <1>1, <2>2, <2>3, <2>4 DEF UnsavedOK
  <2>6. DiskOK' /\ File' = Promise!Blank
    BY <1>1, <2>1, FileMeansNext DEF DiskOK, FileMeaning, Promise!Blank
  <2>7. ArraysOK' /\ FormatOK' /\ Content' = Content
    BY <2>1 DEF Inv, ArraysOK, FormatOK, ArrayOK, Exists, Content
  <2>8. Pending' = Pending \cup {Content[a]}
    <3>1. Tail(WordsOf(s)) = s
      BY <1>2, WordsOfAre
    <3> QED BY <3>1, <1>1, <2>1 DEF Pending
  <2>9. WritingOK'
    BY <2>1 DEF WritingOK
  <2> QED BY <1>1, <2>1, <2>2, <2>5, <2>6, <2>7, <2>8, <2>9 DEF Inv, Promise!Store
<1> QED BY <1>3, <1>4

LEMMA StoreBinaryStep ==
  ASSUME Inv, UNCHANGED <<format, width>>, writing = None, NEW a \in Arrays, StoreBinary(a)
  PROVE  Inv' /\ (Promise!Killed \/ Promise!Store(a))
<1> DEFINE s == Elements(arrays[a])
<1>1. /\ ArrayOK(arrays[a]) /\ Content[a] = s /\ Content[a] # None /\ format = "binary"
      /\ ToSet(s) \subseteq Values
  BY ContentIs DEF StoreBinary, HasBuffer
<1>2. s \in Storable /\ UnitsOf(arrays[a]) = FileOf(s)
  BY <1>1, StoredIs
<1>3. CASE open = MaxOpen
  BY <1>3, KilledStep DEF StoreBinary
<1>4. CASE open # MaxOpen
  <2>1. disk' = <<>> /\ writing' = a /\ unsaved' = unsaved /\ open' = open /\ arrays' = arrays
    BY <1>4 DEF StoreBinary
  <2> HIDE DEF s
  <2>2. open \in Nat /\ open < MaxOpen /\ open' \in 0 .. MaxOpen /\ open' >= open
    BY <1>4, <2>1, SizeFacts DEF Inv, UnsavedOK
  <2>3. UnsavedOK' /\ Pending' = Pending
    BY <2>1, <2>2, SameUnsaved
  <2>4. 0 \in 0 .. Len(FileOf(s)) /\ disk' = SubSeq(FileOf(s), 1, 0)
    <3>1. width \in Widths
      BY DEF Inv, FormatOK
    <3>2. PrefixOf(s, 0) \in Seq(UnitType) /\ Len(PrefixOf(s, 0)) = 0 /\ 0 \in 0 .. Len(FileOf(s))
      <4>1. FileOf(s) \in Seq(UnitType)
        BY <1>2, <3>1, FileOfAre
      <4>2. 0 \in 0 .. Len(FileOf(s))
        BY <4>1
      <4> QED BY <1>2, <3>1, <4>2, PrefixAre
    <3>3. PrefixOf(s, 0) = <<>>
      BY <3>2
    <3> QED BY <2>1, <3>2, <3>3 DEF PrefixOf
  <2>5. FileOf(s)' = FileOf(s) /\ s' = s /\ format' = "binary"
    BY <1>1, <2>1, SamePrefixes DEF s, Elements, Read
  <2>6. DiskOK'
    BY <1>2, <2>4, <2>5 DEF DiskOK
  <2>7. Storing(a)'
    <3>1. Elements(arrays[a])' = Elements(arrays[a])
      BY <2>5 DEF s
    <3>2. HasBuffer(a)'
      BY <2>1 DEF StoreBinary, HasBuffer, Exists
    <3>3. ToSet(Elements(arrays[a]))' = ToSet(Elements(arrays[a]))
      BY <3>1 DEF ToSet
    <3>4. /\ Elements(arrays[a]) = s /\ FileOf(s)' = FileOf(s)
          /\ \E k \in 0 .. Len(FileOf(s)) : disk' = SubSeq(FileOf(s), 1, k)
      BY <2>4, <2>5 DEF s
    <3> QED BY <1>1, <2>5, <3>1, <3>2, <3>3, <3>4 DEF Storing, FileOf, ElementUnits
  <2>8. File' = Promise!Blank
    BY <2>1, FileMeansNext DEF FileMeaning, Promise!Blank
  <2>9. ArraysOK' /\ FormatOK' /\ Content' = Content
    BY <2>1 DEF Inv, ArraysOK, FormatOK, ArrayOK, Exists, Content
  <2>10. WritingOK'
    BY <2>1, <2>7 DEF WritingOK
  <2> QED BY <1>1, <2>1, <2>2, <2>3, <2>6, <2>8, <2>9, <2>10 DEF Inv, Promise!Store
<1> QED BY <1>3, <1>4

(* More of what is stored is in the file: more whole elements of the array. *)
LEMMA WholeGrows ==
  ASSUME width \in Widths, NEW s \in Storable, NEW k \in IntSize .. Len(FileOf(s)),
         NEW n \in IntSize .. Len(FileOf(s)), k <= n
  PROVE  Whole(k) <= Whole(n)
<1> DEFINE w == width
           q == Whole(k)
           r == Whole(n)
<1>1. /\ q \in Nat /\ r \in Nat /\ w \in Nat /\ w >= 1 /\ IntSize \in Nat /\ k \in Int /\ n \in Int
  BY WholeAre, SizeFacts, StorableIsInt, FileOfAre
<1>2. (q >= 1 => IntSize + q * w <= k) /\ n < IntSize + (r + 1) * w
  <2>1. q >= 1 => q \in 1 .. q
    BY <1>1
  <2> QED BY <2>1, WholeAre
<1> HIDE DEF q, r, w
<1>3. ASSUME q > r PROVE FALSE
  <2>1. q >= r + 1 /\ q >= 1
    BY <1>1, <1>3
  <2>2. q * w >= (r + 1) * w /\ q * w \in Nat /\ (r + 1) * w \in Nat
    BY <1>1, <2>1
  <2> QED BY <1>1, <1>2, <2>1, <2>2
<1> QED BY <1>1, <1>3 DEF q, r

(* The array that is stored, and the file. *)
LEMMA StoringIs ==
  ASSUME Inv, writing # None, NEW s, s = Elements(arrays[writing])
  PROVE  /\ writing \in Arrays /\ Content[writing] = s /\ UnitsOf(arrays[writing]) = FileOf(s)
         /\ s \in Storable /\ width \in Widths /\ format = "binary"
         /\ \E k \in 0 .. Len(FileOf(s)) : disk = PrefixOf(s, k)
<1>1. Storing(writing) /\ width \in Widths
  BY DEF Inv, WritingOK, FormatOK
<1>2. /\ writing \in Arrays /\ Exists(writing) /\ format = "binary" /\ ToSet(s) \subseteq Values
      /\ \E k \in 0 .. Len(FileOf(s)) : disk = PrefixOf(s, k)
  BY <1>1 DEF Storing, HasBuffer, PrefixOf
<1>3. ArrayOK(arrays[writing]) /\ Content[writing] = s
  BY <1>2, ContentIs
<1> QED BY <1>1, <1>2, <1>3, StoredIs

(* What both steps leave alone. *)
LEMMA StoreGoesOn ==
  ASSUME Inv, UNCHANGED <<format, width, arrays, unsaved, open>>
  PROVE  ArraysOK' /\ FormatOK' /\ UnsavedOK' /\ Content' = Content /\ Pending' = Pending
<1>1. ArraysOK' /\ FormatOK' /\ Content' = Content
  BY DEF Inv, ArraysOK, FormatOK, ArrayOK, Exists, Content
<1>2. open' \in 0 .. MaxOpen /\ open' >= open
  BY SizeFacts DEF Inv, UnsavedOK
<1> QED BY <1>1, <1>2, SameUnsaved

(* A file of k units, in the next state. *)
LEMMA FileOfUnits ==
  ASSUME UNCHANGED <<format, width>>, NEW s \in Storable, width \in Widths, format = "binary",
         NEW k \in 0 .. Len(FileOf(s)), disk' = PrefixOf(s, k)
  PROVE  /\ DiskOK'
         /\ File' = IF k < IntSize THEN Promise!Blank
                     ELSE [length |-> Len(s), elements |-> HeldOf(s, k)]
<1>1. FileOf(s)' = FileOf(s) /\ PrefixOf(s, k)' = PrefixOf(s, k) /\ HeldOf(s, k)' = HeldOf(s, k)
  BY SamePrefixes DEF HeldOf, Whole
<1>2. DiskOK'
  BY <1>1 DEF DiskOK, PrefixOf
<1>3. \A t \in Storable : \A n \in 0 .. Len(FileOf(t))' :
        format' = "binary" /\ width' \in Widths /\ disk' = PrefixOf(t, n)' =>
          File' = IF n < IntSize THEN Promise!Blank
                  ELSE [length |-> Len(t), elements |-> HeldOf(t, n)']
  BY FileMeansNext DEF FileMeaning, Promise!Blank
<1>4. k \in 0 .. Len(FileOf(s))'
  BY <1>1
<1>5. File' = IF k < IntSize THEN Promise!Blank ELSE [length |-> Len(s), elements |-> HeldOf(s, k)']
  BY <1>1, <1>3, <1>4
<1> QED BY <1>1, <1>2, <1>5

LEMMA FlushStep ==
  ASSUME Inv, UNCHANGED <<format, width>>, writing # None, Flush
  PROVE  Inv' /\ (Stutters \/ Promise!Progress)
<1> DEFINE a == writing
           s == Elements(arrays[a])
<1>1. /\ a \in Arrays /\ Content[a] = s /\ UnitsOf(arrays[a]) = FileOf(s)
      /\ s \in Storable /\ width \in Widths /\ format = "binary"
      /\ \E k \in 0 .. Len(FileOf(s)) : disk = PrefixOf(s, k)
  BY StoringIs
<1>2. UNCHANGED <<arrays, writing, unsaved, open>>
  BY DEF Flush
<1> HIDE DEF s
<1>3. PICK k \in 0 .. Len(FileOf(s)) : disk = PrefixOf(s, k)
  BY <1>1
<1>4. PICK n \in Len(disk) + 1 .. Len(FileOf(s)) : disk' = PrefixOf(s, n)
  BY <1>1 DEF Flush, PrefixOf
<1>5. Len(disk) = k /\ k \in Nat /\ n \in Nat /\ k < n /\ n \in 0 .. Len(FileOf(s)) /\ IntSize \in Nat
  <2>1. Len(disk) = k /\ Len(FileOf(s)) \in Nat
    BY <1>1, <1>3, PrefixAre, FileOfAre
  <2>2. k \in Nat /\ n \in k + 1 .. Len(FileOf(s))
    BY <2>1, <1>3, <1>4
  <2> QED BY <2>1, <2>2, SizeFacts
<1>6. /\ DiskOK'
      /\ File' = IF n < IntSize THEN Promise!Blank ELSE [length |-> Len(s), elements |-> HeldOf(s, n)]
  BY <1>1, <1>4, <1>5, FileOfUnits
<1>7. File = IF k < IntSize THEN Promise!Blank ELSE [length |-> Len(s), elements |-> HeldOf(s, k)]
  BY <1>1, <1>3, FileMeans DEF FileMeaning
<1>8. ArraysOK' /\ FormatOK' /\ UnsavedOK' /\ Content' = Content /\ Pending' = Pending
  BY <1>2, StoreGoesOn
<1>9. WritingOK'
  <2>1. s' = s /\ FileOf(s)' = FileOf(s)
    BY <1>2, SamePrefixes DEF s, Elements, Read
  <2>2. HasBuffer(a)' /\ ToSet(Elements(arrays[a]))' \subseteq Values
    <3>1. HasBuffer(a) /\ ToSet(s) \subseteq Values
      BY DEF Inv, WritingOK, Storing, s
    <3>2. ToSet(s)' = ToSet(s)
      BY <2>1 DEF ToSet
    <3> QED BY <3>1, <3>2, <1>2 DEF HasBuffer, Exists, s
  <2>3. \E m \in 0 .. Len(FileOf(s)) : disk' = SubSeq(FileOf(s), 1, m)
    BY <1>4, <1>5 DEF PrefixOf
  <2>4. FileOf(Elements(arrays[a]))' = FileOf(s)
    BY <2>1 DEF s, FileOf, ElementUnits
  <2>5. Storing(a)'
    BY <1>1, <1>2, <2>2, <2>3, <2>4 DEF Storing
  <2> QED BY <2>5 DEF WritingOK
<1>10. Inv'
  BY <1>6, <1>8, <1>9 DEF Inv
<1>11. CASE n < IntSize
  <2>1. File' = File
    BY <1>5, <1>6, <1>7, <1>11
  <2> QED BY <1>2, <1>8, <1>10, <2>1 DEF Stutters, Promise!fileVars
<1>12. CASE ~(n < IntSize)
  <2> DEFINE q == Whole(n)
  <2>1. n \in IntSize .. Len(FileOf(s)) /\ Len(s) \in Nat
    BY <1>1, <1>5, <1>12, StorableIsInt
  <2>2. q \in 0 .. Len(s) /\ HeldOf(s, n) = SubSeq(s, 1, q)
    BY <1>1, <2>1, WholeAre DEF HeldOf
  <2>3. Len(File.elements) \in Nat /\ Len(File.elements) <= q
    <3>1. CASE k < IntSize
      <4>1. File.elements = <<>>
        BY <1>7, <3>1 DEF Promise!Blank
      <4> QED BY <2>2, <4>1
    <3>2. CASE ~(k < IntSize)
      <4>1. k \in IntSize .. Len(FileOf(s)) /\ k <= n
        BY <1>5, <3>2
      <4>2. File.elements = HeldOf(s, k)
        BY <1>7, <3>2
      <4>3. Len(HeldOf(s, k)) = Whole(k) /\ Whole(k) \in Nat /\ Whole(k) <= Whole(n)
        BY <1>1, <2>1, <4>1, HeldOfAre, WholeGrows
      <4> QED BY <4>2, <4>3
    <3> QED BY <3>1, <3>2
  <2> HIDE DEF q
  <2>4. q \in Len(File.elements) .. Len(s)
    BY <2>1, <2>2, <2>3
  <2>5. File' = [length |-> Len(Content[a]), elements |-> SubSeq(Content[a], 1, q)]
    BY <1>1, <1>6, <1>12, <2>2
  <2>6. q \in Len(File.elements) .. Len(Content[a])
    BY <1>1, <2>4
  <2>7. Promise!Progress
    BY <2>5, <2>6, <1>2, <1>8 DEF Promise!Progress
  <2> QED BY <1>10, <2>7
<1> QED BY <1>11, <1>12

LEMMA CloseStep ==
  ASSUME Inv, UNCHANGED <<format, width>>, writing # None, CloseStore
  PROVE  Inv' /\ Promise!Complete
<1> DEFINE a == writing
           s == Elements(arrays[a])
           n == Len(FileOf(s))
<1>1. /\ a \in Arrays /\ Content[a] = s /\ UnitsOf(arrays[a]) = FileOf(s)
      /\ s \in Storable /\ width \in Widths /\ format = "binary"
  BY StoringIs
<1>2. UNCHANGED <<arrays, unsaved, open>> /\ writing' = None /\ disk' = FileOf(s)
  BY <1>1 DEF CloseStore
<1> HIDE DEF s
<1>3. FileOf(s) \in Seq(UnitType) /\ n \in 0 .. n /\ n = IntSize + Len(s) * width
  BY <1>1, FileOfAre
<1>4. disk' = PrefixOf(s, n)
  <2>1. SubSeq(FileOf(s), 1, Len(FileOf(s))) = FileOf(s)
    BY <1>3
  <2> QED BY <2>1, <1>2 DEF PrefixOf
<1>5. /\ DiskOK'
      /\ File' = IF n < IntSize THEN Promise!Blank ELSE [length |-> Len(s), elements |-> HeldOf(s, n)]
  BY <1>1, <1>3, <1>4, FileOfUnits
<1>6. /\ Len(s) \in Nat /\ width \in Nat /\ width >= 1 /\ IntSize \in Nat /\ s \in Seq(Int)
      /\ Len(s) * width \in Nat
  <2>1. Len(s) \in Nat /\ width \in Nat /\ width >= 1 /\ IntSize \in Nat /\ s \in Seq(Int)
    BY <1>1, SizeFacts, StorableIsInt
  <2> QED BY <2>1
<1>7. ~(n < IntSize) /\ n - IntSize = Len(s) * width + 0
  <2> DEFINE p == Len(s) * width
  <2>1. n = IntSize + p /\ p \in Nat /\ IntSize \in Nat
    BY <1>3, <1>6
  <2> HIDE DEF n, p
  <2>2. ~(n < IntSize) /\ n - IntSize = p + 0
    BY <2>1
  <2> QED BY <2>2 DEF p
<1>8. Whole(n) = Len(s)
  <2>1. (Len(s) * width + 0) \div width = Len(s)
    BY <1>6, DivMod
  <2> QED BY <2>1, <1>7 DEF Whole
<1>9. HeldOf(s, n) = s
  BY <1>6, <1>8 DEF HeldOf
<1>10. File' = Promise!Whole(Content[a])
  BY <1>1, <1>5, <1>7, <1>9 DEF Promise!Whole
<1>11. ArraysOK' /\ FormatOK' /\ UnsavedOK' /\ Content' = Content /\ Pending' = Pending
  BY <1>2, StoreGoesOn
<1>12. WritingOK'
  BY <1>2 DEF WritingOK
<1> QED BY <1>2, <1>5, <1>10, <1>11, <1>12 DEF Inv, Promise!Complete

-----------------------------------------------------------------------------
(* The loads. *)
LEMMA ReturnsStep ==
  ASSUME Inv, UNCHANGED <<format, width>>, writing = None, NEW a \in Arrays, NEW x, Returns(a, x),
         CanOpen => x = None \/ ArrayOK(x)
  PROVE  /\ Inv' /\ UNCHANGED <<File, writing, Pending>> /\ open \in 0 .. MaxOpen
         /\ Content' = [Content EXCEPT ![a] = IF CanOpen /\ x # None THEN Elements(x) ELSE None]
         /\ open' = IF CanOpen /\ x = None THEN open + 1 ELSE open
<1> DEFINE y == IF CanOpen THEN x ELSE None
<1>1. /\ Set(a, y) /\ disk' = disk /\ unsaved' = unsaved /\ writing' = writing
      /\ open' = IF CanOpen /\ x = None THEN open + 1 ELSE open
  BY DEF Returns
<1>2. y = None \/ ArrayOK(y)
  OBVIOUS
<1>3. (IF y = None THEN None ELSE Elements(y)) = IF CanOpen /\ x # None THEN Elements(x) ELSE None
  OBVIOUS
<1> HIDE DEF y
<1>4. /\ ArraysOK' /\ FormatOK'
      /\ Content' = [Content EXCEPT ![a] = IF y = None THEN None ELSE Elements(y)]
  BY <1>1, <1>2, SetStep
<1>5. DiskOK' /\ File' = File
  BY <1>1, SameDisk
<1>6. open \in 0 .. MaxOpen /\ MaxOpen \in Nat
  BY SizeFacts DEF Inv, UnsavedOK
<1>7. open' \in 0 .. MaxOpen /\ open' >= open
  BY <1>1, <1>6 DEF CanOpen
<1>8. UnsavedOK' /\ Pending' = Pending
  BY <1>1, <1>7, SameUnsaved
<1>9. WritingOK'
  BY <1>1 DEF WritingOK
<1> QED BY <1>1, <1>3, <1>4, <1>5, <1>6, <1>8, <1>9 DEF Inv

(* A load of a file that does not open. *)
LEMMA NotOpened ==
  ASSUME Inv, UNCHANGED <<format, width>>, writing = None, NEW a \in Arrays, NEW x, Returns(a, x), ~CanOpen,
         NEW from
  PROVE  Inv' /\ Promise!Refused(a, from)
<1>1. /\ Inv' /\ UNCHANGED <<File, writing, Pending>> /\ open \in 0 .. MaxOpen /\ open' = open
      /\ Content' = [Content EXCEPT ![a] = None]
  BY ReturnsStep
<1>2. File = None \/ open = MaxOpen
  BY <1>1, SizeFacts, FileMeans DEF CanOpen, FileMeaning
<1>3. Promise!Becomes(a, None)
  BY <1>1, ContentSet
<1> QED BY <1>1, <1>2, <1>3 DEF Promise!Refused

(* A load of a file that opens, but does not give an array. *)
LEMMA NotLoaded ==
  ASSUME Inv, UNCHANGED <<format, width>>, writing = None, NEW a \in Arrays, Returns(a, None), CanOpen,
         File # None, NEW from, ~Promise!Loadable(from)
  PROVE  Inv' /\ Promise!Refused(a, from)
<1>1. /\ Inv' /\ UNCHANGED <<File, writing, Pending>> /\ open' = open + 1
      /\ Content' = [Content EXCEPT ![a] = None]
  BY ReturnsStep
<1>2. open < MaxOpen
  BY DEF CanOpen
<1>3. Promise!Becomes(a, None)
  BY <1>1, ContentSet
<1> QED BY <1>1, <1>2, <1>3 DEF Promise!Refused

(* A load that gives an array. *)
LEMMA Loaded ==
  ASSUME Inv, UNCHANGED <<format, width>>, writing = None, NEW a \in Arrays, NEW x, Returns(a, x), CanOpen,
         ArrayOK(x)
  PROVE  /\ Inv' /\ UNCHANGED Promise!fileVars /\ open < MaxOpen
         /\ Content'[a] = Elements(x) /\ Content'[a] # None
         /\ Promise!Becomes(a, Content'[a])
<1>1. x # None /\ Elements(x) \in Seq(Int)
  BY NoneFacts, ElementsAre DEF ArrayOK
<1>2. /\ Inv' /\ UNCHANGED <<File, writing, Pending>> /\ open' = open
      /\ Content' = [Content EXCEPT ![a] = Elements(x)]
  BY <1>1, ReturnsStep
<1>3. Elements(x) # None
  BY <1>1, NoneFacts
<1>4. open < MaxOpen
  BY DEF CanOpen
<1>5. Content'[a] = Elements(x) /\ Promise!Becomes(a, Content'[a])
  BY <1>2, ContentSet
<1> QED BY <1>2, <1>3, <1>4, <1>5 DEF Promise!fileVars

LEMMA LoadTextStep ==
  ASSUME Inv, UNCHANGED <<format, width>>, writing = None, NEW a \in Arrays, LoadText(a)
  PROVE  Inv' /\ (Promise!Refused(a, 0) \/ Promise!Load(a, 0, 0))
<1>1. format = "text" /\ Returns(a, IF CanOpen THEN TextLoad(disk) ELSE None)
  BY DEF LoadText
<1>2. CASE ~CanOpen
  BY <1>1, <1>2, NotOpened
<1>3. CASE CanOpen /\ disk = <<>>
  <2>1. File = Promise!Blank /\ File # None
    BY <1>3, FileMeans, NoneFacts DEF FileMeaning
  <2>2. Returns(a, None)
    BY <1>1, <1>3, TextLoadEmpty
  <2>3. ~Promise!Loadable(0)
    BY <2>1 DEF Promise!Loadable
  <2> QED BY <1>3, <2>1, <2>2, <2>3, NotLoaded
<1>4. CASE CanOpen /\ disk # <<>>
  <2>1. PICK s \in Storable : disk = WordsOf(s)
    BY <1>1, <1>4 DEF Inv, DiskOK, CanOpen
  <2>2. File = Promise!Whole(s)
    BY <1>1, <2>1, FileMeans DEF FileMeaning
  <2>3. s \in Seq(Int) /\ Len(s) \in Nat /\ File \notin {None, Promise!Blank} /\ File.elements = s
    BY <2>2, StorableIsInt, NoneFacts DEF Promise!Whole
  <2> DEFINE x == TextLoad(WordsOf(s))
  <2>4. /\ Len(s) >= Radix => x = None
        /\ Len(s) < Radix =>
             /\ ArrayOK(x) /\ Len(Elements(x)) = Len(s)
             /\ \A i \in 1 .. Len(s) : s[i] >= 0 => Elements(x)[i] = s[i]
    BY TextLoadLemma
  <2>5. Returns(a, x)
    BY <1>1, <1>4, <2>1
  <2> HIDE DEF x
  <2>6. Promise!Loadable(0) <=> Len(s) < Radix
    <3>1. Promise!Loadable(0) <=> Len(s) \in 0 .. Radix - 1
      BY <1>1, <2>2, <2>3 DEF Promise!Loadable
    <3> QED BY <3>1, <2>3, SizeFacts
  <2>7. CASE Len(s) >= Radix
    <3>1. x = None /\ ~Promise!Loadable(0)
      BY <2>3, <2>4, <2>6, <2>7, SizeFacts
    <3> QED BY <3>1, <1>4, <2>2, <2>3, <2>5, NotLoaded
  <2>8. CASE Len(s) < Radix
    <3>1. /\ Inv' /\ UNCHANGED Promise!fileVars /\ open < MaxOpen
          /\ Content'[a] = Elements(x) /\ Content'[a] # None
          /\ Promise!Becomes(a, Content'[a])
      BY <1>4, <2>4, <2>5, <2>8, Loaded
    <3>2. Promise!Slice(s, 0, 0) = s
      BY <2>3 DEF Promise!Slice
    <3>3. Promise!Renders(Promise!Slice(File.elements, 0, 0), Content'[a])
      <4>1. Promise!Slice(File.elements, 0, 0) = s
        BY <2>3, <3>2
      <4>2. /\ Len(Content'[a]) = Len(s)
            /\ \A i \in 1 .. Len(s) : s[i] >= 0 => Content'[a][i] = s[i]
        BY <2>4, <2>8, <3>1
      <4> QED BY <1>1, <4>1, <4>2 DEF Promise!Renders
    <3>4. Promise!Loadable(0)
      BY <2>6, <2>8
    <3> QED BY <3>1, <3>3, <3>4 DEF Promise!Load
  <2> QED BY <2>3, <2>7, <2>8, SizeFacts
<1> QED BY <1>2, <1>3, <1>4

(* A binary file that opens: the first k units of one that holds s. *)
FileHas(s, k) ==
  /\ disk = PrefixOf(s, k) /\ File # None /\ Len(s) \in 0 .. MaxLength
  /\ k < IntSize => File = Promise!Blank
  /\ ~(k < IntSize) =>
       /\ File # Promise!Blank /\ File.length = Len(s) /\ File.elements = HeldOf(s, k)
       /\ k \in IntSize .. Len(FileOf(s))

LEMMA BinaryFile ==
  ASSUME Inv, format = "binary", CanOpen
  PROVE  \E s \in Storable : \E k \in 0 .. Len(FileOf(s)) : FileHas(s, k)
<1>1. width \in Widths
  BY DEF Inv, FormatOK
<1>2. PICK s \in Storable : \E k \in 0 .. Len(FileOf(s)) : disk = PrefixOf(s, k)
  BY DEF Inv, DiskOK, CanOpen, PrefixOf
<1>3. PICK k \in 0 .. Len(FileOf(s)) : disk = PrefixOf(s, k)
  BY <1>2
<1>4. File = IF k < IntSize THEN Promise!Blank ELSE [length |-> Len(s), elements |-> HeldOf(s, k)]
  BY <1>1, <1>3, FileMeans DEF FileMeaning
<1>5. Len(s) \in 0 .. MaxLength /\ Len(s) \in Nat
  BY StorableIsInt
<1>6. CASE k < IntSize
  BY <1>3, <1>4, <1>5, <1>6, NoneFacts DEF FileHas
<1>7. CASE ~(k < IntSize)
  <2>1. k \in IntSize .. Len(FileOf(s))
    BY <1>1, <1>7, SizeFacts, FileOfAre
  <2>2. HeldOf(s, k) \in Seq(Int)
    BY <1>1, <2>1, HeldOfAre
  <2>3. File = [length |-> Len(s), elements |-> HeldOf(s, k)]
    BY <1>4, <1>7
  <2>4. File \notin {None, Promise!Blank}
    BY <1>5, <2>2, <2>3, NoneFacts
  <2> QED BY <1>3, <1>5, <1>7, <2>1, <2>3, <2>4 DEF FileHas
<1> QED BY <1>6, <1>7

LEMMA LoadWindowStep ==
  ASSUME Inv, UNCHANGED <<format, width>>, writing = None, NEW a \in Arrays, NEW n \in 0 .. MaxLength,
         NEW m \in 0 .. MaxLength, LoadWindow(a, n, m)
  PROVE  Inv' /\ (Promise!Refused(a, n) \/ Promise!Load(a, n, m))
<1>1. format = "binary" /\ Returns(a, IF CanOpen THEN BinaryLoad(disk, n, m) ELSE None)
  BY DEF LoadWindow
<1>2. CASE ~CanOpen
  BY <1>1, <1>2, NotOpened
<1>3. CASE CanOpen
  <2>0. PICK s \in Storable : \E k \in 0 .. Len(FileOf(s)) : FileHas(s, k)
    BY <1>1, <1>3, BinaryFile
  <2>00. PICK k \in 0 .. Len(FileOf(s)) : FileHas(s, k)
    BY <2>0
  <2>1. /\ disk = PrefixOf(s, k) /\ File # None /\ Len(s) \in 0 .. MaxLength
        /\ k < IntSize => File = Promise!Blank
        /\ ~(k < IntSize) =>
             /\ File # Promise!Blank /\ File.length = Len(s) /\ File.elements = HeldOf(s, k)
             /\ k \in IntSize .. Len(FileOf(s))
    BY <2>00 DEF FileHas
  <2>2. width \in Widths /\ n \in Nat /\ m \in Nat /\ Len(s) \in Nat
    BY <2>1, SizeFacts DEF Inv, FormatOK
  <2> DEFINE x == BinaryLoad(PrefixOf(s, k), n, m)
  <2>3. Returns(a, x)
    BY <1>1, <1>3, <2>1
  <2>4. k < IntSize => x = None
    BY <2>2, HeaderMissing
  <2>5. ~(k < IntSize) =>
          /\ Len(s) <= n => x = None
          /\ n < Len(s) =>
               ArrayOK(x) /\ (width = IntSize => Elements(x) = Promise!Slice(HeldOf(s, k), n, m))
    BY <2>1, <2>2, BinaryLoadLemma
  <2> HIDE DEF x
  <2>6. Promise!Loadable(n) <=> ~(k < IntSize) /\ n < Len(s)
    BY <1>1, <2>1 DEF Promise!Loadable
  <2>7. CASE k < IntSize \/ Len(s) <= n
    <3>1. x = None /\ ~Promise!Loadable(n)
      BY <2>2, <2>4, <2>5, <2>6, <2>7
    <3> QED BY <3>1, <1>3, <2>1, <2>3, NotLoaded
  <2>8. CASE ~(k < IntSize) /\ n < Len(s)
    <3>1. /\ Inv' /\ UNCHANGED Promise!fileVars /\ open < MaxOpen
          /\ Content'[a] = Elements(x) /\ Content'[a] # None
          /\ Promise!Becomes(a, Content'[a])
      BY <1>3, <2>3, <2>5, <2>8, Loaded
    <3>2. Promise!Renders(Promise!Slice(File.elements, n, m), Content'[a])
      BY <1>1, <2>1, <2>5, <2>8, <3>1 DEF Promise!Renders
    <3> QED BY <3>1, <3>2, <2>6, <2>8 DEF Promise!Load
  <2> QED BY <2>2, <2>7, <2>8
<1> QED BY <1>2, <1>3

LEMMA PreloadStep ==
  ASSUME Inv, UNCHANGED <<format, width>>, writing = None, NEW a \in Arrays, Preload(a)
  PROVE  Inv' /\ (Promise!Refused(a, MaxLength) \/ Promise!LoadLength(a))
<1>1. format = "binary" /\ Returns(a, IF CanOpen THEN LengthLoad(disk) ELSE None)
  BY DEF Preload
<1>2. CASE ~CanOpen
  BY <1>1, <1>2, NotOpened
<1>3. CASE CanOpen
  <2>0. PICK s \in Storable : \E k \in 0 .. Len(FileOf(s)) : FileHas(s, k)
    BY <1>1, <1>3, BinaryFile
  <2>00. PICK k \in 0 .. Len(FileOf(s)) : FileHas(s, k)
    BY <2>0
  <2>1. /\ disk = PrefixOf(s, k) /\ File # None /\ Len(s) \in 0 .. MaxLength
        /\ k < IntSize => File = Promise!Blank
        /\ ~(k < IntSize) =>
             /\ File # Promise!Blank /\ File.length = Len(s) /\ File.elements = HeldOf(s, k)
             /\ k \in IntSize .. Len(FileOf(s))
    BY <2>00 DEF FileHas
  <2>2. width \in Widths /\ IntSize \in Nat
    BY SizeFacts DEF Inv, FormatOK
  <2>3. CASE k < IntSize
    <3>1. Returns(a, None) /\ ~Promise!Loadable(MaxLength)
      BY <1>1, <1>3, <2>1, <2>2, <2>3, HeaderMissing DEF Promise!Loadable
    <3> QED BY <3>1, <1>3, <2>1, NotLoaded
  <2>4. CASE ~(k < IntSize)
    <3> DEFINE n == Len(s)
               x == [NewArray(0) EXCEPT !.length = n]
    <3>1. Returns(a, x)
      <4>1. HasHeader(disk) /\ Header(disk) = n
        <5>1. IntSize <= k
          BY <2>1, <2>4, SizeFacts
        <5> QED BY <5>1, <2>1, <2>2, PrefixAre
      <4> QED BY <4>1, <1>1, <1>3 DEF LengthLoad
    <3>2. n \in Nat /\ n <= MaxLength /\ 0 \in 0 .. MaxLength
      BY <2>1, SizeFacts
    <3>3. x \in ArrayType /\ x.length = n /\ x.capacity = 0 /\ Len(x.data) = 0 /\ x.data \in Seq(Int)
      <4> HIDE DEF n
      <4>1. NewArray(0) \in ArrayType /\ NewArray(0).capacity = 0 /\ Len(NewArray(0).data) = 0
        BY <3>2, NewArrayLemma DEF ArrayOK, NewArray
      <4> QED BY <4>1, <3>2 DEF ArrayType
    <3> HIDE DEF x, n
    <3>4. ArrayOK(x)
      BY <1>1, <3>2, <3>3, SizeFacts DEF ArrayOK
    <3>5. Elements(x) = [i \in 1 .. n |-> 0]
      <4>1. /\ Elements(x) \in Seq(Int) /\ Len(Elements(x)) = n
            /\ \A i \in 1 .. n : Elements(x)[i] = IF i <= 0 THEN x.data[i] ELSE 0
        BY <3>3, ElementsAre
      <4>2. \A i \in 1 .. n : Elements(x)[i] = 0
        BY <3>2, <4>1
      <4> QED BY <4>1, <4>2, <3>2
    <3>6. /\ Inv' /\ UNCHANGED Promise!fileVars /\ open < MaxOpen
          /\ Content'[a] = Elements(x) /\ Content'[a] # None
          /\ Promise!Becomes(a, Content'[a])
      BY <1>3, <3>1, <3>4, Loaded
    <3>7. File \notin {None, Promise!Blank} /\ Content'[a] = [i \in 1 .. File.length |-> 0]
      BY <2>1, <2>4, <3>5, <3>6 DEF n
    <3> QED BY <1>1, <3>6, <3>7 DEF Promise!LoadLength
  <2> QED BY <2>3, <2>4
<1> QED BY <1>2, <1>3

-----------------------------------------------------------------------------
LEMMA InitRefines == Init => Inv /\ Promise!Init
<1> SUFFICES ASSUME Init PROVE Inv /\ Promise!Init
  OBVIOUS
<1>1. /\ arrays = [a \in Arrays |-> None] /\ format \in {"text", "binary"} /\ width \in Widths
      /\ disk = None /\ writing = None /\ unsaved = {} /\ open = 0
  BY DEF Init
<1>2. \A a \in Arrays : ~Exists(a)
  BY <1>1 DEF Exists
<1>3. ArraysOK /\ FormatOK /\ DiskOK /\ WritingOK
  BY <1>1, <1>2 DEF ArraysOK, FormatOK, DiskOK, WritingOK
<1>4. IsFiniteSet({}) /\ Cardinality({}) = 0
  BY FS_EmptySet
<1>5. UnsavedOK
  BY <1>1, <1>4, SizeFacts DEF UnsavedOK
<1>6. Content = [a \in Arrays |-> None] /\ File = None /\ Pending = {}
  BY <1>1, <1>2 DEF Content, File, Pending
<1> QED BY <1>1, <1>3, <1>5, <1>6 DEF Inv, Promise!Init

(* Every call keeps the invariant, and is one of the abstract ones. *)
LEMMA CallStep ==
  ASSUME Inv, UNCHANGED <<format, width>>, writing = None, Call
  PROVE  Inv' /\ (Stutters \/ Promise!Call \/ Promise!Killed)
<1>1. 0 \in 0 .. MaxLength /\ MaxLength \in 0 .. MaxLength
  BY SizeFacts
<1>2. ASSUME NEW a \in Arrays, Clear(a) PROVE Inv' /\ Promise!Call
  BY <1>2, ClearStep DEF Promise!Call
<1>3. ASSUME NEW a \in Arrays, Free(a) PROVE Inv' /\ Promise!Call
  BY <1>3, FreeStep DEF Promise!Call
<1>4. ASSUME NEW a \in Arrays, StoreText(a) PROVE Inv' /\ (Promise!Call \/ Promise!Killed)
  BY <1>4, StoreTextStep DEF Promise!Call
<1>5. ASSUME NEW a \in Arrays, StoreBinary(a) PROVE Inv' /\ (Promise!Call \/ Promise!Killed)
  BY <1>5, StoreBinaryStep DEF Promise!Call
<1>6. ASSUME NEW a \in Arrays, LoadText(a) PROVE Inv' /\ Promise!Call
  BY <1>1, <1>6, LoadTextStep DEF Promise!Call
<1>7. ASSUME NEW a \in Arrays, Preload(a) PROVE Inv' /\ Promise!Call
  BY <1>1, <1>7, PreloadStep DEF Promise!Call
<1>8. ASSUME NEW a \in Arrays, NEW n \in 0 .. MaxLength, NEW m \in 0 .. MaxLength,
             LoadWindow(a, n, m)
      PROVE  Inv' /\ Promise!Call
  BY <1>8, LoadWindowStep DEF Promise!Call
<1>9. ASSUME NEW a \in Arrays, NEW n \in 0 .. MaxLength, Alloc(a, n) PROVE Inv' /\ Promise!Call
  BY <1>9, AllocStep DEF Promise!Call
<1>10. ASSUME NEW a \in Arrays, NEW n \in 0 .. MaxLength, NEW v \in Values, Write(a, n, v)
       PROVE  Inv' /\ (Stutters \/ Promise!Call)
  <2>1. Inv' /\ (Stutters \/ (n + 1 \in 1 .. MaxLength /\ Promise!Put(a, n + 1, v)))
    BY <1>10, WriteStep
  <2>2. ASSUME NEW k \in 1 .. MaxLength, Promise!Put(a, k, v) PROVE Promise!Call
    BY <2>2 DEF Promise!Call
  <2> QED BY <2>1, <2>2
<1>11. ASSUME NEW a \in Arrays, NEW n \in 0 .. MaxLength, NEW v \in Values, SetBuffer(a, n, v)
       PROVE  Inv' /\ Promise!Call
  BY <1>11, SetBufferStep DEF Promise!Call
<1>12. ASSUME NEW a \in Arrays, NEW v \in Values, Add(a, v) PROVE Inv' /\ Promise!Call
  BY <1>12, AddStep DEF Promise!Call
<1>13. ASSUME NEW a \in Arrays, NEW dst \in Arrays \ {a}, NEW v \in Values, Copy(a, dst, v)
       PROVE  Inv' /\ Promise!Call
  BY <1>13, CopyStep DEF Promise!Call
<1> QED BY <1>2, <1>3, <1>4, <1>5, <1>6, <1>7, <1>8, <1>9, <1>10, <1>11, <1>12, <1>13 DEF Call

(* The invariant is kept, and every step is one of the abstract ones. *)
LEMMA NextRefines ==
  ASSUME Inv, [Next]_vars
  PROVE  Inv' /\ [Promise!Next]_(Promise!vars)
<1>1. CASE UNCHANGED vars
  <2>1. UNCHANGED <<arrays, format, width, disk, writing, unsaved, open>>
    BY <1>1 DEF vars
  <2>2. ArraysOK' /\ FormatOK' /\ UnsavedOK' /\ Content' = Content /\ Pending' = Pending
    BY <2>1, StoreGoesOn
  <2>3. DiskOK' /\ File' = File
    BY <2>1, SameDisk
  <2>4. WritingOK'
    <3> SUFFICES ASSUME writing # None PROVE Storing(writing)'
      BY <2>1 DEF WritingOK
    <3> DEFINE s == Elements(arrays[writing])
    <3>1. Storing(writing)
      BY DEF Inv, WritingOK
    <3>2. s' = s /\ FileOf(s)' = FileOf(s) /\ ToSet(s)' = ToSet(s)
      BY <2>1, SamePrefixes DEF Elements, Read, ToSet, FileOf, ElementUnits
    <3>3. HasBuffer(writing)' <=> HasBuffer(writing)
      BY <2>1 DEF HasBuffer, Exists
    <3> QED BY <2>1, <3>1, <3>2, <3>3 DEF Storing
  <2> QED BY <2>1, <2>2, <2>3, <2>4 DEF Inv, Promise!vars
<1>2. CASE Next
  <2>1. UNCHANGED <<format, width>> /\ UNCHANGED <<format, width = IntSize>>
    BY <1>2 DEF Next
  <2>2. ASSUME Stutters PROVE UNCHANGED Promise!vars
    BY <2>1, <2>2 DEF Stutters, Promise!vars, Promise!fileVars
  <2>3. ASSUME writing = None, Call PROVE Inv' /\ (Stutters \/ Promise!Call \/ Promise!Killed)
    BY <2>1, <2>3, CallStep
  <2>4. ASSUME writing = None, Exit PROVE Inv' /\ Promise!Exit
    BY <2>1, <2>4, ExitStep
  <2>5. ASSUME writing # None, Flush PROVE Inv' /\ (Stutters \/ Promise!Progress)
    BY <2>1, <2>5, FlushStep
  <2>6. ASSUME writing # None, CloseStore PROVE Inv' /\ Promise!Complete
    BY <2>1, <2>6, CloseStep
  <2>7. ASSUME Killed PROVE Inv' /\ Promise!Killed
    BY <2>1, <2>7, KilledStep
  <2>8. Inv' /\ (\/ Stutters \/ Promise!Killed
                 \/ writing = None /\ (Promise!Call \/ Promise!Exit)
                 \/ writing # None /\ (Promise!Progress \/ Promise!Complete))
    BY <1>2, <2>3, <2>4, <2>5, <2>6, <2>7 DEF Next
  <2> QED BY <2>1, <2>2, <2>8 DEF Promise!Next
<1> QED BY <1>1, <1>2

THEOREM Invariant == Spec => []Inv
<1>1. Inv /\ [Next]_vars => Inv'
  BY NextRefines
<1> QED BY <1>1, InitRefines, PTL DEF Spec

(* No operation writes past the memory of an array, a loaded array has     *)
(* room for its elements, and only one that was preloaded holds more       *)
(* elements than its capacity, which is 0 then (array.c:288).              *)
THEOREM ArrayTypeCorrect == Spec => []TypeOK
  BY Invariant, TypeCorrect, PTL

(* compare decides by the elements, if the difference of the first ones    *)
(* that differ fits in an int (integer.c:55, array.c:594), and the string  *)
(* shows them, of arrays of any length (array.c:317).                      *)
THEOREM ArrayObserversCorrect == Spec => []ObserversAgree
  BY Invariant, ObserversCorrect, PTL

(* Every operation, store and load does what Archive says: a text file     *)
(* gives back the numbers that are not negative of at most Radix - 1       *)
(* elements; a binary file gives back, of elements as wide as an int, as   *)
(* many as asked for from any offset on, or those that are there when the  *)
(* program was killed as it stored (array.c:464-472).                      *)
THEOREM ArchiveImplemented == Spec => ImplementsArchive
<1>1. Inv /\ [Next]_vars => [Promise!Next]_(Promise!vars)
  BY NextRefines
<1>2. Init => Promise!Init
  BY InitRefines
<1> QED BY <1>1, <1>2, Invariant, PTL DEF Spec, ImplementsArchive, Promise!Spec
=============================================================================
