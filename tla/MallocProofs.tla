---------------------------- MODULE MallocProofs ----------------------------
(***************************************************************************)
(* Proofs about the arena allocator, for every arena and every client that *)
(* asks for aligned memory only while the tail has room for it.  Each      *)
(* operation replaces a piece of the list: the lemmas say when a list that *)
(* tiles the arena still does with a piece replaced, and what regions it   *)
(* then has.                                                               *)
(***************************************************************************)
EXTENDS Malloc, FiniteSetTheorems, SequenceTheorems, TLAPS

(* A set that holds 0, and with a number below m the next one, holds 0..m: *)
(* the least number missing would follow one that is there.                *)
LEMMA IntervalInduction ==
  ASSUME NEW S, NEW m \in Nat, 0 \in S,
         \A n \in Nat : n < m /\ n \in S => n + 1 \in S
  PROVE  \A n \in 0 .. m : n \in S
<1> SUFFICES ASSUME NEW k \in 0 .. m, k \notin S PROVE FALSE
  OBVIOUS
<1> DEFINE T == {n \in Nat : n <= m /\ n \notin S}
           R == OpToRel(<, Nat)
<1>1. T \subseteq Nat /\ T # {}
  OBVIOUS
<1> HIDE DEF T, R
<1>2. PICK n \in T : \A j \in T : ~ (<<j, n>> \in R)
  BY <1>1, NatLessThanWellFounded, WFMin DEF R
<1>3. n \in Nat /\ n <= m /\ n \notin S /\ n - 1 \in Nat
  BY <1>2 DEF T
<1>4. n - 1 \in T
  <2>1. n - 1 < m /\ (n - 1) + 1 = n
    BY <1>3
  <2> QED BY <1>3, <2>1 DEF T
<1>5. <<n - 1, n>> \in R
  BY <1>3 DEF R, OpToRel
<1> QED BY <1>2, <1>4, <1>5

(* The arithmetic of size_t and of alignments. *)
LEMMA NoWrap ==
  ASSUME NEW m \in Nat, NEW n \in Nat, n < m
  PROVE  n % m = n
  BY SMT

(* A remainder is below the divisor. *)
LEMMA Remainder ==
  ASSUME NEW a \in Nat, NEW b \in Nat \ {0}
  PROVE  a % b \in 0 .. b - 1
  BY SMT

(* Skipping up to a multiple of the alignment reaches one. *)
LEMMA SkipAligns ==
  ASSUME NEW a \in Nat, NEW b \in Nat \ {0}
  PROVE  (a + (b - (a % b))) % b = 0
  BY SMT

(* A set of positions that is not empty has a least one. *)
LEMMA MinIsIn ==
  ASSUME NEW n \in Nat, NEW T, T \subseteq 1 .. n, T # {}
  PROVE  Min(T) \in T /\ \A i \in T : Min(T) <= i
<1> DEFINE Least(U) == \E x \in U : \A y \in U : x <= y
           S == {m \in 0 .. n : \A U \in SUBSET (1 .. n) : (\E x \in U : x <= m) => Least(U)}
<1>1. 0 \in S
  OBVIOUS
<1>2. ASSUME NEW m \in Nat, m < n, m \in S PROVE m + 1 \in S
  <2>1. ASSUME NEW U \in SUBSET (1 .. n), NEW x \in U, x <= m + 1 PROVE Least(U)
    <3>1. CASE \E y \in U : y <= m
      BY <3>1, <1>2
    <3>2. CASE ~ \E y \in U : y <= m
      <4>1. \A y \in U : x <= y
        BY <3>2, <2>1, <1>2
      <4> QED BY <4>1
    <3> QED BY <3>1, <3>2
  <2> QED BY <2>1, <1>2
<1> HIDE DEF S
<1>3. \A m \in 0 .. n : m \in S
  BY <1>1, <1>2, IntervalInduction
<1>4. n \in S
  BY <1>3
<1>5. Least(T)
  <2>3. PICK x : x \in T
    OBVIOUS
  <2>4. T \in SUBSET (1 .. n) /\ x \in 1 .. n
    BY <2>3
  <2>1. T \in SUBSET (1 .. n) /\ \E y \in T : y <= n
    BY <2>3, <2>4
  <2>2. \A U \in SUBSET (1 .. n) : (\E y \in U : y <= n) => Least(U)
    BY <1>4 DEF S
  <2> HIDE DEF Least
  <2> QED BY <2>1, <2>2
<1> QED BY <1>5 DEF Min

-----------------------------------------------------------------------------
(* A list of blocks that tiles the arena.                                  *)
BlockType == [space : Base .. Base + ArenaSize, free : 0 .. ArenaSize]
Joined(b, c) ==
  /\ b.space < c.space
  /\ b.free \in {0, c.space - b.space}
  /\ b.free > 0 => c.free = 0

Tiles(s) ==
  /\ s \in Seq(BlockType) /\ s # <<>>
  /\ s[1].space = Base
  /\ s[Len(s)].space + s[Len(s)].free = Base + ArenaSize
  /\ \A j \in 1 .. Len(s) - 1 : Joined(s[j], s[j + 1])
  /\ Len(s) > 1 => s[Len(s) - 1].free = 0

(* The regions of the blocks that are allocated. *)
Region(b, c) == [ptr |-> b.space, size |-> c.space - b.space]
RegionsIn(s, from, to) ==
  {Region(s[j], s[j + 1]) : j \in {i \in from .. to : s[i].free = 0}}

Regions(s) == RegionsIn(s, 1, Len(s) - 1)

(* The blocks from first to last replaced by parts. *)
Piece(s, first, last, parts) ==
  SubSeq(s, 1, first - 1) \o parts \o SubSeq(s, last + 1, Len(s))

(* The length of the new list and its elements, by position. *)
LEMMA PieceFacts ==
  ASSUME NEW B, NEW s \in Seq(B), NEW p \in Seq(B),
         NEW f \in 1 .. Len(s), NEW l \in f .. Len(s)
  PROVE  /\ Piece(s, f, l, p) \in Seq(B)
         /\ Len(Piece(s, f, l, p)) = Len(s) + Len(p) - (l - f + 1)
         /\ \A i \in 1 .. Len(s) + Len(p) - (l - f + 1) :
              Piece(s, f, l, p)[i] =
                IF i < f THEN s[i]
                ELSE IF i < f + Len(p) THEN p[i - f + 1]
                ELSE s[i - Len(p) + (l - f + 1)]
<1> DEFINE a == SubSeq(s, 1, f - 1)
           b == SubSeq(s, l + 1, Len(s))
<1>1. /\ a \in Seq(B) /\ Len(a) = f - 1
      /\ \A i \in 1 .. f - 1 : a[i] = s[i]
  OBVIOUS
<1>2. /\ b \in Seq(B) /\ Len(b) = Len(s) - l
      /\ \A i \in 1 .. Len(s) - l : b[i] = s[l + i]
  OBVIOUS
<1>3. Piece(s, f, l, p) = (a \o p) \o b
  BY DEF Piece
<1> HIDE DEF a, b
<1> DEFINE c == a \o p
<1>4. /\ c \in Seq(B) /\ Len(c) = Len(a) + Len(p)
      /\ \A i \in 1 .. Len(a) + Len(p) : c[i] = IF i <= Len(a) THEN a[i] ELSE p[i - Len(a)]
  BY <1>1, ConcatProperties
<1> HIDE DEF c
<1> DEFINE r == c \o b
<1>5. /\ r \in Seq(B) /\ Len(r) = Len(c) + Len(b)
      /\ \A i \in 1 .. Len(c) + Len(b) : r[i] = IF i <= Len(c) THEN c[i] ELSE b[i - Len(c)]
  <2>1. b \in Seq(B) /\ c \in Seq(B)
    BY <1>2, <1>4
  <2> QED BY <2>1, ConcatProperties
<1>6. r = Piece(s, f, l, p)
  BY <1>3 DEF c
<1> HIDE DEF r
<1>7. Len(p) \in Nat /\ Len(s) \in Nat
  OBVIOUS
<1>8. ASSUME NEW i \in 1 .. Len(s) + Len(p) - (l - f + 1)
      PROVE  r[i] = IF i < f THEN s[i]
                    ELSE IF i < f + Len(p) THEN p[i - f + 1]
                    ELSE s[i - Len(p) + (l - f + 1)]
  <2>1. i \in 1 .. Len(c) + Len(b)
    BY SMTT(60), <1>1, <1>2, <1>4, <1>7
  <2>2. CASE i < f
    <3>1. i <= Len(c) /\ i <= Len(a) /\ i \in 1 .. Len(a) + Len(p)
      BY <2>2, <1>1, <1>4, <1>7
    <3>2. r[i] = c[i] /\ c[i] = a[i] /\ a[i] = s[i]
      BY <3>1, <2>1, <2>2, <1>1, <1>4, <1>5
    <3> QED BY <3>2, <2>2
  <2>3. CASE ~(i < f) /\ i < f + Len(p)
    <3>1. i <= Len(c) /\ ~(i <= Len(a)) /\ i \in 1 .. Len(a) + Len(p) /\ i - Len(a) = i - f + 1
      BY <2>3, <1>1, <1>4, <1>7
    <3>2. r[i] = c[i] /\ c[i] = p[i - Len(a)]
      BY <3>1, <2>1, <1>4, <1>5
    <3> QED BY <3>1, <3>2, <2>3
  <2>4. CASE ~(i < f + Len(p))
    <3>1. /\ ~(i <= Len(c)) /\ i - Len(c) \in 1 .. Len(s) - l
          /\ l + (i - Len(c)) = i - Len(p) + (l - f + 1) /\ ~(i < f)
      BY <2>1, <2>4, <1>1, <1>2, <1>4, <1>7
    <3>2. r[i] = b[i - Len(c)] /\ b[i - Len(c)] = s[l + (i - Len(c))]
      BY <3>1, <2>1, <1>2, <1>5
    <3> QED BY <3>1, <3>2, <2>4
  <2> QED BY <2>2, <2>3, <2>4, <1>7
<1>9. Len(r) = Len(s) + Len(p) - (l - f + 1)
  BY <1>1, <1>2, <1>4, <1>5, <1>7
<1> QED BY <1>5, <1>6, <1>8, <1>9

(* The fields of a block. *)
LEMMA BlockFields ==
  ASSUME NEW b \in BlockType
  PROVE  /\ b.space \in Nat /\ b.free \in Nat
         /\ Base <= b.space /\ b.space <= Base + ArenaSize /\ b.free <= ArenaSize
  BY ArenaAssumption DEF BlockType

(* The blocks are in address order. *)
LEMMA InOrder ==
  ASSUME NEW s, Tiles(s)
  PROVE  \A i, j \in 1 .. Len(s) : i < j => s[i].space < s[j].space
<1> DEFINE n == Len(s)
<1>1. /\ n \in Nat /\ \A i \in 1 .. n : s[i] \in BlockType /\ s[i].space \in Nat
  <2>1. s \in Seq(BlockType)
    BY DEF Tiles
  <2>2. n \in Nat /\ \A i \in 1 .. n : s[i] \in BlockType
    BY <2>1
  <2> QED BY <2>2, BlockFields
<1>2. \A i \in 1 .. n - 1 : s[i].space < s[i + 1].space
  BY DEF Tiles, Joined
<1> HIDE DEF n
<1> SUFFICES ASSUME NEW i \in 1 .. n, NEW j \in 1 .. n, i < j
             PROVE  s[i].space < s[j].space
  BY DEF n
<1> DEFINE S == {k \in 0 .. n : i + 1 + k <= n => s[i].space < s[i + 1 + k].space}
<1>3. 0 \in S
  BY <1>1, <1>2
<1>4. ASSUME NEW k \in Nat, k < n, k \in S PROVE k + 1 \in S
  <2>1. ASSUME i + 1 + (k + 1) <= n PROVE s[i].space < s[i + 1 + (k + 1)].space
    <3> DEFINE m == i + 1 + k
    <3>1. m \in 1 .. n - 1 /\ m + 1 = i + 1 + (k + 1) /\ m \in 1 .. n /\ m + 1 \in 1 .. n
      BY <2>1, <1>1
    <3>2. s[i].space < s[m].space
      BY <1>4, <3>1, <1>1
    <3> HIDE DEF m
    <3>3. s[m].space < s[m + 1].space
      BY <3>1, <1>2
    <3>4. s[i].space \in Nat /\ s[m].space \in Nat /\ s[m + 1].space \in Nat
      BY <3>1, <1>1
    <3>5. s[i].space < s[m + 1].space
      BY <3>2, <3>3, <3>4
    <3> QED BY <3>1, <3>5
  <2> QED BY <2>1, <1>1, <1>4
<1> HIDE DEF S
<1>5. \A k \in 0 .. n : k \in S
  BY <1>1, <1>3, <1>4, IntervalInduction
<1>6. j - (i + 1) \in 0 .. n /\ i + 1 + (j - (i + 1)) = j
  BY <1>1
<1> QED BY <1>5, <1>6, <1>1 DEF S

(* When parts can replace the blocks from first to last. *)
Fits(s, first, last, parts) ==
  /\ parts \in Seq(BlockType) /\ parts # <<>>
  /\ parts[1].space = s[first].space
  /\ \A i \in 1 .. Len(parts) - 1 : Joined(parts[i], parts[i + 1])
  /\ first > 1 => Joined(s[first - 1], parts[1])
  /\ last < Len(s) => /\ Joined(parts[Len(parts)], s[last + 1])
                      /\ last + 1 = Len(s) => parts[Len(parts)].free = 0
  /\ last = Len(s) =>
       /\ parts[Len(parts)].space + parts[Len(parts)].free = Base + ArenaSize
       /\ Len(parts) > 1 => parts[Len(parts) - 1].free = 0
       /\ Len(parts) = 1 /\ first > 1 => s[first - 1].free = 0

(* By how many blocks the list gets longer. *)
Longer(first, last, parts) == Len(parts) - (last - first + 1)

(* Where the blocks of the new list come from. *)
LEMMA PieceAt ==
  ASSUME NEW s, Tiles(s), NEW f \in 1 .. Len(s), NEW l \in f .. Len(s), NEW p, Fits(s, f, l, p)
  PROVE  /\ Piece(s, f, l, p) \in Seq(BlockType)
         /\ Len(Piece(s, f, l, p)) = Len(s) + Longer(f, l, p)
         /\ \A i \in 1 .. Len(s) + Longer(f, l, p) :
              /\ i < f => Piece(s, f, l, p)[i] = s[i]
              /\ \A k \in 1 .. Len(p) : i = f + k - 1 => Piece(s, f, l, p)[i] = p[k]
              /\ \A k \in 1 .. Len(s) : k > l /\ i = k + Longer(f, l, p) => Piece(s, f, l, p)[i] = s[k]
<1>1. s \in Seq(BlockType) /\ p \in Seq(BlockType)
  BY DEF Tiles, Fits
<1>2. /\ Piece(s, f, l, p) \in Seq(BlockType)
      /\ Len(Piece(s, f, l, p)) = Len(s) + Len(p) - (l - f + 1)
      /\ \A i \in 1 .. Len(s) + Len(p) - (l - f + 1) :
           Piece(s, f, l, p)[i] =
             IF i < f THEN s[i]
             ELSE IF i < f + Len(p) THEN p[i - f + 1]
             ELSE s[i - Len(p) + (l - f + 1)]
  BY <1>1, PieceFacts
<1> DEFINE r == Piece(s, f, l, p)
           n == Len(s)
           m == Len(p)
           d == Longer(f, l, p)
           q == n + d
<1>3. n \in Nat /\ m \in Nat /\ m >= 1 /\ f \in 1 .. n /\ l \in f .. n
  BY <1>1 DEF Fits
<1>4. /\ r \in Seq(BlockType) /\ Len(r) = q
      /\ \A i \in 1 .. q :
           r[i] = IF i < f THEN s[i] ELSE IF i < f + m THEN p[i - f + 1] ELSE s[i - d]
  <2>1. n + m - (l - f + 1) = q /\ \A i \in Int : i - m + (l - f + 1) = i - d
    BY <1>3 DEF q, Longer
  <2>2. /\ r \in Seq(BlockType) /\ Len(r) = n + m - (l - f + 1)
        /\ \A i \in 1 .. n + m - (l - f + 1) :
             r[i] = IF i < f THEN s[i] ELSE IF i < f + m THEN p[i - f + 1] ELSE s[i - m + (l - f + 1)]
    BY <1>2
  <2> HIDE DEF r, n, m, q
  <2> QED BY <2>1, <2>2
<1>5. d \in Int /\ q \in Nat /\ f + m - 1 - d = l
  BY <1>3 DEF Longer
<1> HIDE DEF r, n, m, d, q
<1>6. ASSUME NEW i \in 1 .. q
      PROVE  /\ i < f => r[i] = s[i]
             /\ \A k \in 1 .. m : i = f + k - 1 => r[i] = p[k]
             /\ \A k \in 1 .. n : k > l /\ i = k + d => r[i] = s[k]
  <2>1. r[i] = IF i < f THEN s[i] ELSE IF i < f + m THEN p[i - f + 1] ELSE s[i - d]
    BY <1>4
  <2>2. ASSUME NEW k \in 1 .. m, i = f + k - 1 PROVE r[i] = p[k]
    <3>1. ~(i < f) /\ i < f + m /\ i - f + 1 = k
      BY <2>2, <1>3
    <3> QED BY <2>1, <3>1
  <2>3. ASSUME NEW k \in 1 .. n, k > l, i = k + d PROVE r[i] = s[k]
    <3>1. ~(i < f) /\ ~(i < f + m) /\ i - d = k
      BY <2>3, <1>3, <1>5
    <3> QED BY <2>1, <3>1
  <2> QED BY <2>1, <2>2, <2>3
<1> QED BY <1>4, <1>6 DEF r, n, m, d, q

(* When the parts fit, the new list tiles the arena again. *)
LEMMA PieceTiles ==
  ASSUME NEW s, Tiles(s), NEW f \in 1 .. Len(s), NEW l \in f .. Len(s), NEW p, Fits(s, f, l, p)
  PROVE  Tiles(Piece(s, f, l, p))
<1> DEFINE r == Piece(s, f, l, p)
           n == Len(s)
           m == Len(p)
           d == Longer(f, l, p)
           q == n + d
<1>1. s \in Seq(BlockType) /\ p \in Seq(BlockType)
  BY DEF Tiles, Fits
<1>3. n \in Nat /\ m \in Nat /\ m >= 1 /\ f \in 1 .. n /\ l \in f .. n
  BY <1>1 DEF Fits
<1>4. r \in Seq(BlockType) /\ Len(r) = q
  BY PieceAt
<1>8. ASSUME NEW i \in 1 .. q
      PROVE  /\ i < f => r[i] = s[i]
             /\ \A k \in 1 .. m : i = f + k - 1 => r[i] = p[k]
             /\ \A k \in 1 .. n : k > l /\ i = k + d => r[i] = s[k]
  BY PieceAt
<1>5. d \in Int /\ q \in Nat /\ q >= 1 /\ f + m - 1 <= q /\ q - d = n
      /\ (l = n <=> f + m - 1 = q) /\ f + m - 1 - d = l
  BY <1>3 DEF Longer
<1>6. /\ \A j \in 1 .. n - 1 : Joined(s[j], s[j + 1])
      /\ \A i \in 1 .. m - 1 : Joined(p[i], p[i + 1])
      /\ f > 1 => Joined(s[f - 1], p[1])
      /\ l < n => Joined(p[m], s[l + 1])
  BY DEF Tiles, Fits
<1>7. /\ s[1].space = Base /\ s[n].space + s[n].free = Base + ArenaSize
      /\ n > 1 => s[n - 1].free = 0
      /\ p[1].space = s[f].space
      /\ l < n => (l + 1 = n => p[m].free = 0)
      /\ l = n => /\ p[m].space + p[m].free = Base + ArenaSize
                  /\ m > 1 => p[m - 1].free = 0
                  /\ m = 1 /\ f > 1 => s[f - 1].free = 0
  BY DEF Tiles, Fits
<1> HIDE DEF r, n, m, d, q
<1>9. ASSUME NEW j \in 1 .. q - 1 PROVE Joined(r[j], r[j + 1])
  <2> DEFINE h == j + 1
  <2>1. j \in 1 .. q /\ h \in 1 .. q /\ h = j + 1
    BY <1>5
  <2> HIDE DEF h
  <2> SUFFICES Joined(r[j], r[h])
    BY <2>1
  <2>2. CASE h < f
    <3>1. r[j] = s[j] /\ r[h] = s[h] /\ j \in 1 .. n - 1 /\ h = j + 1
      BY <2>1, <2>2, <1>3, <1>8
    <3> QED BY <3>1, <1>6
  <2>3. CASE h = f
    <3>1. r[j] = s[j] /\ r[h] = p[1] /\ j = f - 1 /\ f > 1
      BY <2>1, <2>3, <1>3, <1>8
    <3> QED BY <3>1, <1>6
  <2>4. CASE f <= j /\ h < f + m
    <3> DEFINE i == j - f + 1
               k == h - f + 1
    <3>1. i \in 1 .. m - 1 /\ k = i + 1 /\ i \in 1 .. m /\ k \in 1 .. m /\ j = f + i - 1 /\ h = f + k - 1
      BY <2>1, <2>4, <1>3
    <3> HIDE DEF i, k
    <3>2. r[j] = p[i] /\ r[h] = p[k]
      BY <2>1, <3>1, <1>8
    <3> QED BY <3>1, <3>2, <1>6
  <2>5. CASE h = f + m
    <3> DEFINE k == l + 1
    <3>1. j = f + m - 1 /\ m \in 1 .. m /\ k = l + 1 /\ h = k + d /\ k > l /\ k \in 1 .. n /\ l < n
      BY <2>1, <2>5, <1>3, <1>5
    <3> HIDE DEF k
    <3>2. r[j] = p[m] /\ r[h] = s[k]
      BY <2>1, <3>1, <1>8
    <3> QED BY <3>1, <3>2, <1>6
  <2>6. CASE j >= f + m
    <3> DEFINE i == j - d
               k == h - d
    <3>1. /\ i \in 1 .. n - 1 /\ k = i + 1 /\ i \in 1 .. n /\ k \in 1 .. n /\ i > l /\ k > l
          /\ j = i + d /\ h = k + d
      BY <2>1, <2>6, <1>3, <1>5
    <3> HIDE DEF i, k
    <3>2. r[j] = s[i] /\ r[h] = s[k]
      BY <2>1, <3>1, <1>8
    <3> QED BY <3>1, <3>2, <1>6
  <2> QED BY <2>1, <2>2, <2>3, <2>4, <2>5, <2>6, <1>3
<1>10. r[1].space = Base
  <2>1. 1 \in 1 .. q /\ 1 \in 1 .. m
    BY <1>3, <1>5
  <2>2. CASE f = 1
    <3>1. r[1] = p[1]
      BY <2>1, <2>2, <1>8
    <3> QED BY <3>1, <2>2, <1>7
  <2>3. CASE f > 1
    <3>1. r[1] = s[1]
      BY <2>1, <2>3, <1>8
    <3> QED BY <3>1, <1>7
  <2> QED BY <2>2, <2>3, <1>3
<1>11. /\ r[q].space + r[q].free = Base + ArenaSize
       /\ q > 1 => r[q - 1].free = 0
  <2> DEFINE h == q - 1
  <2>1. q \in 1 .. q /\ h = q - 1 /\ (q > 1 => h \in 1 .. q)
    BY <1>5
  <2> HIDE DEF h
  <2>2. CASE l = n
    <3>1. r[q] = p[m]
      <4>1. q = f + m - 1 /\ m \in 1 .. m
        BY <2>2, <1>3, <1>5
      <4> QED BY <4>1, <2>1, <1>8
    <3>2. CASE m > 1
      <4> DEFINE k == m - 1
      <4>1. k \in 1 .. m /\ k = m - 1 /\ h = f + k - 1 /\ q > 1
        BY <2>1, <2>2, <3>2, <1>3, <1>5
      <4> HIDE DEF k
      <4>2. r[h] = p[k]
        BY <4>1, <2>1, <1>8
      <4> QED BY <3>1, <3>2, <4>1, <4>2, <2>1, <2>2, <1>7
    <3>3. CASE m = 1
      <4>1. q > 1 => r[h] = s[h] /\ h = f - 1 /\ f > 1
        <5> HAVE q > 1
        <5>1. h \in 1 .. q /\ h = f - 1 /\ h < f /\ f > 1
          BY <2>1, <2>2, <3>3, <1>3, <1>5
        <5> QED BY <5>1, <1>8
      <4> QED BY <3>1, <3>3, <4>1, <2>1, <2>2, <1>7
    <3> QED BY <3>2, <3>3, <1>3
  <2>3. CASE l < n
    <3>1. r[q] = s[n]
      <4>1. n \in 1 .. n /\ n > l /\ q = n + d
        BY <2>3, <1>3, <1>5
      <4> QED BY <4>1, <2>1, <1>8
    <3>2. CASE l + 1 = n
      <4>1. h \in 1 .. q /\ h = f + m - 1 /\ m \in 1 .. m /\ q > 1
        BY <2>1, <2>3, <3>2, <1>3, <1>5
      <4>2. r[h] = p[m]
        BY <4>1, <1>8
      <4> QED BY <3>1, <3>2, <4>2, <2>1, <2>3, <1>7
    <3>3. CASE l + 1 < n
      <4> DEFINE k == n - 1
      <4>1. h \in 1 .. q /\ k \in 1 .. n /\ k > l /\ h = k + d /\ k = n - 1 /\ n > 1
        BY <2>1, <2>3, <3>3, <1>3, <1>5
      <4> HIDE DEF k
      <4>2. r[h] = s[k]
        BY <4>1, <1>8
      <4> QED BY <3>1, <4>1, <4>2, <2>1, <1>7
    <3> QED BY <3>2, <3>3, <2>3, <1>3
  <2> QED BY <2>2, <2>3, <1>3
<1>12. r # <<>>
  BY <1>4, <1>5
<1>13. Tiles(r)
  <2>1. Len(r) = q
    BY <1>4
  <2> QED BY <2>1, <1>4, <1>9, <1>10, <1>11, <1>12, Zenon DEF Tiles
<1> QED BY <1>13 DEF r

(* The regions of the new list are those around the parts, those between   *)
(* the parts, and the one from the last part to the block after it.        *)
Following(s, last, parts) ==
  IF last < Len(s) THEN Append(parts, s[last + 1]) ELSE parts

(* The allocated blocks of the new list: those before the parts, those     *)
(* among the parts, the last of which ends where the next block starts,    *)
(* and those after.                                                        *)
LEMMA PieceRegions ==
  ASSUME NEW s, Tiles(s), NEW f \in 1 .. Len(s), NEW l \in f .. Len(s), NEW p, Fits(s, f, l, p)
  PROVE  Regions(Piece(s, f, l, p)) =
           RegionsIn(s, 1, f - 1) \cup Regions(Following(s, l, p)) \cup RegionsIn(s, l + 1, Len(s) - 1)
<1> DEFINE r == Piece(s, f, l, p)
           n == Len(s)
           m == Len(p)
           d == Longer(f, l, p)
           q == n + d
           pp == Following(s, l, p)
           w == Len(pp)
<1>1. s \in Seq(BlockType) /\ p \in Seq(BlockType)
  BY DEF Tiles, Fits
<1>2. n \in Nat /\ m \in Nat /\ m >= 1 /\ f \in 1 .. n /\ l \in f .. n
  BY <1>1 DEF Fits
<1>3. r \in Seq(BlockType) /\ Len(r) = q
  BY PieceAt
<1>4. ASSUME NEW i \in 1 .. q
      PROVE  /\ i < f => r[i] = s[i]
             /\ \A k \in 1 .. m : i = f + k - 1 => r[i] = p[k]
             /\ \A k \in 1 .. n : k > l /\ i = k + d => r[i] = s[k]
  BY PieceAt
<1>5. /\ w = IF l < n THEN m + 1 ELSE m
      /\ \A k \in 1 .. m : pp[k] = p[k]
      /\ l < n => pp[m + 1] = s[l + 1]
  <2>1. CASE l < n
    <3>1. l + 1 \in 1 .. n
      BY <2>1, <1>2
    <3>2. s[l + 1] \in BlockType
      BY <3>1, <1>1
    <3> QED BY <2>1, <3>2, <1>1 DEF Following
  <2>2. CASE ~(l < n)
    BY <2>2 DEF Following
  <2> QED BY <2>1, <2>2
<1>6. d \in Int /\ q \in Nat /\ q - d = n /\ f + m - 1 - d = l /\ f + w - 1 - d = (IF l < n THEN l + 1 ELSE l)
  <2>1. d \in Int /\ q \in Nat /\ q - d = n /\ f + m - 1 - d = l
    BY <1>2 DEF Longer
  <2>2. w = (IF l < n THEN m + 1 ELSE m)
    BY <1>5
  <2> HIDE DEF d, q, n, m, w
  <2> QED BY <2>1, <2>2, <1>2
<1>7. p[1].space = s[f].space
  BY DEF Fits
<1> HIDE DEF r, n, m, d, q, pp, w
<1>8. ASSUME NEW k \in 1 .. w, NEW i, i = f + k - 1 PROVE i \in 1 .. q /\ r[i] = pp[k]
  <2>1. i \in 1 .. q
    BY <1>2, <1>5, <1>6, <1>8
  <2>2. CASE k <= m
    <3>1. k \in 1 .. m
      BY <2>2, <1>5
    <3> QED BY <2>1, <3>1, <1>4, <1>5, <1>8
  <2>3. CASE k > m
    <3> DEFINE h == l + 1
    <3>1. k = m + 1 /\ l < n /\ h \in 1 .. n /\ h > l /\ h = l + 1 /\ i = h + d
      BY <2>3, <1>2, <1>5, <1>6, <1>8
    <3> HIDE DEF h
    <3> QED BY <2>1, <3>1, <1>4, <1>5
  <2> QED BY <2>2, <2>3, <1>2, <1>5

(* The same region, by its index in the new list and in its old place. *)
<1>9. ASSUME NEW j \in 1 .. f - 1
      PROVE  j \in 1 .. q - 1 /\ r[j].free = s[j].free /\ Region(r[j], r[j + 1]) = Region(s[j], s[j + 1])
  <2> DEFINE h == j + 1
  <2>1. j \in 1 .. q - 1 /\ j \in 1 .. q /\ h \in 1 .. q /\ j < f /\ h = j + 1 /\ 1 \in 1 .. m
    BY <1>2, <1>6
  <2> HIDE DEF h
  <2>2. r[j] = s[j]
    BY <2>1, <1>4
  <2>3. r[h].space = s[h].space
    <3>1. CASE h < f
      BY <2>1, <3>1, <1>4
    <3>2. CASE h = f
      <4>1. h = f + 1 - 1
        BY <3>2, <1>2
      <4>2. r[h] = p[1]
        BY <2>1, <4>1, <1>4
      <4> QED BY <3>2, <4>2, <1>7
    <3> QED BY <2>1, <3>1, <3>2, <1>2
  <2> QED BY <2>1, <2>2, <2>3 DEF Region
<1>10. ASSUME NEW k \in 1 .. w - 1, NEW j, j = f + k - 1
       PROVE  j \in 1 .. q - 1 /\ r[j].free = pp[k].free /\ Region(r[j], r[j + 1]) = Region(pp[k], pp[k + 1])
  <2> DEFINE h == k + 1
             i == j + 1
  <2>1. k \in 1 .. w /\ h \in 1 .. w /\ h = k + 1 /\ i = f + h - 1 /\ i = j + 1
    BY <1>2, <1>5, <1>10
  <2> HIDE DEF h, i
  <2>2. i \in 1 .. q /\ r[i] = pp[h] /\ j \in 1 .. q /\ r[j] = pp[k]
    BY <2>1, <1>8, <1>10
  <2>3. j \in 1 .. q - 1
    BY <2>1, <2>2, <1>6
  <2> QED BY <2>1, <2>2, <2>3
<1>11. ASSUME NEW k \in l + 1 .. n - 1, NEW j, j = k + d
       PROVE  j \in 1 .. q - 1 /\ r[j].free = s[k].free /\ Region(r[j], r[j + 1]) = Region(s[k], s[k + 1])
  <2> DEFINE h == k + 1
             i == j + 1
  <2>1. /\ k \in 1 .. n /\ k > l /\ h \in 1 .. n /\ h > l /\ h = k + 1 /\ i = j + 1 /\ i = h + d
        /\ j \in 1 .. q - 1 /\ j \in 1 .. q /\ i \in 1 .. q
    BY <1>2, <1>6, <1>11
  <2> HIDE DEF h, i
  <2>2. r[j] = s[k] /\ r[i] = s[h]
    BY <2>1, <1>4, <1>11
  <2> QED BY <2>1, <2>2
<1>12. ASSUME NEW j \in 1 .. q - 1
       PROVE  \/ j \in 1 .. f - 1
              \/ \E k \in 1 .. w - 1 : j = f + k - 1
              \/ \E k \in l + 1 .. n - 1 : j = k + d
  <2>1. CASE j < f
    BY <2>1, <1>2
  <2>2. CASE f <= j /\ j < f + w - 1
    <3>1. j - f + 1 \in 1 .. w - 1 /\ j = f + (j - f + 1) - 1
      BY <2>2, <1>2, <1>5
    <3> QED BY <3>1
  <2>3. CASE f + w - 1 <= j
    <3>1. j - d \in l + 1 .. n - 1 /\ j = (j - d) + d
      BY <2>3, <1>2, <1>5, <1>6
    <3> QED BY <3>1
  <2> QED BY <2>1, <2>2, <2>3, <1>2, <1>5
<1> DEFINE A == RegionsIn(s, 1, f - 1)
           M == RegionsIn(pp, 1, w - 1)
           Z == RegionsIn(s, l + 1, n - 1)
           R == RegionsIn(r, 1, q - 1)
<1>13. ASSUME NEW x \in R PROVE x \in A \/ x \in M \/ x \in Z
  <2>1. PICK j \in 1 .. q - 1 : r[j].free = 0 /\ x = Region(r[j], r[j + 1])
    BY DEF RegionsIn
  <2>2. CASE j \in 1 .. f - 1
    BY <2>1, <2>2, <1>9 DEF RegionsIn
  <2>3. ASSUME NEW k \in 1 .. w - 1, j = f + k - 1 PROVE x \in M
    BY SMTT(60), <2>1, <2>3, <1>10 DEF RegionsIn
  <2>4. ASSUME NEW k \in l + 1 .. n - 1, j = k + d PROVE x \in Z
    BY SMTT(60), <2>1, <2>4, <1>11 DEF RegionsIn
  <2> QED BY <2>2, <2>3, <2>4, <1>12
<1>14. ASSUME NEW x \in A PROVE x \in R
  BY <1>9 DEF RegionsIn
<1>15. ASSUME NEW x \in M PROVE x \in R
  <2>1. PICK k \in 1 .. w - 1 : pp[k].free = 0 /\ x = Region(pp[k], pp[k + 1])
    BY DEF RegionsIn
  <2> DEFINE j == f + k - 1
  <2>2. j \in 1 .. q - 1 /\ r[j].free = pp[k].free /\ Region(r[j], r[j + 1]) = Region(pp[k], pp[k + 1])
    BY <1>10
  <2> HIDE DEF j
  <2> QED BY <2>1, <2>2 DEF RegionsIn
<1>16. ASSUME NEW x \in Z PROVE x \in R
  <2>1. PICK k \in l + 1 .. n - 1 : s[k].free = 0 /\ x = Region(s[k], s[k + 1])
    BY DEF RegionsIn
  <2> DEFINE j == k + d
  <2>2. j \in 1 .. q - 1 /\ r[j].free = s[k].free /\ Region(r[j], r[j + 1]) = Region(s[k], s[k + 1])
    BY <1>11
  <2> HIDE DEF j
  <2> QED BY <2>1, <2>2 DEF RegionsIn
<1>17. Regions(r) = R /\ Regions(pp) = M
  BY <1>3 DEF Regions, w
<1> HIDE DEF A, M, Z, R
<1>18. R = A \cup M \cup Z
  BY <1>13, <1>14, <1>15, <1>16
<1> QED BY <1>17, <1>18 DEF A, M, Z, R, r, pp, n

-----------------------------------------------------------------------------
(* What an operation does to the list.                                     *)
LEMMA TilesFields ==
  ASSUME NEW s, Tiles(s)
  PROVE  /\ s \in Seq(BlockType) /\ Len(s) \in Nat \ {0}
         /\ \A i \in 1 .. Len(s) :
              /\ s[i] \in BlockType /\ s[i].space \in Nat /\ s[i].free \in Nat
              /\ Base <= s[i].space /\ s[i].space <= Base + ArenaSize /\ s[i].free <= ArenaSize
<1>1. s \in Seq(BlockType) /\ s # <<>>
  BY DEF Tiles
<1>2. Len(s) \in Nat \ {0} /\ \A i \in 1 .. Len(s) : s[i] \in BlockType
  BY <1>1
<1> QED BY <1>1, <1>2, BlockFields

(* A block that lies in the arena. *)
LEMMA IsBlock ==
  ASSUME NEW space \in Nat, NEW free \in Nat, Base <= space, space + free <= Base + ArenaSize
  PROVE  /\ Block(space, free) \in BlockType
         /\ Block(space, free).space = space /\ Block(space, free).free = free
<1>1. space \in Base .. Base + ArenaSize /\ free \in 0 .. ArenaSize
  BY ArenaAssumption
<1> QED BY <1>1 DEF Block, BlockType

(* A request served in the free block f, or in the tail. *)
LEMMA Served ==
  ASSUME NEW s, Tiles(s), NEW f \in 1 .. Len(s), f < Len(s) => s[f].free > 0,
         NEW p, Fits(s, f, f, p)
  PROVE  /\ Tiles(Piece(s, f, f, p))
         /\ Regions(Piece(s, f, f, p)) = Regions(s) \cup Regions(Following(s, f, p))
<1> DEFINE n == Len(s)
<1>1. n \in Nat \ {0} /\ f \in f .. n /\ \A i \in 1 .. n : s[i].free \in Nat
  BY TilesFields
<1>2. Regions(Piece(s, f, f, p)) = RegionsIn(s, 1, f - 1) \cup Regions(Following(s, f, p)) \cup RegionsIn(s, f + 1, n - 1)
  BY <1>1, PieceRegions
<1>3. Tiles(Piece(s, f, f, p))
  BY <1>1, PieceTiles
<1> HIDE DEF n
<1>4. ASSUME NEW j \in 1 .. n - 1, s[j].free = 0
      PROVE  j \in 1 .. f - 1 \/ j \in f + 1 .. n - 1
  <2>1. j # f
    BY <1>1, <1>4 DEF n
  <2> QED BY <2>1, <1>1
<1>5. ASSUME NEW j, j \in 1 .. f - 1 \/ j \in f + 1 .. n - 1 PROVE j \in 1 .. n - 1
  BY <1>1, <1>5
<1>6. RegionsIn(s, 1, n - 1) = RegionsIn(s, 1, f - 1) \cup RegionsIn(s, f + 1, n - 1)
  BY <1>4, <1>5 DEF RegionsIn
<1>7. Regions(s) = RegionsIn(s, 1, n - 1)
  BY DEF Regions, n
<1> QED BY <1>2, <1>3, <1>6, <1>7

(* The blocks from f to l become one free block, or the tail; j is the     *)
(* only one of them that was allocated, if it was.                         *)
LEMMA Released ==
  ASSUME NEW s, Tiles(s), NEW f \in 1 .. Len(s), NEW l \in f .. Len(s), NEW j \in f .. l,
         j < Len(s), NEW b, Fits(s, f, l, <<b>>), b.free > 0,
         \A i \in f .. l : i = j \/ i = Len(s) \/ s[i].free > 0
  PROVE  /\ Tiles(Piece(s, f, l, <<b>>))
         /\ Regions(Piece(s, f, l, <<b>>)) = {region \in Regions(s) : region.ptr # s[j].space}
<1> DEFINE n == Len(s)
           p == <<b>>
           pp == Following(s, l, p)
<1>1. n \in Nat \ {0} /\ \A i \in 1 .. n : s[i].free \in Nat /\ s[i].space \in Nat
  BY TilesFields
<1>2. Regions(Piece(s, f, l, p)) = RegionsIn(s, 1, f - 1) \cup Regions(pp) \cup RegionsIn(s, l + 1, n - 1)
  BY <1>1, PieceRegions
<1>3. Tiles(Piece(s, f, l, p))
  BY <1>1, PieceTiles
<1>4. Regions(pp) = {}
  <2>1. b \in BlockType
    <3>1. p \in Seq(BlockType) /\ Len(p) = 1 /\ p[1] = b
      BY DEF Fits
    <3> QED BY <3>1
  <2>2. b.free # 0
    BY <2>1, BlockFields
  <2>3. CASE l < n
    <3>1. pp = Append(p, s[l + 1])
      BY <2>3 DEF Following
    <3>2. p \in Seq(BlockType) /\ Len(p) = 1 /\ p[1] = b
      BY <2>1
    <3>3. s \in Seq(BlockType) /\ l + 1 \in 1 .. Len(s)
      BY <2>3, <1>1, TilesFields
    <3>4. s[l + 1] \in BlockType
      BY <3>3
    <3> DEFINE c == s[l + 1]
    <3>7. p \in Seq(BlockType) /\ c \in BlockType /\ pp = Append(p, c)
      BY <3>1, <3>2, <3>4
    <3> HIDE DEF pp, p, c
    <3>6. Len(pp) = Len(p) + 1 /\ \A i \in 1 .. Len(p) : pp[i] = p[i]
      <4>1. \A i \in 1 .. Len(p) : Append(p, c)[i] = p[i]
        BY <3>7, AppendProperties
      <4>2. Len(Append(p, c)) = Len(p) + 1
        BY <3>7, AppendProperties
      <4> QED BY <4>1, <4>2, <3>7, Zenon
    <3>5. Len(pp) = 2 /\ pp[1] = b
      BY <3>2, <3>6
    <3> QED BY <3>5, <2>2 DEF Regions, RegionsIn
  <2>4. CASE ~(l < n)
    <3>1. pp = <<b>>
      BY <2>4 DEF Following
    <3>2. Len(pp) = 1
      BY <3>1
    <3> HIDE DEF pp
    <3> QED BY <3>2 DEF Regions, RegionsIn
  <2> QED BY <2>3, <2>4
<1>5. \A i \in 1 .. n : i # j => s[i].space # s[j].space
  <2>1. \A i, k \in 1 .. n : i < k => s[i].space < s[k].space
    BY InOrder
  <2>2. j \in 1 .. n
    BY <1>1
  <2> HIDE DEF n
  <2> QED BY <2>1, <2>2, <1>1
<1>6. \A i \in f .. l : i = j \/ i = n \/ s[i].free > 0
  OBVIOUS
<1>7. j \in 1 .. n - 1 /\ f \in 1 .. n /\ l \in f .. n
  BY <1>1
<1>13. Regions(s) = RegionsIn(s, 1, n - 1)
  BY DEF Regions
<1> HIDE DEF n, p, pp
<1>8. ASSUME NEW i \in 1 .. n - 1, s[i].free = 0, i # j
      PROVE  i \in 1 .. f - 1 \/ i \in l + 1 .. n - 1
  <2>1. ~(i \in f .. l)
    BY <1>1, <1>6, <1>7, <1>8
  <2> QED BY <2>1, <1>1, <1>7
<1>9. ASSUME NEW i, i \in 1 .. f - 1 \/ i \in l + 1 .. n - 1
      PROVE  i \in 1 .. n - 1 /\ i # j /\ Region(s[i], s[i + 1]).ptr # s[j].space
  <2>1. i \in 1 .. n - 1 /\ i # j /\ i \in 1 .. n
    BY <1>1, <1>7, <1>9
  <2> QED BY <2>1, <1>5 DEF Region
<1>10. Region(s[j], s[j + 1]).ptr = s[j].space
  BY DEF Region
<1> DEFINE L == RegionsIn(s, 1, f - 1) \cup RegionsIn(s, l + 1, n - 1)
           R == {region \in RegionsIn(s, 1, n - 1) : region.ptr # s[j].space}
<1>11. ASSUME NEW x \in R PROVE x \in L
  <2>1. PICK i \in 1 .. n - 1 : s[i].free = 0 /\ x = Region(s[i], s[i + 1])
    BY DEF RegionsIn
  <2>2. i # j
    BY <2>1, <1>10, <1>11
  <2> QED BY <2>1, <2>2, <1>8 DEF RegionsIn
<1>12. ASSUME NEW x \in L PROVE x \in R
  BY <1>9 DEF RegionsIn
<1>14. R = L
  BY <1>11, <1>12
<1> HIDE DEF L, R
<1>15. Regions(Piece(s, f, l, p)) = L
  BY <1>2, <1>4 DEF L
<1> QED BY <1>3, <1>13, <1>14, <1>15 DEF R, p

(* The allocated blocks among two ... *)
LEMMA TwoBlocks ==
  ASSUME NEW a, NEW b
  PROVE  Regions(<<a, b>>) = IF a.free = 0 THEN {Region(a, b)} ELSE {}
<1> DEFINE s == <<a, b>>
<1>1. Len(s) = 2 /\ s[1] = a /\ s[2] = b
  OBVIOUS
<1> HIDE DEF s
<1>2. Regions(s) = RegionsIn(s, 1, 1)
  BY <1>1 DEF Regions
<1>3. RegionsIn(s, 1, 1) = IF a.free = 0 THEN {Region(a, b)} ELSE {}
  BY <1>1 DEF RegionsIn
<1> QED BY <1>2, <1>3 DEF s

(* ... and three. *)
LEMMA ThreeBlocks ==
  ASSUME NEW a, NEW b, NEW c
  PROVE  Regions(<<a, b, c>>) = (IF a.free = 0 THEN {Region(a, b)} ELSE {})
                                  \cup (IF b.free = 0 THEN {Region(b, c)} ELSE {})
<1> DEFINE s == <<a, b, c>>
<1>1. Len(s) = 3 /\ s[1] = a /\ s[2] = b /\ s[3] = c
  OBVIOUS
<1> HIDE DEF s
<1>2. Regions(s) = RegionsIn(s, 1, 2)
  BY <1>1 DEF Regions
<1>3. RegionsIn(s, 1, 2) = (IF a.free = 0 THEN {Region(a, b)} ELSE {})
                                  \cup (IF b.free = 0 THEN {Region(b, c)} ELSE {})
  BY <1>1 DEF RegionsIn
<1> QED BY <1>2, <1>3 DEF s

(* The request at the start of the tail. *)
LEMMA TailServed ==
  ASSUME NEW s, Tiles(s), NEW size \in Nat \ {0}, s[Len(s)].free >= size,
         NEW p, p = <<Block(s[Len(s)].space, 0),
                      Block(s[Len(s)].space + size, s[Len(s)].free - size)>>
  PROVE  /\ Fits(s, Len(s), Len(s), p)
         /\ Regions(Following(s, Len(s), p)) = {[ptr |-> s[Len(s)].space, size |-> size]}
<1> DEFINE n  == Len(s)
           sp == s[n].space
           fr == s[n].free
           a  == Block(sp, 0)
           b  == Block(sp + size, fr - size)
<1>1. n \in Nat \ {0}
  BY TilesFields
<1>2. sp \in Nat /\ fr \in Nat /\ Base <= sp /\ sp + fr = Base + ArenaSize /\ fr >= size
  <2>1. n \in 1 .. n
    BY <1>1
  <2> QED BY <2>1, TilesFields DEF Tiles
<1>3. p = <<a, b>>
  OBVIOUS
<1>4. n > 1 => s[n - 1].free = 0 /\ s[n - 1].space < sp
  <2>1. n > 1 => Joined(s[n - 1], s[(n - 1) + 1])
    BY <1>1 DEF Tiles
  <2>2. (n - 1) + 1 = n
    BY <1>1
  <2> QED BY <2>1, <2>2 DEF Joined, Tiles
<1>9. s[n].space = sp
  OBVIOUS
<1> HIDE DEF n, sp, fr
<1>5. /\ a \in BlockType /\ b \in BlockType
      /\ a.space = sp /\ a.free = 0 /\ b.space = sp + size /\ b.free = fr - size
  <2>1. sp + size \in Nat /\ fr - size \in Nat /\ 0 \in Nat
    BY <1>2
  <2>2. a \in BlockType /\ a.space = sp /\ a.free = 0
    BY <1>2, <2>1, IsBlock
  <2>3. Base <= sp + size /\ (sp + size) + (fr - size) <= Base + ArenaSize
    BY <1>2, ArenaAssumption
  <2>4. b \in BlockType /\ b.space = sp + size /\ b.free = fr - size
    BY <2>1, <2>3, IsBlock
  <2> QED BY <2>2, <2>4
<1> HIDE DEF a, b
<1>6. p \in Seq(BlockType) /\ Len(p) = 2 /\ p[1] = a /\ p[2] = b
  BY <1>3, <1>5
<1>7. Fits(s, n, n, p)
  <2>1. Joined(a, b) /\ (n > 1 => Joined(s[n - 1], a))
    BY <1>2, <1>4, <1>5 DEF Joined
  <2>2. b.space + b.free = Base + ArenaSize
    BY <1>2, <1>5
  <2>3. \A i \in 1 .. Len(p) - 1 : Joined(p[i], p[i + 1])
    BY <1>6, <2>1
  <2>4. p[Len(p)] = b /\ p[Len(p) - 1] = a /\ p # <<>> /\ Len(p) # 1
    BY <1>6
  <2>5. ~(n < Len(s)) /\ p[1].space = s[n].space
    BY <1>1, <1>5, <1>6, <1>9 DEF n
  <2> QED BY <1>5, <1>6, <2>1, <2>2, <2>3, <2>4, <2>5 DEF Fits
<1>8. Following(s, n, p) = p
  BY <1>1 DEF Following, n
<1>10. Regions(p) = {Region(a, b)}
  BY <1>3, <1>5, TwoBlocks
<1>11. Region(a, b) = [ptr |-> sp, size |-> size]
  BY <1>2, <1>5 DEF Region
<1> QED BY <1>7, <1>8, <1>10, <1>11 DEF n, sp

(* The request after the bytes skipped at the start of the tail. *)
LEMMA TailServedAligned ==
  ASSUME NEW s, Tiles(s), NEW size \in Nat \ {0}, NEW skip \in Nat \ {0},
         s[Len(s)].free >= size + skip,
         NEW p, p = <<Block(s[Len(s)].space, skip), Block(s[Len(s)].space + skip, 0),
                      Block(s[Len(s)].space + size + skip, s[Len(s)].free - size - skip)>>
  PROVE  /\ Fits(s, Len(s), Len(s), p)
         /\ Regions(Following(s, Len(s), p)) = {[ptr |-> s[Len(s)].space + skip, size |-> size]}
<1> DEFINE n  == Len(s)
           sp == s[n].space
           fr == s[n].free
           a  == Block(sp, skip)
           b  == Block(sp + skip, 0)
           c  == Block(sp + size + skip, fr - size - skip)
<1>1. n \in Nat \ {0}
  BY TilesFields
<1>2. sp \in Nat /\ fr \in Nat /\ Base <= sp /\ sp + fr = Base + ArenaSize /\ fr >= size + skip
  <2>1. n \in 1 .. n
    BY <1>1
  <2> QED BY <2>1, TilesFields DEF Tiles
<1>3. p = <<a, b, c>>
  OBVIOUS
<1>4. n > 1 => s[n - 1].free = 0 /\ s[n - 1].space < sp
  <2>1. n > 1 => Joined(s[n - 1], s[(n - 1) + 1])
    BY <1>1 DEF Tiles
  <2>2. (n - 1) + 1 = n
    BY <1>1
  <2> QED BY <2>1, <2>2 DEF Joined, Tiles
<1>9. s[n].space = sp
  OBVIOUS
<1> HIDE DEF n, sp, fr
<1>5. /\ a \in BlockType /\ b \in BlockType /\ c \in BlockType
      /\ a.space = sp /\ a.free = skip /\ b.space = sp + skip /\ b.free = 0
      /\ c.space = sp + size + skip /\ c.free = fr - size - skip
  <2>1. /\ sp + skip \in Nat /\ sp + size + skip \in Nat /\ fr - size - skip \in Nat /\ 0 \in Nat
        /\ Base <= sp + skip /\ Base <= sp + size + skip
        /\ sp + skip <= Base + ArenaSize /\ (sp + skip) + 0 <= Base + ArenaSize
        /\ (sp + size + skip) + (fr - size - skip) <= Base + ArenaSize
    BY <1>2, ArenaAssumption
  <2>2. a \in BlockType /\ a.space = sp /\ a.free = skip
    BY <1>2, <2>1, IsBlock
  <2>3. b \in BlockType /\ b.space = sp + skip /\ b.free = 0
    BY <2>1, IsBlock
  <2>4. c \in BlockType /\ c.space = sp + size + skip /\ c.free = fr - size - skip
    BY <2>1, IsBlock
  <2> QED BY <2>2, <2>3, <2>4
<1> HIDE DEF a, b, c
<1>6. p \in Seq(BlockType) /\ Len(p) = 3 /\ p[1] = a /\ p[2] = b /\ p[3] = c
  BY <1>3, <1>5
<1>7. Fits(s, n, n, p)
  <2>1. Joined(a, b) /\ Joined(b, c) /\ (n > 1 => Joined(s[n - 1], a))
    BY <1>2, <1>4, <1>5 DEF Joined
  <2>2. c.space + c.free = Base + ArenaSize
    BY <1>2, <1>5
  <2>3. \A i \in 1 .. Len(p) - 1 : Joined(p[i], p[i + 1])
    <3> TAKE i \in 1 .. Len(p) - 1
    <3>1. CASE i = 1
      BY <3>1, <1>6, <2>1
    <3>2. CASE i = 2
      BY <3>2, <1>6, <2>1
    <3> QED BY <3>1, <3>2, <1>6
  <2>4. p[Len(p)] = c /\ p[Len(p) - 1] = b /\ p # <<>> /\ Len(p) # 1
    BY <1>6
  <2>5. ~(n < Len(s)) /\ p[1].space = s[n].space
    BY <1>1, <1>5, <1>6, <1>9 DEF n
  <2> QED BY <1>5, <1>6, <2>1, <2>2, <2>3, <2>4, <2>5 DEF Fits
<1>8. Following(s, n, p) = p
  BY <1>1 DEF Following, n
<1>10. Regions(p) = {Region(b, c)}
  BY <1>3, <1>5, ThreeBlocks
<1>11. Region(b, c) = [ptr |-> sp + skip, size |-> size]
  BY <1>2, <1>5 DEF Region
<1> QED BY <1>7, <1>8, <1>10, <1>11 DEF n, sp

(* Lists written out. *)
LEMMA Appended ==
  ASSUME NEW B, NEW s \in Seq(B), NEW b \in B, NEW t \in Seq(B),
         Len(t) = Len(s) + 1, \A i \in 1 .. Len(s) : t[i] = s[i], t[Len(s) + 1] = b
  PROVE  Append(s, b) = t /\ s \o <<b>> = t
<1> DEFINE u == Append(s, b)
<1>1. u \in Seq(B) /\ Len(u) = Len(s) + 1
  BY AppendProperties
<1>2. u[Len(s) + 1] = b
  BY AppendProperties
<1>3. \A i \in 1.. Len(s) : u[i] = s[i]
  BY AppendProperties
<1>4. u = s \o <<b>>
  BY AppendIsConcat
<1> HIDE DEF u
<1>5. Len(s) \in Nat
  OBVIOUS
<1>6. \A i \in 1 .. Len(u) : u[i] = t[i]
  BY <1>1, <1>2, <1>3, <1>5
<1>7. u = t
  BY <1>1, <1>6, SeqEqual
<1> QED BY <1>4, <1>7 DEF u

(* One block after one, and after two. *)
LEMMA Literals ==
  ASSUME NEW B, NEW a \in B, NEW b \in B, NEW c \in B
  PROVE  /\ Append(<<a>>, b) = <<a, b>> /\ <<a>> \o <<b>> = <<a, b>>
         /\ Append(<<a, b>>, c) = <<a, b, c>>
<1> DEFINE s == <<a>>
           t == <<a, b>>
           u == <<a, b, c>>
<1>1. s \in Seq(B) /\ Len(s) = 1 /\ s[1] = a
  OBVIOUS
<1>2. t \in Seq(B) /\ Len(t) = 2 /\ t[1] = a /\ t[2] = b
  OBVIOUS
<1>3. u \in Seq(B) /\ Len(u) = 3 /\ u[1] = a /\ u[2] = b /\ u[3] = c
  OBVIOUS
<1> HIDE DEF s, t, u
<1>4. Len(t) = Len(s) + 1 /\ (\A i \in 1 .. Len(s) : t[i] = s[i]) /\ t[Len(s) + 1] = b
  BY <1>1, <1>2
<1>5. Len(u) = Len(t) + 1 /\ (\A i \in 1 .. Len(t) : u[i] = t[i]) /\ u[Len(t) + 1] = c
  BY <1>2, <1>3
<1>6. Append(s, b) = t /\ s \o <<b>> = t
  BY <1>1, <1>2, <1>4, Appended
<1>7. Append(t, c) = u
  BY <1>2, <1>3, <1>5, Appended
<1> QED BY <1>6, <1>7 DEF s, t, u

(* The request in the free block j, which is not the tail. *)
LEMMA BlockServed ==
  ASSUME NEW s, Tiles(s), NEW j \in 1 .. Len(s) - 1, NEW size \in Nat \ {0}, s[j].free >= size,
         NEW p, p = IF s[j].free > size
                    THEN <<Block(s[j].space, 0), Block(s[j].space + size, s[j].free - size)>>
                    ELSE <<Block(s[j].space, 0)>>
  PROVE  /\ Fits(s, j, j, p)
         /\ Regions(Following(s, j, p)) = {[ptr |-> s[j].space, size |-> size]}
<1> DEFINE n  == Len(s)
           sp == s[j].space
           fr == s[j].free
           nx == s[j + 1]
           a  == Block(sp, 0)
           b  == Block(sp + size, fr - size)
<1>1. n \in Nat \ {0} /\ j \in 1 .. n - 1 /\ j \in 1 .. n /\ j + 1 \in 1 .. n
  BY TilesFields
<1>2. /\ sp \in Nat /\ fr \in Nat /\ Base <= sp /\ fr >= size
      /\ nx \in BlockType /\ nx.space \in Nat /\ nx.space <= Base + ArenaSize
      /\ nx.space = sp + fr /\ nx.free = 0
  <2>1. /\ sp \in Nat /\ fr \in Nat /\ Base <= sp
        /\ nx \in BlockType /\ nx.space \in Nat /\ nx.space <= Base + ArenaSize
    BY <1>1, TilesFields
  <2>2. Joined(s[j], nx)
    BY <1>1 DEF Tiles
  <2> QED BY <2>1, <2>2 DEF Joined
<1>4. j > 1 => s[j - 1].free = 0 /\ s[j - 1].space < sp
  <2> HAVE j > 1
  <2> DEFINE i == j - 1
  <2>1. i \in 1 .. n - 1 /\ i \in 1 .. n /\ i + 1 = j
    BY <1>1
  <2> HIDE DEF i
  <2>2. Joined(s[i], s[i + 1])
    BY <2>1 DEF Tiles
  <2>3. s[i].free \in Nat /\ s[i].space \in Nat
    BY <2>1, TilesFields
  <2> QED BY <2>1, <2>2, <2>3, <1>2 DEF Joined, i
<1>5. j + 1 # n
  <2>1. n > 1 => s[n - 1].free = 0
    BY DEF Tiles
  <2>2. j + 1 = n => j = n - 1 /\ n > 1
    BY <1>1
  <2> QED BY <2>1, <2>2, <1>2
<1>6. p = (IF fr > size THEN <<a, b>> ELSE <<a>>) /\ s[j].space = sp
  OBVIOUS
<1> HIDE DEF n, sp, fr, nx
<1>7. /\ a \in BlockType /\ b \in BlockType
      /\ a.space = sp /\ a.free = 0 /\ b.space = sp + size /\ b.free = fr - size
  <2>1. /\ sp + size \in Nat /\ fr - size \in Nat /\ 0 \in Nat /\ Base <= sp + size
        /\ (sp + size) + (fr - size) <= Base + ArenaSize /\ sp + 0 <= Base + ArenaSize
    BY <1>2, ArenaAssumption
  <2>2. a \in BlockType /\ a.space = sp /\ a.free = 0
    BY <1>2, <2>1, IsBlock
  <2>3. b \in BlockType /\ b.space = sp + size /\ b.free = fr - size
    BY <2>1, IsBlock
  <2> QED BY <2>2, <2>3
<1> HIDE DEF a, b
<1>8. j < Len(s) /\ ~(j = Len(s)) /\ ~(j + 1 = Len(s)) /\ s[j + 1] = nx
  BY <1>1, <1>5 DEF n, nx
<1>9. CASE fr > size
  <2>1. p = <<a, b>>
    BY <1>6, <1>9
  <2>2. p \in Seq(BlockType) /\ Len(p) = 2 /\ p[1] = a /\ p[2] = b /\ p # <<>>
    BY <2>1, <1>7
  <2>3. Joined(a, b) /\ Joined(b, nx) /\ (j > 1 => Joined(s[j - 1], a))
    BY <1>2, <1>4, <1>7, <1>9 DEF Joined
  <2>4. \A i \in 1 .. Len(p) - 1 : Joined(p[i], p[i + 1])
    BY <2>2, <2>3
  <2>5. p[Len(p)] = b /\ p[1].space = s[j].space
    BY <2>2, <1>6, <1>7
  <2>6. Fits(s, j, j, p)
    BY <1>8, <2>2, <2>3, <2>4, <2>5 DEF Fits
  <2>7. Following(s, j, p) = <<a, b, nx>>
    <3>1. Append(<<a, b>>, nx) = <<a, b, nx>>
      BY ZenonT(60), <1>2, <1>7, Literals
    <3>2. Following(s, j, p) = Append(p, nx)
      BY <1>8, Zenon DEF Following
    <3> QED BY <2>1, <3>1, <3>2
  <2>8. Regions(Following(s, j, p)) = {Region(a, b)}
    BY <2>7, <1>2, <1>7, <1>9, ThreeBlocks
  <2>9. Region(a, b) = [ptr |-> sp, size |-> size]
    BY <1>2, <1>7 DEF Region
  <2> QED BY <2>6, <2>8, <2>9 DEF sp
<1>10. CASE ~(fr > size)
  <2>1. p = <<a>> /\ fr = size
    BY <1>2, <1>6, <1>10
  <2>2. p \in Seq(BlockType) /\ Len(p) = 1 /\ p[1] = a /\ p # <<>>
    BY <2>1, <1>7
  <2>3. Joined(a, nx) /\ (j > 1 => Joined(s[j - 1], a))
    BY <1>2, <1>4, <1>7, <2>1 DEF Joined
  <2>4. \A i \in 1 .. Len(p) - 1 : Joined(p[i], p[i + 1])
    BY <2>2
  <2>5. p[Len(p)] = a /\ p[1].space = s[j].space
    BY <2>2, <1>6, <1>7
  <2>6. Fits(s, j, j, p)
    BY <1>8, <2>2, <2>3, <2>4, <2>5 DEF Fits
  <2>7. Following(s, j, p) = <<a, nx>>
    <3>1. Append(<<a>>, nx) = <<a, nx>>
      BY ZenonT(60), <1>2, <1>7, Literals
    <3>2. Following(s, j, p) = Append(p, nx)
      BY <1>8, Zenon DEF Following
    <3> QED BY <2>1, <3>1, <3>2
  <2>8. Regions(Following(s, j, p)) = {Region(a, nx)}
    BY <2>7, <1>7, TwoBlocks
  <2>9. Region(a, nx) = [ptr |-> sp, size |-> size]
    BY <1>2, <1>7, <2>1 DEF Region
  <2> QED BY <2>6, <2>8, <2>9 DEF sp
<1> QED BY <1>9, <1>10

-----------------------------------------------------------------------------
(* Malloc, as long as aligned requests are served from the tail.           *)
Serves(m, size, alignment) ==
  /\ Tiles(m.blocks)
  /\ Regions(m.blocks) = Regions(blocks) \cup {[ptr |-> m.ptr, size |-> size]}
  /\ alignment > 1 => m.ptr % alignment = 0
  /\ \E j \in 1 .. N :
       /\ j < N => blocks[j].free > 0
       /\ m.ptr \in Nat /\ blocks[j].space <= m.ptr
       /\ m.ptr + size <= blocks[j].space + blocks[j].free

(* FromTail replaces the tail. *)
LEMMA AtTail ==
  ASSUME Tiles(blocks), NEW p \in Seq(BlockType)
  PROVE  Front(blocks) \o p = Piece(blocks, N, N, p)
<1> DEFINE b == SubSeq(blocks, N + 1, N)
           c == Front(blocks) \o p
<1>1. blocks \in Seq(BlockType) /\ N \in Nat \ {0}
  BY TilesFields DEF N
<1>2. b = <<>>
  BY <1>1
<1>3. Piece(blocks, N, N, p) = (Front(blocks) \o p) \o b
  BY DEF Piece, Front, N
<1>4. Front(blocks) \in Seq(BlockType)
  BY <1>1 DEF Front
<1>5. c \in Seq(BlockType)
  BY <1>4, ConcatProperties
<1> HIDE DEF b, c
<1>6. c \o <<>> = c
  BY <1>5
<1> QED BY <1>2, <1>3, <1>6 DEF b, c

(* pelib_mem_malloc when the tail has room, after the bytes it skips. *)
LEMMA FromTailServes ==
  ASSUME Tiles(blocks), NEW size \in Nat \ {0}, NEW alignment \in Nat,
         alignment <= 1 => tail.free >= size,
         alignment > 1 => TailHasRoom(size, alignment)
  PROVE  Serves(FromTail(size, alignment), size, alignment)
<1> DEFINE sp == tail.space
           fr == tail.free
           m  == FromTail(size, alignment)
<1>1. /\ N \in Nat \ {0} /\ N = Len(blocks) /\ N \in 1 .. Len(blocks) /\ N \in N .. Len(blocks)
      /\ ~(N < Len(blocks))
      /\ sp \in Nat /\ fr \in Nat /\ fr <= ArenaSize
  <2>1. N \in Nat \ {0} /\ N = Len(blocks) /\ N \in 1 .. Len(blocks)
    BY TilesFields DEF N
  <2> QED BY <2>1, TilesFields DEF tail
<1>2. sp = blocks[Len(blocks)].space /\ fr = blocks[Len(blocks)].free
  BY DEF tail, N
<1>3. SizeModulus \in Nat /\ ArenaSize \in Nat /\ ArenaSize < SizeModulus
  BY ArenaAssumption
<1> HIDE DEF sp, fr
<1>4. ASSUME NEW p, Fits(blocks, N, N, p), NEW ptr \in Nat,
             Regions(Following(blocks, N, p)) = {[ptr |-> ptr, size |-> size]},
             m = [ptr |-> ptr, blocks |-> Front(blocks) \o p],
             sp <= ptr, ptr + size <= sp + fr, alignment > 1 => ptr % alignment = 0
      PROVE  Serves(m, size, alignment)
  <2>1. p \in Seq(BlockType)
    BY <1>4 DEF Fits
  <2>2. m.blocks = Piece(blocks, N, N, p) /\ m.ptr = ptr
    BY <1>4, <2>1, AtTail
  <2>3. /\ Tiles(m.blocks)
        /\ Regions(m.blocks) = Regions(blocks) \cup {[ptr |-> ptr, size |-> size]}
    <3>1. N \in 1 .. Len(blocks) /\ (N < Len(blocks) => blocks[N].free > 0) /\ Fits(blocks, N, N, p)
      BY <1>1, <1>4
    <3>2. /\ Tiles(Piece(blocks, N, N, p))
          /\ Regions(Piece(blocks, N, N, p)) = Regions(blocks) \cup Regions(Following(blocks, N, p))
      BY <3>1, Served
    <3> QED BY <1>4, <2>2, <3>2
  <2> HIDE DEF m
  <2>4. /\ N \in 1 .. N /\ ~(N < N) /\ m.ptr \in Nat /\ blocks[N].space <= m.ptr
        /\ m.ptr + size <= blocks[N].space + blocks[N].free
    BY <1>1, <1>2, <1>4, <2>2
  <2> QED BY <1>4, <2>2, <2>3, <2>4 DEF Serves
<1>5. CASE alignment <= 1 \/ sp % alignment = 0
  <2>1. fr >= size
    BY <1>1, <1>5 DEF TailHasRoom, fr, sp
  <2> DEFINE p == <<Block(sp, 0), Block(sp + size, fr - size)>>
  <2>2. SizeT(fr - size) = fr - size
    <3>1. fr - size \in Nat /\ fr - size < SizeModulus
      BY <1>1, <1>3, <2>1
    <3> QED BY <3>1, <1>3, NoWrap DEF SizeT
  <2>3. m = [ptr |-> sp, blocks |-> Front(blocks) \o p]
    BY <1>5, <2>2 DEF FromTail, sp, fr
  <2>4. /\ Fits(blocks, N, N, p)
        /\ Regions(Following(blocks, N, p)) = {[ptr |-> sp, size |-> size]}
    BY <1>1, <1>2, <2>1, TailServed
  <2>5. sp <= sp /\ sp + size <= sp + fr /\ (alignment > 1 => sp % alignment = 0)
    BY <1>1, <1>5, <2>1
  <2> HIDE DEF p, m
  <2> QED BY <1>1, <1>4, <2>3, <2>4, <2>5 DEF m
<1>6. CASE alignment > 1 /\ sp % alignment # 0
  <2> DEFINE skip == Skip(sp, alignment)
             p == <<Block(sp, skip), Block(sp + skip, 0), Block(sp + size + skip, fr - size - skip)>>
             ptr == sp + skip
  <2>1. skip \in Nat \ {0}
    <3>1. sp % alignment \in 0 .. alignment - 1
      BY <1>1, <1>6, Remainder
    <3> QED BY <1>6, <3>1 DEF Skip
  <2>6. fr >= size + skip
    BY <1>6 DEF TailHasRoom, fr, sp
  <2>7. ptr % alignment = 0
    BY <1>1, <1>6, SkipAligns DEF Skip
  <2>8. m = [ptr |-> sp + skip,
             blocks |-> Front(blocks) \o <<Block(sp, skip), Block(sp + skip, 0),
                                           Block(sp + size + skip, SizeT(fr - size - skip))>>]
    BY <1>1, <1>6 DEF FromTail, sp, fr
  <2> HIDE DEF skip
  <2>2. SizeT(fr - size - skip) = fr - size - skip
    <3>1. fr - size - skip \in Nat /\ fr - size - skip < SizeModulus
      BY <1>1, <1>3, <2>1, <2>6
    <3> QED BY <3>1, <1>3, NoWrap DEF SizeT
  <2>3. m = [ptr |-> ptr, blocks |-> Front(blocks) \o p]
    BY <2>2, <2>8
  <2>4. /\ Fits(blocks, N, N, p)
        /\ Regions(Following(blocks, N, p)) = {[ptr |-> ptr, size |-> size]}
    BY <1>1, <1>2, <2>1, <2>6, TailServedAligned
  <2>5. ptr \in Nat /\ sp <= ptr /\ ptr + size <= sp + fr
    BY <1>1, <2>1, <2>6
  <2> HIDE DEF p, m, ptr
  <2> QED BY <1>1, <1>4, <2>3, <2>4, <2>5, <2>7 DEF m
<1> QED BY <1>1, <1>5, <1>6 DEF sp

(* pelib_mem_malloc when it found a block; the client asks for no          *)
(* alignment.                                                              *)
LEMMA FromBlockServes ==
  ASSUME Tiles(blocks), NEW size \in Nat \ {0}, NEW alignment \in Nat, alignment <= 1,
         NEW j \in 1 .. N - 1, blocks[j].free >= size
  PROVE  Serves(FromBlock(j, size, alignment), size, alignment)
<1> DEFINE sp == blocks[j].space
           fr == blocks[j].free
           p  == IF fr > size THEN <<Block(sp, 0), Block(sp + size, fr - size)>>
                 ELSE <<Block(sp, 0)>>
           m  == FromBlock(j, size, alignment)
           rest == IF fr > size THEN <<Block(sp + size, fr - size)>> ELSE <<>>
<1>1. /\ N \in Nat \ {0} /\ N = Len(blocks) /\ j \in 1 .. Len(blocks) - 1 /\ j \in 1 .. Len(blocks)
      /\ j \in 1 .. N /\ j # N
  BY TilesFields DEF N
<1>2. /\ sp \in Nat /\ fr \in Nat /\ fr >= size /\ Base <= sp
  BY <1>1, TilesFields
<1>10. sp + fr <= Base + ArenaSize
  <2>1. Joined(blocks[j], blocks[j + 1])
    BY <1>1 DEF Tiles
  <2>2. j + 1 \in 1 .. Len(blocks)
    BY <1>1
  <2>3. blocks[j + 1].space \in Nat /\ blocks[j + 1].space <= Base + ArenaSize
    BY <2>2, TilesFields
  <2> QED BY <2>1, <2>3, <1>2 DEF Joined
<1>3. Fits(blocks, j, j, p) /\ Regions(Following(blocks, j, p)) = {[ptr |-> sp, size |-> size]}
  BY <1>1, BlockServed
<1>4. ~(fr > size /\ alignment > 1)
  OBVIOUS
<1>5. m = [ptr |-> sp, blocks |-> Splice(j, <<>> \o <<Block(sp, 0)>> \o rest)]
  BY <1>4 DEF FromBlock
<1> HIDE DEF sp, fr
<1>6. <<>> \o <<Block(sp, 0)>> \o rest = p
  <2>1. 0 \in Nat /\ sp + 0 <= Base + ArenaSize
    BY <1>2, <1>10, ArenaAssumption
  <2>2. Block(sp, 0) \in BlockType
    BY <1>2, <2>1, IsBlock
  <2> DEFINE a == Block(sp, 0)
             b == Block(sp + size, fr - size)
  <2>3. <<>> \o <<a>> = <<a>> /\ <<a>> \o <<>> = <<a>>
    <3>1. <<a>> \in Seq(BlockType)
      BY <2>2
    <3> HIDE DEF a
    <3> QED BY <3>1, ConcatEmptySeq
  <2>4. CASE fr > size
    <3>1. sp + size \in Nat /\ fr - size \in Nat /\ Base <= sp + size /\ (sp + size) + (fr - size) <= Base + ArenaSize
      BY <1>2, <1>10, <2>4, ArenaAssumption
    <3>2. b \in BlockType
      BY <3>1, IsBlock
    <3>3. rest = <<b>> /\ p = <<a, b>>
      BY <2>4
    <3> HIDE DEF rest, p
    <3>4. <<a>> \o <<b>> = <<a, b>>
      BY <2>2, <3>2, Literals
    <3> QED BY <2>3, <3>3, <3>4
  <2>5. CASE ~(fr > size)
    <3>1. rest = <<>> /\ p = <<a>>
      BY <2>5
    <3> HIDE DEF rest, p
    <3> QED BY <2>3, <3>1
  <2> QED BY <2>4, <2>5
<1> HIDE DEF p, rest, m
<1>7. Splice(j, p) = Piece(blocks, j, j, p)
  BY <1>1 DEF Splice, Piece, N
<1>8. m.blocks = Piece(blocks, j, j, p) /\ m.ptr = sp
  BY <1>5, <1>6, <1>7
<1>9. /\ Tiles(m.blocks)
      /\ Regions(m.blocks) = Regions(blocks) \cup {[ptr |-> sp, size |-> size]}
  <2>1. j < Len(blocks) => blocks[j].free > 0
    BY <1>2 DEF fr
  <2>2. j \in 1 .. Len(blocks) /\ Fits(blocks, j, j, p)
    BY <1>1, <1>3
  <2>3. /\ Tiles(Piece(blocks, j, j, p))
        /\ Regions(Piece(blocks, j, j, p)) = Regions(blocks) \cup Regions(Following(blocks, j, p))
    BY <2>1, <2>2, Served
  <2> QED BY <1>3, <1>8, <2>3
<1>11. /\ j < N => blocks[j].free > 0
       /\ m.ptr \in Nat /\ blocks[j].space <= m.ptr
       /\ m.ptr + size <= blocks[j].space + blocks[j].free
  <2>1. blocks[j].space = sp /\ blocks[j].free = fr
    BY DEF sp, fr
  <2> QED BY <1>2, <1>8, <2>1
<1> QED BY <1>1, <1>8, <1>9, <1>11 DEF Serves, m

-----------------------------------------------------------------------------
(* Free.                                                                   *)
LEMMA JoinedAt ==
  ASSUME NEW s, Tiles(s), NEW i, NEW j \in 1 .. Len(s), j = i + 1, i >= 1, i \in Int
  PROVE  /\ s[i].space < s[j].space
         /\ s[i].free > 0 => s[i].free = s[j].space - s[i].space /\ s[j].free = 0
<1>1. i \in 1 .. Len(s) - 1 /\ i \in 1 .. Len(s) /\ i + 1 = j
  BY TilesFields
<1>2. Joined(s[i], s[j])
  BY <1>1 DEF Tiles
<1>3. s[i].free \in Nat /\ s[i].space \in Nat /\ s[j].space \in Nat
  BY <1>1, TilesFields
<1> QED BY <1>2, <1>3 DEF Joined

(* pelib_mem_free: the block that starts at ptr, if there is one, is       *)
(* merged with its free neighbours, and no region but the one at ptr goes. *)
LEMMA FreeReleases ==
  ASSUME Tiles(blocks), NEW ptr
  PROVE  /\ Tiles(FreeResult(ptr))
         /\ Regions(FreeResult(ptr)) = {region \in Regions(blocks) : region.ptr # ptr}
<1> DEFINE s     == blocks
           n     == Len(blocks)
           found == {j \in 1 .. n - 1 : s[j].space = ptr}
           j     == Min(found)
           f     == IF j > 1 /\ s[j - 1].free > 0 THEN j - 1 ELSE j
           l     == IF s[j + 1].free > 0 \/ j + 1 = n THEN j + 1 ELSE j
           freed == SizeT(s[j + 1].space - s[j].space)
           free  == freed + (IF f < j THEN s[f].free ELSE 0) + (IF l > j THEN s[l].free ELSE 0)
           b     == Block(s[f].space, free)
<1>1. n \in Nat \ {0} /\ n - 1 \in Nat
  BY TilesFields
<1>2. FreeResult(ptr) = IF found = {} THEN blocks ELSE Piece(s, f, l, <<b>>)
  BY DEF FreeResult, Piece, N
<1> HIDE DEF n
<1>3. CASE found = {}
  <2>1. ASSUME NEW region \in Regions(blocks) PROVE region.ptr # ptr
    <3>1. PICK i \in 1 .. n - 1 : region = Region(blocks[i], blocks[i + 1])
      BY DEF Regions, RegionsIn, n
    <3>2. region.ptr = blocks[i].space
      BY <3>1 DEF Region
    <3> QED BY <3>1, <3>2, <1>3
  <2> QED BY <1>2, <1>3, <2>1
<1>4. CASE found # {}
  <2>1. j \in found
    <3> HIDE DEF j
    <3>1. found \subseteq 1 .. n - 1
      OBVIOUS
    <3> HIDE DEF found
    <3> QED BY <1>1, <1>4, <3>1, MinIsIn DEF j
  <2>2. j \in 1 .. n - 1 /\ s[j].space = ptr
    BY <2>1
  <2>3. FreeResult(ptr) = Piece(s, f, l, <<b>>)
    BY <1>2, <1>4
  <2>4. freed = SizeT(s[j + 1].space - s[j].space)
    OBVIOUS
  <2>5. free = freed + (IF f < j THEN s[f].free ELSE 0) + (IF l > j THEN s[l].free ELSE 0)
    OBVIOUS
  <2>6. f = (IF j > 1 /\ s[j - 1].free > 0 THEN j - 1 ELSE j)
    OBVIOUS
  <2>7. l = (IF s[j + 1].free > 0 \/ j + 1 = n THEN j + 1 ELSE j)
    OBVIOUS
  <2> HIDE DEF j, found, f, l, freed, free, b
  <2> DEFINE h == j + 1
             e == f - 1
             k == l + 1
  <2>8. /\ n \in Nat /\ f \in Nat /\ l \in Nat /\ j \in Nat
        /\ h \in 1 .. n /\ h = j + 1 /\ j \in 1 .. n /\ j < n
        /\ f \in 1 .. n /\ f \in 1 .. j /\ (f = j \/ f = j - 1)
        /\ l \in f .. n /\ (l = j \/ l = h) /\ j \in f .. l
        /\ e = f - 1 /\ k = l + 1 /\ e \in Int /\ k \in Int
    BY <1>1, <2>2, <2>6, <2>7
  <2>9. (l = h <=> s[h].free > 0 \/ h = n) /\ (f = j - 1 <=> j > 1 /\ s[j - 1].free > 0)
    BY <2>2, <2>6, <2>7
  <2> HIDE DEF h, e, k
  <2>10. \A i \in 1 .. n : s[i].space \in Nat /\ s[i].free \in Nat /\ s[i] \in BlockType
                           /\ Base <= s[i].space /\ s[i].space <= Base + ArenaSize /\ s[i].free <= ArenaSize
    BY TilesFields DEF n
  <2>11. freed = s[h].space - s[j].space /\ freed > 0 /\ freed \in Nat
    <3>1. s[j].space < s[h].space
      BY <2>8, JoinedAt DEF n
    <3>2. s[h].space - s[j].space \in Nat /\ s[h].space - s[j].space < SizeModulus
      BY <3>1, <2>8, <2>10, ArenaAssumption
    <3>3. SizeT(s[h].space - s[j].space) = s[h].space - s[j].space
      BY <3>2, ArenaAssumption, NoWrap DEF SizeT
    <3> QED BY <3>1, <3>2, <3>3, <2>4, <2>8, <2>10
  (* what is before the block: nothing, or an allocated block *)
  <2>12. /\ s[j].space = s[f].space + (IF f < j THEN s[f].free ELSE 0)
         /\ f < j => s[f].free > 0
         /\ f > 1 => s[e].free = 0 /\ s[e].space < s[f].space
    <3>1. CASE f < j
      <4>1. f >= 1 /\ f \in Int /\ j = f + 1 /\ s[f].free > 0
        BY <3>1, <2>8, <2>9
      <4>2. s[f].free = s[j].space - s[f].space
        BY <4>1, <2>8, JoinedAt DEF n
      <4>3. f > 1 => s[e].free = 0 /\ s[e].space < s[f].space
        <5> HAVE f > 1
        <5>1. e >= 1 /\ f = e + 1 /\ e \in 1 .. n
          BY <2>8
        <5>2. s[e].space < s[f].space /\ (s[e].free > 0 => s[f].free = 0)
          BY <5>1, <2>8, JoinedAt DEF n
        <5>3. s[e].free \in Nat
          BY <5>1, <2>10
        <5> QED BY <5>2, <5>3, <4>1
      <4> QED BY <3>1, <4>1, <4>2, <4>3, <2>8, <2>10
    <3>2. CASE f = j
      <4>1. f > 1 => s[e].free = 0 /\ s[e].space < s[f].space
        <5> HAVE f > 1
        <5>1. e >= 1 /\ f = e + 1 /\ e \in 1 .. n /\ e = j - 1
          BY <3>2, <2>8
        <5>2. s[e].space < s[f].space
          BY <5>1, <2>8, JoinedAt DEF n
        <5>3. s[e].free \in Nat /\ ~(s[e].free > 0)
          BY <5>1, <3>2, <2>8, <2>9, <2>10
        <5> QED BY <5>2, <5>3
      <4> QED BY <3>2, <4>1, <2>8, <2>10
    <3> QED BY <3>1, <3>2, <2>8
  (* what is after it *)
  <2>13. /\ l < n => /\ s[k].space = s[h].space + (IF l > j THEN s[l].free ELSE 0)
                     /\ s[k].free = 0 /\ k # n
         /\ l = n => l > j /\ s[h].space + s[l].free = Base + ArenaSize
         /\ l > j => l = n \/ s[l].free > 0
    <3>1. CASE l = n
      <4>1. s[n].space + s[n].free = Base + ArenaSize
        BY DEF Tiles, n
      <4>2. l = h /\ l > j
        BY <3>1, <2>8
      <4> QED BY <3>1, <4>1, <4>2, <2>8
    <3>2. CASE l < n
      <4>1. n > 1 /\ s[n - 1].free = 0
        BY <1>1, <2>8 DEF Tiles, n
      <4>2. CASE l = h
        <5>1. s[h].free > 0 /\ k \in 1 .. n /\ k = h + 1 /\ h >= 1 /\ h \in Int
          BY <3>2, <4>2, <2>8, <2>9
        <5>2. s[h].free = s[k].space - s[h].space /\ s[k].free = 0
          BY <5>1, JoinedAt DEF n
        <5>3. k # n
          <6>1. k = n => h = n - 1
            BY <5>1
          <6> QED BY <6>1, <5>1, <4>1
        <5> QED BY <3>2, <4>2, <5>1, <5>2, <5>3, <2>8, <2>10
      <4>3. CASE l = j
        <5>1. k = h /\ ~(s[h].free > 0) /\ h # n /\ s[h].free \in Nat /\ ~(l > j)
          BY <4>3, <2>8, <2>9, <2>10
        <5>2. s[h].free = 0
          BY <5>1
        <5> QED BY <3>2, <5>1, <5>2, <2>8, <2>10
      <4> QED BY <4>2, <4>3, <2>8
    <3> QED BY <3>1, <3>2, <2>8
  <2> DEFINE g == s[h].space + (IF l > j THEN s[l].free ELSE 0)
  <2>14. g \in Nat /\ free \in Nat /\ free > 0 /\ s[f].space + free = g /\ g <= Base + ArenaSize
    <3>1. (IF l > j THEN s[l].free ELSE 0) \in Nat /\ (IF f < j THEN s[f].free ELSE 0) \in Nat
      BY <2>8, <2>10
    <3>2. g \in Nat
      BY <3>1, <2>8, <2>10
    <3>3. free \in Nat /\ free > 0
      BY <3>1, <2>5, <2>11
    <3>4. s[f].space + free = g
      <4> DEFINE x == IF f < j THEN s[f].free ELSE 0
                 y == IF l > j THEN s[l].free ELSE 0
      <4>1. free = freed + x + y /\ s[j].space = s[f].space + x /\ freed = s[h].space - s[j].space
            /\ g = s[h].space + y /\ x \in Nat /\ y \in Nat
        BY <3>1, <2>5, <2>11, <2>12
      <4>2. s[f].space \in Nat /\ s[h].space \in Nat /\ s[j].space \in Nat
        BY <2>8, <2>10
      <4> HIDE DEF x, y, g
      <4> QED BY <4>1, <4>2
    <3>5. g <= Base + ArenaSize
      <4>1. CASE l < n
        <5>1. k \in 1 .. n /\ s[k].space = g
          BY <4>1, <2>8, <2>13
        <5> QED BY <5>1, <2>10
      <4>2. CASE l = n
        BY <4>2, <2>13, ArenaAssumption
      <4> QED BY <4>1, <4>2, <2>8
    <3> QED BY <3>2, <3>3, <3>4, <3>5
  <2>15. b \in BlockType /\ b.space = s[f].space /\ b.free = free
    <3>1. s[f].space \in Nat /\ Base <= s[f].space
      BY <2>8, <2>10
    <3> QED BY <3>1, <2>14, IsBlock DEF b
  <2>16. Fits(s, f, l, <<b>>)
    <3> DEFINE p == <<b>>
    <3>1. p \in Seq(BlockType) /\ p # <<>> /\ Len(p) = 1 /\ p[1] = b
      BY <2>15
    <3> HIDE DEF p
    <3>2. f > 1 => Joined(s[e], b)
      BY <2>12, <2>15 DEF Joined
    <3>3. l < n => Joined(b, s[k]) /\ k # n
      <4> HAVE l < n
      <4>1. s[k].space = g /\ s[k].free = 0 /\ k # n
        BY <2>13
      <4>2. s[f].space \in Nat
        BY <2>8, <2>10
      <4> HIDE DEF g
      <4>3. b.space < s[k].space /\ b.free = s[k].space - b.space
        BY <4>1, <4>2, <2>14, <2>15
      <4> QED BY <4>1, <4>3 DEF Joined
    <3>4. l = n => b.space + b.free = Base + ArenaSize
      <4> HAVE l = n
      <4>1. g = Base + ArenaSize
        BY <2>13
      <4> HIDE DEF g
      <4> QED BY <4>1, <2>14, <2>15
    <3>5. \A i \in 1 .. Len(p) - 1 : Joined(p[i], p[i + 1])
      BY <3>1
    <3>6. p[Len(p)] = b /\ ~(Len(p) > 1) /\ p[1].space = s[f].space
      BY <3>1, <2>15
    <3>7. e = f - 1 /\ k = l + 1 /\ Len(s) = n
      BY <2>8 DEF n
    <3> QED BY <3>1, <3>2, <3>3, <3>4, <3>5, <3>6, <3>7, <2>12 DEF Fits, p
  <2>17. \A i \in f .. l : i = j \/ i = Len(s) \/ s[i].free > 0
    <3> TAKE i \in f .. l
    <3>1. (i = f /\ f < j) \/ i = j \/ (i = l /\ l > j)
      BY <2>8
    <3> QED BY <3>1, <2>12, <2>13 DEF n
  <2>18. /\ Tiles(Piece(s, f, l, <<b>>))
         /\ Regions(Piece(s, f, l, <<b>>)) = {region \in Regions(s) : region.ptr # s[j].space}
    <3>1. f \in 1 .. Len(s) /\ l \in f .. Len(s) /\ j \in f .. l /\ j < Len(s) /\ b.free > 0
      BY <2>8, <2>14, <2>15 DEF n
    <3> QED BY <3>1, <2>16, <2>17, Released
  <2> QED BY <2>2, <2>3, <2>18
<1> QED BY <1>3, <1>4

-----------------------------------------------------------------------------
(* What malloc returns: NULL and the same list when no block is large      *)
(* enough, or the request served.                                          *)
LEMMA MallocServes ==
  ASSUME Tiles(blocks), NEW size \in Nat, NEW alignment \in Nat,
         alignment > 1 => TailHasRoom(size, alignment),
         NEW m, m = MallocResult(size, alignment)
  PROVE  \/ /\ m.ptr = NULL /\ m.blocks = blocks
            /\ size = 0 \/ \A j \in 1 .. N : blocks[j].free < size
         \/ size > 0 /\ Serves(m, size, alignment)
<1> DEFINE found == {j \in 1 .. N : ~SearchPasses(j, size, alignment)}
<1>1. m = IF size = 0 THEN [ptr |-> NULL, blocks |-> blocks]
          ELSE IF TailServes(size, alignment) THEN FromTail(size, alignment)
          ELSE IF found = {} THEN [ptr |-> NULL, blocks |-> blocks]
          ELSE FromBlock(Min(found), size, alignment)
  BY DEF MallocResult
<1>2. CASE size = 0
  BY <1>1, <1>2
<1>3. CASE size > 0 /\ TailServes(size, alignment)
  <2>1. m = FromTail(size, alignment)
    BY <1>1, <1>3
  <2>2. alignment <= 1 => tail.free >= size
    BY <1>3 DEF TailServes
  <2>3. size \in Nat \ {0}
    BY <1>3
  <2> QED BY <1>3, <2>1, <2>2, <2>3, FromTailServes
<1>4. CASE size > 0 /\ ~TailServes(size, alignment)
  <2>1. N \in Nat \ {0} /\ N = Len(blocks) /\ N \in 1 .. N /\ tail = blocks[N]
    BY TilesFields DEF N, tail
  <2>2. tail.free \in Nat /\ tail.free <= ArenaSize
    BY <2>1, TilesFields
  <2>3. alignment <= 1
    <3> SUFFICES ASSUME alignment > 1 PROVE FALSE
      OBVIOUS
    <3> DEFINE r == tail.space % alignment
               fr == tail.free
    <3>1. r # 0 /\ ~(SizeT(fr - alignment + r) >= size)
      BY <1>4 DEF TailServes
    <3>2. tail.space \in Nat
      BY <2>1, TilesFields
    <3>3. r \in 0 .. alignment - 1
      <4> DEFINE sp == tail.space
      <4>1. sp \in Nat /\ alignment \in Nat \ {0}
        BY <3>2
      <4> HIDE DEF sp
      <4>2. sp % alignment \in 0 .. alignment - 1
        BY <4>1, Remainder
      <4> QED BY <4>2 DEF sp
    <3>4. fr >= size + (alignment - r)
      BY <3>1 DEF TailHasRoom, Skip
    <3> HIDE DEF r, fr
    <3>5. fr \in Nat /\ fr <= ArenaSize
      BY <2>2 DEF fr
    <3>6. /\ fr - alignment + r \in Nat /\ fr - alignment + r >= size
          /\ fr - alignment + r < SizeModulus /\ SizeModulus \in Nat
      BY <3>3, <3>4, <3>5, ArenaAssumption
    <3>7. SizeT(fr - alignment + r) = fr - alignment + r
      BY <3>6, NoWrap DEF SizeT
    <3> QED BY <3>1, <3>6, <3>7
  <2>4. \A j \in 1 .. N : SearchPasses(j, size, alignment) <=> blocks[j].free < size
    BY <2>3 DEF SearchPasses
  <2>5. ~(tail.free >= size)
    BY <1>4, <2>3 DEF TailServes
  <2>6. CASE found = {}
    BY <1>1, <1>4, <2>4, <2>6
  <2>7. CASE found # {}
    <3> DEFINE j == Min(found)
    <3>1. found \subseteq 1 .. N
      OBVIOUS
    <3>2. j \in found
      <4> HIDE DEF found
      <4> QED BY <2>1, <2>7, <3>1, MinIsIn
    <3>3. j \in 1 .. N /\ ~(blocks[j].free < size)
      BY <3>2, <2>4
    <3>4. m = FromBlock(j, size, alignment)
      BY <1>1, <1>4, <2>7
    <3> HIDE DEF j, found
    <3>5. blocks[j].free \in Nat /\ blocks[j].free >= size
      <4>1. blocks[j].free \in Nat
        BY <2>1, <3>3, TilesFields
      <4> QED BY <3>3, <4>1
    <3>6. j \in 1 .. N - 1
      <4>1. j # N
        BY <2>1, <2>2, <2>5, <3>5
      <4> QED BY <2>1, <3>3, <4>1
    <3>7. size \in Nat \ {0}
      BY <1>4
    <3>8. Serves(FromBlock(j, size, alignment), size, alignment)
      BY <2>3, <3>5, <3>6, <3>7, FromBlockServes
    <3> QED BY <1>4, <3>4, <3>8
  <2> QED BY <2>6, <2>7
<1> QED BY <1>2, <1>3, <1>4

(* A request that is served gets an address of the arena. *)
LEMMA ServedInArena ==
  ASSUME Tiles(blocks), NEW m, NEW size \in Nat \ {0}, NEW alignment, Serves(m, size, alignment)
  PROVE  m.ptr \in Base .. Base + ArenaSize /\ m.ptr # NULL /\ m.ptr + size <= Base + ArenaSize
<1>1. PICK j \in 1 .. N : /\ j < N => blocks[j].free > 0
                          /\ m.ptr \in Nat /\ blocks[j].space <= m.ptr
                          /\ m.ptr + size <= blocks[j].space + blocks[j].free
  BY DEF Serves
<1>2. N \in Nat \ {0} /\ N = Len(blocks)
  BY TilesFields DEF N
<1>3. blocks[j].space \in Nat /\ blocks[j].free \in Nat /\ Base <= blocks[j].space
  BY <1>1, <1>2, TilesFields
<1>4. blocks[j].space + blocks[j].free <= Base + ArenaSize
  <2>1. CASE j = N
    BY <2>1, <1>2, <1>3, ArenaAssumption DEF Tiles
  <2>2. CASE j < N
    <3> DEFINE h == j + 1
    <3>1. h \in 1 .. Len(blocks) /\ h = j + 1 /\ j >= 1 /\ j \in Int
      BY <1>1, <1>2, <2>2
    <3> HIDE DEF h
    <3>2. blocks[j].free = blocks[h].space - blocks[j].space
      BY <3>1, <1>1, <2>2, JoinedAt
    <3>3. blocks[h].space \in Nat /\ blocks[h].space <= Base + ArenaSize
      BY <3>1, TilesFields
    <3> QED BY <3>2, <3>3, <1>3
  <2> QED BY <2>1, <2>2, <1>1, <1>2
<1>5. Base \in Nat \ {0} /\ ArenaSize \in Nat
  BY ArenaAssumption
<1> QED BY <1>1, <1>3, <1>4, <1>5 DEF NULL

-----------------------------------------------------------------------------
(* The inductive invariant.                                                *)
Inv ==
  /\ TypeOK
  /\ Tiles(blocks)
  /\ live = Regions(blocks)

(* A malloc keeps the invariant. *)
LEMMA MallocInv ==
  ASSUME Inv, AlignedAnywhere = FALSE, NEW size \in Sizes, NEW alignment \in Alignments,
         Malloc(size, alignment)
  PROVE  Inv'
<1> DEFINE m == MallocResult(size, alignment)
<1>1. size \in Nat /\ alignment \in Nat /\ Tiles(blocks) /\ live = Regions(blocks)
  BY ArenaAssumption DEF Inv
<1>2. /\ alignment > 1 => TailHasRoom(size, alignment)
      /\ blocks' = m.blocks /\ ret' = [size |-> size, alignment |-> alignment, ptr |-> m.ptr]
      /\ live' = IF m.ptr = NULL THEN live ELSE live \cup {[ptr |-> m.ptr, size |-> size]}
  BY DEF Malloc
<1> HIDE DEF m
<1>3. \/ /\ m.ptr = NULL /\ m.blocks = blocks
      \/ size > 0 /\ Serves(m, size, alignment)
  BY <1>1, <1>2, MallocServes DEF m
<1>4. live \subseteq [ptr: Base .. Base + ArenaSize, size: Sizes]
  BY DEF Inv, TypeOK
<1>5. CASE m.ptr = NULL /\ m.blocks = blocks
  <2>1. blocks' = blocks /\ live' = live /\ ret' = [size |-> size, alignment |-> alignment, ptr |-> NULL]
    BY <1>2, <1>5
  <2>2. TypeOK' /\ Tiles(blocks')
    BY <1>1, <2>1 DEF Inv, TypeOK
  <2> QED BY <1>1, <2>1, <2>2 DEF Inv
<1>6. CASE size > 0 /\ Serves(m, size, alignment)
  <2>1. m.ptr \in Base .. Base + ArenaSize /\ m.ptr # NULL
    BY <1>1, <1>6, ServedInArena
  <2>2. Tiles(m.blocks) /\ Regions(m.blocks) = Regions(blocks) \cup {[ptr |-> m.ptr, size |-> size]}
    BY <1>6 DEF Serves
  <2>3. Tiles(blocks') /\ live' = Regions(blocks')
    BY <1>1, <1>2, <2>1, <2>2
  <2>4. blocks' \in Seq(BlockType) /\ blocks' # <<>>
    BY <2>3 DEF Tiles
  <2>5. live' \subseteq [ptr: Base .. Base + ArenaSize, size: Sizes]
    BY <1>2, <1>4, <2>1
  <2>6. TypeOK'
    BY <1>2, <2>1, <2>4, <2>5 DEF TypeOK, BlockType
  <2> QED BY <2>3, <2>6 DEF Inv
<1> QED BY <1>3, <1>5, <1>6

(* So does a free, of any address. *)
LEMMA FreeInv ==
  ASSUME Inv, NEW ptr, Free(ptr)
  PROVE  Inv'
<1>1. Tiles(blocks) /\ live = Regions(blocks) /\ live \subseteq [ptr: Base .. Base + ArenaSize, size: Sizes]
  BY DEF Inv, TypeOK
<1>2. blocks' = FreeResult(ptr) /\ live' = {region \in live : region.ptr # ptr} /\ ret' = ret
  BY DEF Free
<1>3. Tiles(blocks') /\ live' = Regions(blocks')
  <2>1. /\ Tiles(FreeResult(ptr))
        /\ Regions(FreeResult(ptr)) = {region \in Regions(blocks) : region.ptr # ptr}
    BY <1>1, FreeReleases
  <2> QED BY <1>1, <1>2, <2>1, Zenon
<1>4. blocks' \in Seq(BlockType) /\ blocks' # <<>>
  BY <1>3 DEF Tiles
<1>5. live' \subseteq [ptr: Base .. Base + ArenaSize, size: Sizes]
  BY <1>1, <1>2
<1>6. TypeOK'
  BY <1>2, <1>4, <1>5 DEF TypeOK, Inv, BlockType
<1> QED BY <1>3, <1>6 DEF Inv

(* The arena is one free block. *)
LEMMA InitInv == Init => Inv
<1> SUFFICES ASSUME Init PROVE Inv
  OBVIOUS
<1> DEFINE b == Block(Base, ArenaSize)
<1>1. blocks = <<b>> /\ live = {} /\ ret = [size |-> 0, alignment |-> 0, ptr |-> NULL]
  BY DEF Init
<1>2. b \in BlockType /\ b.space = Base /\ b.free = ArenaSize
  BY ArenaAssumption, IsBlock
<1> HIDE DEF b
<1>3. blocks \in Seq(BlockType) /\ blocks # <<>> /\ Len(blocks) = 1 /\ blocks[1] = b
  BY <1>1, <1>2
<1>4. Tiles(blocks)
  BY <1>2, <1>3 DEF Tiles
<1>5. Regions(blocks) = {}
  BY <1>3 DEF Regions, RegionsIn
<1>6. TypeOK
  BY <1>1, <1>3 DEF TypeOK, BlockType
<1> QED BY <1>1, <1>4, <1>5, <1>6 DEF Inv

(* The invariant holds. *)
LEMMA Invariant ==
  ASSUME AlignedAnywhere = FALSE
  PROVE  Spec => []Inv
<1>1. Inv /\ [Next]_vars => Inv'
  <2> SUFFICES ASSUME Inv, [Next]_vars PROVE Inv'
    OBVIOUS
  <2>1. CASE \E size \in Sizes, alignment \in Alignments : Malloc(size, alignment)
    BY <2>1, MallocInv
  <2>2. CASE \E ptr \in Base .. Base + ArenaSize : Free(ptr)
    BY <2>2, FreeInv
  <2>3. CASE UNCHANGED vars
    BY <2>3 DEF vars, Inv, TypeOK, Tiles, Regions, RegionsIn
  <2> QED BY <2>1, <2>2, <2>3 DEF Next
<1> QED BY <1>1, InitInv, PTL DEF Spec

(* After any mallocs and frees the blocks of the list tile the arena in    *)
(* address order, a free block is free up to the next one and two free     *)
(* blocks are never neighbours: free never leaves a hole in two pieces     *)
(* (pelib_mem_free merges on both sides). Aligned requests are asked for   *)
(* while the tail has room for them.                                       *)
THEOREM ListTilesArena ==
  ASSUME AlignedAnywhere = FALSE
  PROVE  Spec => []BlocksTileArena
<1>1. Inv => BlocksTileArena
  <2> SUFFICES ASSUME Inv PROVE BlocksTileArena
    OBVIOUS
  <2>1. Tiles(blocks) /\ TypeOK /\ N \in Nat \ {0} /\ N = Len(blocks)
    BY TilesFields DEF Inv, N
  <2>2. blocks[1].space = Base /\ tail.space + tail.free = Base + ArenaSize
    BY <2>1 DEF Tiles, tail, N
  <2>3. ASSUME NEW j \in 1 .. N - 1
        PROVE  /\ blocks[j].space < blocks[j + 1].space
               /\ blocks[j].free \in {0, blocks[j + 1].space - blocks[j].space}
               /\ blocks[j].free > 0 => j + 1 < N /\ blocks[j + 1].free = 0
    <3>1. Joined(blocks[j], blocks[j + 1])
      BY <2>1 DEF Tiles
    <3>2. N > 1 => blocks[N - 1].free = 0
      BY <2>1 DEF Tiles
    <3>3. blocks[j].free > 0 => j + 1 < N
      <4>1. j + 1 = N => j = N - 1 /\ N > 1
        BY <2>1
      <4>2. blocks[j].free > 0 => j # N - 1
        BY <2>1, <3>2
      <4> QED BY <2>1, <4>1, <4>2
    <3> QED BY <3>1, <3>3 DEF Joined
  <2> QED BY <2>1, <2>2, <2>3 DEF BlocksTileArena
<1> QED BY <1>1, Invariant, PTL

(* The regions the client holds are the allocated blocks: a double free,   *)
(* or the free of an address the client never got, releases nothing.       *)
THEOREM RegionsAreBlocks ==
  ASSUME AlignedAnywhere = FALSE
  PROVE  Spec => []LiveAreBlocks
<1>1. Inv => LiveAreBlocks
  BY DEF Inv, LiveAreBlocks, Regions, RegionsIn, Region, N
<1> QED BY <1>1, Invariant, PTL

(* The regions the client holds lie in the arena and do not overlap. A     *)
(* client that asks for aligned memory when the tail is too small is the   *)
(* one the run MCMallocAligned refutes this for.                           *)
THEOREM RegionsApart ==
  ASSUME AlignedAnywhere = FALSE
  PROVE  Spec => []RegionsDisjoint
<1>1. Inv => RegionsDisjoint
  <2> SUFFICES ASSUME Inv PROVE RegionsDisjoint
    OBVIOUS
  <2>1. Tiles(blocks) /\ live = Regions(blocks) /\ N \in Nat \ {0} /\ N = Len(blocks)
    BY TilesFields DEF Inv, N
  <2>2. ASSUME NEW region \in live
        PROVE  \E i, h \in 1 .. N :
                 h = i + 1 /\ region.ptr = blocks[i].space /\ End(region) = blocks[h].space
    <3>1. PICK i \in 1 .. N - 1 : region = Region(blocks[i], blocks[i + 1])
      BY <2>1 DEF Regions, RegionsIn
    <3> DEFINE h == i + 1
    <3>2. h \in 1 .. N /\ i \in 1 .. N /\ h = i + 1
      BY <2>1
    <3>3. region = [ptr |-> blocks[i].space, size |-> blocks[h].space - blocks[i].space]
      BY <3>1 DEF Region
    <3> HIDE DEF h
    <3>4. blocks[i].space \in Nat /\ blocks[h].space \in Nat
      BY <2>1, <3>2, TilesFields
    <3>5. region.ptr = blocks[i].space /\ End(region) = blocks[h].space
      BY <3>3, <3>4 DEF End
    <3> QED BY <3>2, <3>5
  <2>3. \A i \in 1 .. N : /\ blocks[i].space \in Nat /\ Base <= blocks[i].space
                          /\ blocks[i].space <= Base + ArenaSize
    BY <2>1, TilesFields
  <2>4. \A i, h \in 1 .. N : i < h => blocks[i].space < blocks[h].space
    BY <2>1, InOrder
  <2>5. ASSUME NEW region \in live PROVE region.ptr >= Base /\ End(region) <= Base + ArenaSize
    <3>1. PICK i, h \in 1 .. N : region.ptr = blocks[i].space /\ End(region) = blocks[h].space
      BY <2>2
    <3> QED BY <3>1, <2>3, ArenaAssumption
  <2>6. ASSUME NEW r1 \in live, NEW r2 \in live
        PROVE  r1 = r2 \/ End(r1) <= r2.ptr \/ End(r2) <= r1.ptr
    <3>1. PICK i \in 1 .. N - 1 : r1 = Region(blocks[i], blocks[i + 1])
      BY <2>1 DEF Regions, RegionsIn
    <3>2. PICK j \in 1 .. N - 1 : r2 = Region(blocks[j], blocks[j + 1])
      BY <2>1 DEF Regions, RegionsIn
    <3> DEFINE h == i + 1
               k == j + 1
    <3>3. i \in 1 .. N /\ h \in 1 .. N /\ j \in 1 .. N /\ k \in 1 .. N /\ h = i + 1 /\ k = j + 1
      BY <2>1
    <3>4. r1 = Region(blocks[i], blocks[h]) /\ r2 = Region(blocks[j], blocks[k])
      BY <3>1, <3>2
    <3> HIDE DEF h, k
    <3>5. /\ r1.ptr = blocks[i].space /\ End(r1) = blocks[h].space
          /\ r2.ptr = blocks[j].space /\ End(r2) = blocks[k].space
      BY <3>3, <3>4, <2>3 DEF Region, End
    <3>6. CASE i = j
      BY <3>3, <3>4, <3>6
    <3>7. CASE i < j
      <4>1. h = j \/ h < j
        BY <3>3, <3>7
      <4>2. blocks[h].space <= blocks[j].space
        BY <4>1, <3>3, <2>3, <2>4
      <4> QED BY <3>5, <4>2
    <3>8. CASE j < i
      <4>1. k = i \/ k < i
        BY <3>3, <3>8
      <4>2. blocks[k].space <= blocks[i].space
        BY <4>1, <3>3, <2>3, <2>4
      <4> QED BY <3>5, <4>2
    <3> QED BY <3>3, <3>6, <3>7, <3>8
  <2> QED BY <2>5, <2>6 DEF RegionsDisjoint
<1> QED BY <1>1, Invariant, PTL

-----------------------------------------------------------------------------
(* The list implements the allocator.                                      *)
Unused(from, to) == \A a \in Int : from <= a /\ a < to => \A region \in live :
                      ~(region.ptr <= a /\ a < region.ptr + region.size)

(* The bytes of a region, by the block it is. *)
LEMMA RegionBytes ==
  ASSUME Tiles(blocks), NEW region, NEW i \in 1 .. N - 1,
         region = Region(blocks[i], blocks[i + 1])
  PROVE  region.ptr = blocks[i].space /\ region.ptr + region.size = blocks[i + 1].space
<1> DEFINE h == i + 1
<1>1. N \in Nat \ {0} /\ N = Len(blocks)
  BY TilesFields DEF N
<1>2. i \in 1 .. N /\ h \in 1 .. N
  BY <1>1
<1>3. region = [ptr |-> blocks[i].space, size |-> blocks[h].space - blocks[i].space]
  BY DEF Region
<1> HIDE DEF h
<1>4. blocks[i].space \in Nat /\ blocks[h].space \in Nat
  BY <1>1, <1>2, TilesFields
<1>5. region.ptr = blocks[i].space /\ region.ptr + region.size = blocks[h].space
  BY <1>3, <1>4
<1> QED BY <1>5 DEF h

(* No byte of a free block, or of the tail, is in use. *)
LEMMA FreeIsUnused ==
  ASSUME Tiles(blocks), live = Regions(blocks),
         NEW j \in 1 .. N, j < N => blocks[j].free > 0
  PROVE  Unused(blocks[j].space, blocks[j].space + blocks[j].free)
<1>1. N \in Nat \ {0} /\ N = Len(blocks)
  BY TilesFields DEF N
<1>2. \A i \in 1 .. N : blocks[i].space \in Nat /\ blocks[i].free \in Nat
  BY <1>1, TilesFields
<1>3. \A i, h \in 1 .. N : i < h => blocks[i].space < blocks[h].space
  BY <1>1, InOrder
<1> SUFFICES ASSUME NEW a \in Int, blocks[j].space <= a, a < blocks[j].space + blocks[j].free,
                    NEW region \in live, region.ptr <= a, a < region.ptr + region.size
             PROVE  FALSE
  BY DEF Unused
<1>4. PICK i \in 1 .. N - 1 : blocks[i].free = 0 /\ region = Region(blocks[i], blocks[i + 1])
  BY <1>1 DEF Regions, RegionsIn
<1>5. region.ptr = blocks[i].space /\ region.ptr + region.size = blocks[i + 1].space
  BY <1>4, RegionBytes
<1> DEFINE h == i + 1
<1>6. h \in 1 .. N /\ i \in 1 .. N /\ h = i + 1 /\ i < N
  BY <1>1
<1>7. blocks[i].space <= a /\ a < blocks[h].space
  BY <1>5
<1> HIDE DEF h
<1>8. CASE i = j
  BY <1>4, <1>6, <1>8
<1>9. CASE i < j
  <2>1. h = j \/ h < j
    BY <1>6, <1>9
  <2>2. blocks[h].space <= blocks[j].space
    BY <2>1, <1>2, <1>3, <1>6
  <2> QED BY <2>2, <1>2, <1>6, <1>7
<1>10. CASE j < i
  <2> DEFINE k == j + 1
  <2>1. k \in 1 .. N /\ k = j + 1 /\ j >= 1 /\ j \in Int /\ (k = i \/ k < i) /\ j < N
    BY <1>1, <1>6, <1>10
  <2> HIDE DEF k
  <2>2. blocks[j].free = blocks[k].space - blocks[j].space
    BY <2>1, <1>1, JoinedAt
  <2>3. blocks[k].space <= blocks[i].space
    BY <2>1, <1>2, <1>3, <1>6
  <2> QED BY <2>1, <2>2, <2>3, <1>2, <1>6, <1>7
<1> QED BY <1>6, <1>8, <1>9, <1>10

(* Every address of the arena is in the block before the first that starts *)
(* after it.                                                               *)
LEMMA BlockOf ==
  ASSUME Tiles(blocks), NEW a \in Int, Base <= a
  PROVE  \E j \in 1 .. N : blocks[j].space <= a /\ (j < N => a < blocks[j + 1].space)
<1>1. N \in Nat \ {0} /\ N = Len(blocks)
  BY TilesFields DEF N
<1>2. \A i \in 1 .. N : blocks[i].space \in Nat
  BY <1>1, TilesFields
<1>6. blocks[1].space <= a
  BY ArenaAssumption DEF Tiles
<1> DEFINE found == {i \in 1 .. N - 1 : a < blocks[i + 1].space}
           j == Min(found)
<1>3. CASE found = {}
  <2> SUFFICES blocks[N].space <= a
    BY <1>1
  <2>1. CASE N = 1
    BY <2>1, <1>6
  <2>2. CASE N > 1
    <3> DEFINE i == N - 1
    <3>1. i \in 1 .. N - 1 /\ i + 1 = N /\ N \in 1 .. N
      BY <2>2, <1>1
    <3> HIDE DEF i
    <3>2. ~(a < blocks[i + 1].space)
      BY <1>3, <3>1
    <3> QED BY <3>1, <3>2, <1>2
  <2> QED BY <2>1, <2>2, <1>1
<1>4. CASE found # {}
  <2>1. found \subseteq 1 .. N - 1 /\ N - 1 \in Nat
    BY <1>1
  <2>2. j \in found
    <3> HIDE DEF found
    <3> QED BY <1>4, <2>1, MinIsIn
  <2>3. \A i \in found : j <= i
    <3>1. j = Min(found)
      OBVIOUS
    <3> HIDE DEF found
    <3> QED BY <3>1, <1>4, <2>1, MinIsIn
  <2>4. j \in 1 .. N - 1 /\ a < blocks[j + 1].space
    BY <2>2
  <2> HIDE DEF j
  <2>5. blocks[j].space <= a
    <3>1. CASE j = 1
      BY <3>1, <1>6
    <3>2. CASE j > 1
      <4> DEFINE i == j - 1
      <4>1. i \in 1 .. N - 1 /\ i + 1 = j /\ ~(j <= i) /\ j \in 1 .. N
        BY <1>1, <2>4, <3>2
      <4> HIDE DEF i
      <4>2. ~(a < blocks[i + 1].space)
        BY <4>1, <2>3
      <4> QED BY <4>1, <4>2, <1>2
    <3> QED BY <3>1, <3>2, <2>4
  <2>6. j \in 1 .. N
    BY <1>1, <2>4
  <2> QED BY <2>4, <2>5, <2>6
<1> QED BY <1>3, <1>4

(* Unused bytes in a row are in one free block, or in the tail. *)
LEMMA UnusedIsFree ==
  ASSUME Tiles(blocks), live = Regions(blocks), NEW a \in Int, NEW size \in Nat \ {0},
         Base <= a, a + size <= Base + ArenaSize, Unused(a, a + size)
  PROVE  \E j \in 1 .. N : blocks[j].free >= size
<1>1. N \in Nat \ {0} /\ N = Len(blocks) /\ Base \in Nat /\ ArenaSize \in Nat
  BY TilesFields, ArenaAssumption DEF N
<1>2. \A i \in 1 .. N : blocks[i].space \in Nat /\ blocks[i].free \in Nat
  BY <1>1, TilesFields
<1>3. PICK j \in 1 .. N : blocks[j].space <= a /\ (j < N => a < blocks[j + 1].space)
  BY BlockOf
<1>4. \A b \in Int : a <= b /\ b < a + size =>
        \A region \in live : ~(region.ptr <= b /\ b < region.ptr + region.size)
  BY DEF Unused
<1>5. ASSUME NEW i \in 1 .. N - 1, blocks[i].free = 0, NEW b \in Int, a <= b, b < a + size,
             blocks[i].space <= b, b < blocks[i + 1].space
      PROVE  FALSE
  <2> DEFINE region == Region(blocks[i], blocks[i + 1])
  <2>1. region \in live
    BY <1>1, <1>5 DEF Regions, RegionsIn
  <2>2. region.ptr = blocks[i].space /\ region.ptr + region.size = blocks[i + 1].space
    BY RegionBytes
  <2> HIDE DEF region
  <2> QED BY <1>4, <1>5, <2>1, <2>2
<1>6. CASE j = N
  <2>1. blocks[N].space + blocks[N].free = Base + ArenaSize
    BY <1>1 DEF Tiles
  <2>2. blocks[j].free >= size
    BY <2>1, <1>1, <1>2, <1>3, <1>6
  <2> QED BY <2>2
<1>7. CASE j < N
  <2> DEFINE h == j + 1
  <2>1. h \in 1 .. N /\ h = j + 1 /\ j >= 1 /\ j \in Int /\ j \in 1 .. N - 1
    BY <1>1, <1>7
  <2>2. a < blocks[h].space
    BY <1>3, <1>7
  <2>3. blocks[j].free > 0
    <3>1. blocks[j].free # 0
      BY <1>1, <1>3, <1>5, <2>1, <2>2
    <3> QED BY <3>1, <1>2
  <2> HIDE DEF h
  <2>4. blocks[j].free = blocks[h].space - blocks[j].space /\ blocks[h].free = 0
    BY <1>1, <2>1, <2>3, JoinedAt
  <2>5. h < N
    <3>1. N > 1 /\ blocks[N - 1].free = 0
      BY <1>1, <1>7 DEF Tiles
    <3>2. h = N => j = N - 1
      BY <1>1, <2>1
    <3> QED BY <1>1, <2>1, <2>3, <3>1, <3>2
  <2>6. ~(blocks[h].space < a + size)
    <3> SUFFICES ASSUME blocks[h].space < a + size PROVE FALSE
      OBVIOUS
    <3> DEFINE k == h + 1
               b == blocks[h].space
    <3>1. k \in 1 .. N /\ k = h + 1 /\ h >= 1 /\ h \in Int /\ h \in 1 .. N - 1
      BY <1>1, <2>1, <2>5
    <3>2. blocks[h].space < blocks[k].space
      BY <1>1, <3>1, JoinedAt
    <3>3. b \in Int /\ a <= b /\ b < a + size /\ blocks[h].space <= b
      BY <1>2, <2>1, <2>2
    <3> QED BY <1>5, <2>4, <3>1, <3>2, <3>3
  <2>7. blocks[j].free >= size
    BY <1>1, <1>2, <1>3, <2>1, <2>4, <2>6
  <2> QED BY <2>7
<1> QED BY <1>1, <1>3, <1>6, <1>7

(* The holes of the allocator. *)
LEMMA HoleIsUnused ==
  ASSUME NEW a \in Nat, NEW size \in Nat \ {0}, Base <= a, TypeOK
  PROVE  a \in AllocatorSpec!Holes(size) <=> a + size <= Base + ArenaSize /\ Unused(a, a + size)
<1>1. Base \in Nat /\ ArenaSize \in Nat
  BY ArenaAssumption
<1>2. a \in AllocatorSpec!Holes(size)
        <=> /\ a \in Base .. Base + ArenaSize - 1
            /\ \A x \in a .. a + size - 1 :
                 /\ x \in Base .. Base + ArenaSize - 1
                 /\ \A region \in live : ~(x \in region.ptr .. region.ptr + region.size - 1)
  BY DEF AllocatorSpec!Holes, AllocatorSpec!Arena, AllocatorSpec!InUse, AllocatorSpec!Bytes
<1>3. \A region \in live : region.ptr \in Nat /\ region.size \in Nat
  <2> TAKE region \in live
  <2>1. live \subseteq [ptr: Base .. Base + ArenaSize, size: Sizes]
    BY Zenon DEF TypeOK
  <2>2. region.ptr \in Base .. Base + ArenaSize /\ region.size \in Sizes
    BY <2>1
  <2>3. Base \in Nat /\ ArenaSize \in Nat /\ Sizes \subseteq Nat
    BY ArenaAssumption
  <2>4. Base .. Base + ArenaSize \subseteq Nat
    BY <2>3
  <2> QED BY <2>2, <2>3, <2>4, Zenon
<1>4. ASSUME a \in AllocatorSpec!Holes(size) PROVE a + size <= Base + ArenaSize /\ Unused(a, a + size)
  <2>1. a + size - 1 \in a .. a + size - 1
    OBVIOUS
  <2>2. a + size - 1 \in Base .. Base + ArenaSize - 1
    BY <1>2, <1>4, <2>1
  <2>3. ASSUME NEW x \in Int, a <= x, x < a + size, NEW region \in live
        PROVE  ~(region.ptr <= x /\ x < region.ptr + region.size)
    <3>1. x \in a .. a + size - 1
      BY <2>3
    <3>2. ~(x \in region.ptr .. region.ptr + region.size - 1)
      BY <1>2, <1>4, <3>1
    <3> QED BY <3>2, <1>3
  <2> QED BY <2>2, <2>3, <1>1 DEF Unused
<1>5. ASSUME a + size <= Base + ArenaSize, Unused(a, a + size) PROVE a \in AllocatorSpec!Holes(size)
  <2>1. a \in Base .. Base + ArenaSize - 1
    BY <1>1, <1>5
  <2>2. ASSUME NEW x \in a .. a + size - 1
        PROVE  /\ x \in Base .. Base + ArenaSize - 1
               /\ \A region \in live : ~(x \in region.ptr .. region.ptr + region.size - 1)
    <3>1. x \in Int /\ a <= x /\ x < a + size
      OBVIOUS
    <3>2. \A region \in live : ~(region.ptr <= x /\ x < region.ptr + region.size)
      BY <1>5, <3>1 DEF Unused
    <3> QED BY <1>1, <1>3, <1>5, <3>1, <3>2
  <2> QED BY <1>2, <2>1, <2>2
<1> QED BY <1>4, <1>5

(* A malloc is one of the allocator: what is served lies in one free       *)
(* block, so in a hole; what is refused fits in no free block, so in no    *)
(* hole.                                                                   *)
LEMMA MallocRefines ==
  ASSUME Inv, AlignedAnywhere = FALSE, NEW size \in Sizes, NEW alignment \in Alignments,
         Malloc(size, alignment)
  PROVE  AllocatorSpec!Malloc(size, alignment)
<1> DEFINE m == MallocResult(size, alignment)
<1>1. size \in Nat /\ alignment \in Nat /\ Tiles(blocks) /\ live = Regions(blocks) /\ TypeOK
  BY ArenaAssumption DEF Inv
<1>2. /\ alignment > 1 => TailHasRoom(size, alignment)
      /\ ret' = [size |-> size, alignment |-> alignment, ptr |-> m.ptr]
      /\ live' = IF m.ptr = NULL THEN live ELSE live \cup {[ptr |-> m.ptr, size |-> size]}
  BY DEF Malloc
<1> HIDE DEF m
<1>3. \/ /\ m.ptr = NULL
         /\ size = 0 \/ \A j \in 1 .. N : blocks[j].free < size
      \/ size > 0 /\ Serves(m, size, alignment)
  BY <1>1, <1>2, MallocServes DEF m
<1>10. Base \in Nat \ {0} /\ ArenaSize \in Nat
  BY ArenaAssumption
<1>4. CASE size > 0 /\ Serves(m, size, alignment)
  <2> DEFINE a == m.ptr
  <2>1. a \in Base .. Base + ArenaSize /\ a # NULL /\ a + size <= Base + ArenaSize
    BY <1>1, <1>4, ServedInArena
  <2>2. PICK j \in 1 .. N : /\ j < N => blocks[j].free > 0
                            /\ a \in Nat /\ blocks[j].space <= a
                            /\ a + size <= blocks[j].space + blocks[j].free
    BY <1>4 DEF Serves
  <2>3. Unused(blocks[j].space, blocks[j].space + blocks[j].free)
    BY <1>1, <2>2, FreeIsUnused
  <2>4. blocks[j].space \in Nat /\ blocks[j].free \in Nat
    BY <1>1, TilesFields DEF N
  <2>8. alignment > 1 => a % alignment = 0
    BY <1>4 DEF Serves
  <2>9. /\ live' = live \cup {[ptr |-> a, size |-> size]}
        /\ ret' = [size |-> size, alignment |-> alignment, ptr |-> a]
    BY <1>2, <2>1
  <2> HIDE DEF a
  <2>5. Unused(a, a + size)
    BY <1>1, <2>2, <2>3, <2>4 DEF Unused
  <2>6. a \in AllocatorSpec!Holes(size)
    BY <1>1, <1>4, <1>10, <2>1, <2>2, <2>5, HoleIsUnused
  <2>7. AllocatorSpec!Aligned(a, alignment)
    BY <2>8 DEF AllocatorSpec!Aligned
  <2> QED BY <1>4, <2>6, <2>7, <2>9 DEF AllocatorSpec!Malloc
<1>5. CASE m.ptr = NULL /\ size = 0
  BY <1>2, <1>5 DEF AllocatorSpec!Malloc, AllocatorSpec!NULL, NULL
<1>6. CASE m.ptr = NULL /\ size > 0 /\ \A j \in 1 .. N : blocks[j].free < size
  <2>1. AllocatorSpec!Holes(size) = {}
    <3> SUFFICES ASSUME NEW a \in AllocatorSpec!Holes(size) PROVE FALSE
      OBVIOUS
    <3>1. a \in Nat /\ Base <= a
      BY <1>10 DEF AllocatorSpec!Holes, AllocatorSpec!Arena
    <3>2. a + size <= Base + ArenaSize /\ Unused(a, a + size)
      BY <1>1, <1>6, <3>1, HoleIsUnused
    <3>3. PICK j \in 1 .. N : blocks[j].free >= size
      BY <1>1, <1>6, <3>1, <3>2, UnusedIsFree
    <3>4. blocks[j].free \in Nat /\ blocks[j].free < size
      BY <1>1, <1>6, TilesFields DEF N
    <3> QED BY <1>1, <3>3, <3>4
  <2> QED BY <1>2, <1>6, <2>1 DEF AllocatorSpec!Malloc, AllocatorSpec!NULL, NULL
<1> QED BY <1>1, <1>3, <1>4, <1>5, <1>6

(* The block list implements the allocator: in particular pelib_mem_malloc *)
(* returns NULL only when no hole of the arena is large enough, and what   *)
(* it returns is aligned.                                                  *)
THEOREM ArenaRefines ==
  ASSUME AlignedAnywhere = FALSE
  PROVE  Spec => ImplementsAllocator
<1>1. Init => AllocatorSpec!Init
  BY DEF Init, AllocatorSpec!Init, AllocatorSpec!NULL, NULL
<1>2. Inv /\ [Next]_vars => [AllocatorSpec!Next]_(AllocatorSpec!vars)
  <2> SUFFICES ASSUME Inv, [Next]_vars PROVE [AllocatorSpec!Next]_(AllocatorSpec!vars)
    OBVIOUS
  <2>1. CASE \E size \in Sizes, alignment \in Alignments : Malloc(size, alignment)
    <3>1. PICK size \in Sizes, alignment \in Alignments : Malloc(size, alignment)
      BY <2>1
    <3>2. AllocatorSpec!Malloc(size, alignment)
      BY <3>1, MallocRefines
    <3> QED BY <3>2 DEF AllocatorSpec!Next
  <2>2. CASE \E ptr \in Base .. Base + ArenaSize : Free(ptr)
    <3>1. PICK ptr \in Base .. Base + ArenaSize : Free(ptr)
      BY <2>2
    <3>2. AllocatorSpec!Free(ptr)
      BY <3>1 DEF Free, AllocatorSpec!Free
    <3> QED BY <3>2 DEF AllocatorSpec!Next
  <2>3. CASE UNCHANGED vars
    BY <2>3 DEF vars, AllocatorSpec!vars
  <2> QED BY <2>1, <2>2, <2>3 DEF Next
<1> QED BY <1>1, <1>2, Invariant, PTL DEF Spec, ImplementsAllocator, AllocatorSpec!Spec
=============================================================================
