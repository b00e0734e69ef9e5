----------------------------- MODULE FifoProofs -----------------------------
(***************************************************************************)
(* The theorems about modules Fifo and FifoPipe.  Of Fifo, TypeOK alone is *)
(* inductive, but the refinement is not: fill commits what sits in the     *)
(* free slots, so one has to know that the staged elements sit there.      *)
(* Hence the invariant IInv, TypeOK and StagedInPlace, which every action  *)
(* keeps while it does a step of BoundedQueue.                             *)
(***************************************************************************)
EXTENDS Fifo, FifoPipe, CFifoProofs

(* pelib_alloc_struct and pelib_init give an empty fifo. *)
LEMMA InitFifoLemma ==
  ASSUME NEW c \in Nat \ {0}, NEW buffer \in [0 .. c - 1 -> Value]
  PROVE  InitFifo(buffer, c) \in CFifoOf(c) /\ Length(InitFifo(buffer, c)) = 0
  BY DEF InitFifo, CFifoOf, Length, State

(* pelib_cfifo_from_array gives a fifo as long as the array, a full one when *)
(* the array has no room left.                                               *)
LEMMA FromArrayLemma ==
  ASSUME NEW c \in Nat \ {0}, NEW buffer \in [0 .. c - 1 -> Value], NEW length \in 0 .. c
  PROVE  /\ FromArray(buffer, c, length) \in CFifoOf(c)
         /\ Length(FromArray(buffer, c, length)) = length
<1> DEFINE f == FromArray(buffer, c, length)
<1>1. length % c = IF length < c THEN length ELSE 0
  <2>1. (0 + length) % c = IF 0 + length < c THEN 0 + length ELSE 0 + length - c
    <3>1. 0 \in 0 .. c - 1
      OBVIOUS
    <3> QED BY <3>1, ModWrap
  <2> QED BY <2>1
<1>2. /\ f.read = 0 /\ f.write = (IF length < c THEN length ELSE 0) /\ f.capacity = c
      /\ f.last_op = (IF length > 0 THEN "PUSH" ELSE "POP") /\ f.buffer = buffer
  BY <1>1 DEF FromArray
<1>3. f \in CFifoOf(c)
  BY <1>1 DEF FromArray, CFifoOf
<1> HIDE DEF f
<1>4. Length(f) = length
  BY <1>2 DEF Length, State
<1> QED BY <1>3, <1>4 DEF f

(* Writing in place through the windows of writeaddr reaches the k-th slot *)
(* after the content.                                                      *)
LEMMA StageSlotLemma ==
  ASSUME NEW c \in Nat \ {0}, NEW f \in CFifoOf(c), NEW k \in Nat, k < c - Length(f)
  PROVE  StageSlot(f, k) = Slot(f, Length(f) + k)
<1>1. PICK r \in Nat, w \in Nat, L \in Nat :
        /\ r = f.read /\ w = f.write /\ L = Length(f) /\ r < c /\ w < c /\ L <= c
  BY FieldTypes, LengthCases
<1>2. f.capacity = c /\ f.last_op \in {"PUSH", "POP"}
  BY FieldTypes
<1>3. L = IF r = w THEN IF f.last_op = "POP" THEN 0 ELSE c
          ELSE IF r < w THEN w - r ELSE c - (r - w)
  BY <1>1, LengthCases
<1>a. r < c /\ w < c /\ L <= c /\ k < c - L
  BY <1>1
<1>4. Slot(f, Length(f) + k) = IF w + k < c THEN w + k ELSE w + k - c
  <2>1. k \in 0 .. c - Length(f)
    BY <1>1
  <2> QED BY <1>1, <2>1, SlotAfterWrite
<1> DEFINE avail == ContinuousWriteLength(f)
           next == (w + avail) % c
<1>5. StageSlot(f, k) = IF k < avail THEN w + k
                        ELSE (IF next # r THEN next ELSE NULL) + (k - avail)
  BY <1>1, <1>2 DEF StageSlot, WriteAddr
<1>6. CASE r < w \/ (r = w /\ f.last_op = "POP")
  <2>1. avail = c - w
    BY <1>1, <1>2, <1>6 DEF ContinuousWriteLength, State
  <2>2. next = 0
    <3>1. w + avail = c
      BY <2>1
    <3>2. c % c = 0
      OBVIOUS
    <3> QED BY <3>1, <3>2
  <2> HIDE DEF avail, next
  <2>3. CASE k < c - w
    BY <1>4, <1>5, <1>a, <2>1, <2>3
  <2>4. CASE ~ k < c - w
    <3>1. r # 0
      BY <1>3, <1>6, <1>a, <2>4
    <3>2. StageSlot(f, k) = 0 + (k - (c - w))
      BY <1>5, <2>1, <2>2, <2>4, <3>1
    <3> QED BY <1>4, <1>a, <2>4, <3>2
  <2> QED BY <2>3, <2>4
<1>7. CASE w < r
  <2>1. avail = r - w
    BY <1>1, <1>2, <1>7 DEF ContinuousWriteLength, State
  <2> HIDE DEF avail, next
  <2>2. k < avail /\ w + k < c
    BY <1>3, <1>7, <1>a, <2>1
  <2> QED BY <1>4, <1>5, <2>2
<1>8. CASE r = w /\ f.last_op # "POP"
  BY <1>3, <1>8, <1>a
<1> QED BY <1>6, <1>7, <1>8

-----------------------------------------------------------------------------
(* st sits in the free slots of f that follow the content. *)
InPlace(f, st) ==
  /\ Len(st) <= Capacity - Length(f)
  /\ \A k \in 1 .. Len(st) : f.buffer[Slot(f, Length(f) + k - 1)] = st[k]

(* Removing elements disturbs nothing that was written in place. *)
LEMMA InPlaceKept ==
  ASSUME NEW f \in CFifoOf(Capacity), NEW g \in CFifoOf(Capacity), NEW st \in Seq(Value),
         InPlace(f, st), g.write = f.write, g.buffer = f.buffer, Length(g) <= Length(f)
  PROVE  InPlace(g, st)
<1>0. PICK c \in Nat \ {0} : c = Capacity
  BY CapacityAssumption
<1>1. PICK L \in 0 .. c, M \in 0 .. c : L = Length(f) /\ M = Length(g) /\ M <= L
  BY <1>0, LengthCases
<1>2. Len(st) \in Nat /\ Len(st) <= c - L
  BY <1>0, <1>1 DEF InPlace
<1>3. Len(st) <= c - M
  BY <1>1, <1>2, <1>0
<1>4. ASSUME NEW k \in 1 .. Len(st) PROVE g.buffer[Slot(g, M + k - 1)] = st[k]
  <2>1. k - 1 \in 0 .. c - L /\ k - 1 \in 0 .. c - M
    BY <1>0, <1>1, <1>2
  <2>2. M + k - 1 = M + (k - 1) /\ L + k - 1 = L + (k - 1)
    BY <1>1
  <2>3. Slot(f, L + (k - 1)) = IF f.write + (k - 1) < c THEN f.write + (k - 1)
                               ELSE f.write + (k - 1) - c
    BY <1>0, <1>1, <2>1, SlotAfterWrite
  <2>4. Slot(g, M + (k - 1)) = IF g.write + (k - 1) < c THEN g.write + (k - 1)
                               ELSE g.write + (k - 1) - c
    BY <1>0, <1>1, <2>1, SlotAfterWrite
  <2>5. f.buffer[Slot(f, L + k - 1)] = st[k]
    BY <1>1 DEF InPlace
  <2> QED BY <2>2, <2>3, <2>4, <2>5
<1> QED BY <1>0, <1>1, <1>3, <1>4 DEF InPlace

(* Writing the next free slot in place adds it to the staged elements and  *)
(* leaves the content alone.                                               *)
LEMMA StageLemma ==
  ASSUME NEW f \in CFifoOf(Capacity), NEW st \in Seq(Value), InPlace(f, st),
         NEW elem \in Value, Len(st) < Capacity - Length(f),
         NEW g, g = [f EXCEPT !.buffer = [@ EXCEPT ![StageSlot(f, Len(st))] = elem]]
  PROVE  /\ g \in CFifoOf(Capacity)
         /\ InPlace(g, Append(st, elem))
         /\ Content(g) = Content(f)
<1>0. PICK c \in Nat \ {0} : c = Capacity
  BY CapacityAssumption
<1>1. PICK L \in 0 .. c, m \in Nat : L = Length(f) /\ m = Len(st) /\ m < c - L
  BY <1>0, LengthCases
<1>2. m < c - L /\ L + m < c /\ L + m \in 0 .. c - 1 /\ L + m \in 0 .. c
  BY <1>0, <1>1
<1>3. StageSlot(f, Len(st)) = Slot(f, L + m)
  BY <1>0, <1>1, StageSlotLemma
<1>4. PICK x \in 0 .. c - 1 : x = Slot(f, L + m)
  BY <1>0, <1>2, SlotValue
<1>5. f.buffer \in [0 .. c - 1 -> Value] /\ f.capacity = c
  BY <1>0, FieldTypes
<1>6. g = [f EXCEPT !.buffer = [f.buffer EXCEPT ![x] = elem]]
  BY <1>3, <1>4
<1>7. [f.buffer EXCEPT ![x] = elem] \in [0 .. c - 1 -> Value]
  BY <1>5
<1>8. g \in CFifoOf(c)
  BY <1>0, <1>6, <1>7 DEF CFifoOf
<1>9. /\ g.read = f.read /\ g.write = f.write /\ g.last_op = f.last_op
      /\ g.capacity = f.capacity /\ g.buffer = [f.buffer EXCEPT ![x] = elem]
  BY <1>6 DEF CFifoOf
<1>10. Length(g) = L /\ \A k : Slot(g, k) = Slot(f, k)
  BY <1>1, <1>9 DEF Length, State, Slot
<1>11. \A k \in 0 .. c - 1 : k # L + m => g.buffer[Slot(f, k)] = f.buffer[Slot(f, k)]
  <2> SUFFICES ASSUME NEW k \in 0 .. c - 1, k # L + m
               PROVE  g.buffer[Slot(f, k)] = f.buffer[Slot(f, k)]
    OBVIOUS
  <2>1. Slot(f, k) # x
    BY <1>0, <1>2, <1>4, SlotsDistinct
  <2>2. k \in 0 .. c
    BY <1>0
  <2>3. Slot(f, k) \in 0 .. c - 1
    BY <1>0, <2>2, SlotValue
  <2> QED BY <1>5, <1>9, <2>1, <2>3
<1>12. Content(g) = Content(f)
  <2>1. \A i \in 1 .. L : i - 1 \in 0 .. c - 1 /\ i - 1 # L + m
    BY <1>1, <1>2
  <2>2. \A i \in 1 .. L : g.buffer[Slot(g, i - 1)] = f.buffer[Slot(f, i - 1)]
    BY <2>1, <1>10, <1>11
  <2> QED BY <2>2, <1>1, <1>10 DEF Content
<1>13. InPlace(g, Append(st, elem))
  <2>1. /\ Len(Append(st, elem)) = m + 1
        /\ \A k \in 1 .. m + 1 : Append(st, elem)[k] = IF k <= m THEN st[k] ELSE elem
    BY <1>1
  <2>2. m + 1 <= c - L
    BY <1>0, <1>1
  <2>3. ASSUME NEW k \in 1 .. m + 1
        PROVE  g.buffer[Slot(g, L + k - 1)] = Append(st, elem)[k]
    <3>1. CASE k <= m
      <4>1. k \in 1 .. Len(st) /\ L + k - 1 \in 0 .. c - 1 /\ L + k - 1 # L + m
        <5>1. m = Len(st) /\ m < c - L
          BY <1>1
        <5> QED BY <5>1, <3>1
      <4>2. g.buffer[Slot(g, L + k - 1)] = f.buffer[Slot(f, L + k - 1)]
        BY <4>1, <1>10, <1>11
      <4>3. f.buffer[Slot(f, L + k - 1)] = st[k]
        BY <4>1, <1>1 DEF InPlace
      <4> QED BY <4>2, <4>3, <2>1, <3>1
    <3>2. CASE ~ k <= m
      <4>1. L + k - 1 = L + m
        BY <1>1, <3>2
      <4>2. g.buffer[Slot(g, L + k - 1)] = elem
        <5>1. Slot(g, L + k - 1) = x
          BY <4>1, <1>4, <1>10
        <5>2. g.buffer[x] = elem
          BY <1>5, <1>9
        <5> QED BY <5>1, <5>2
      <4> QED BY <4>2, <2>1, <3>2
    <3> QED BY <3>1, <3>2
  <2> QED BY <1>0, <2>1, <2>2, <2>3, <1>10 DEF InPlace
<1> QED BY <1>0, <1>8, <1>12, <1>13

(* fill commits the first slots after the content: the staged elements     *)
(* among them join it in order, the others stay in place.                  *)
LEMMA CommitLemma ==
  ASSUME NEW f \in CFifoOf(Capacity), NEW st \in Seq(Value), InPlace(f, st), NEW num \in Nat
  PROVE  LET n == FillCount(f, num)
             m == Least(n, Len(st))
         IN /\ n \in Nat /\ m \in Nat /\ m <= n
            /\ n = Least(Capacity - Len(Content(f)), num)
            /\ Fill(f, num) \in CFifoOf(Capacity)
            /\ SubSeq(st, m + 1, Len(st)) \in Seq(Value)
            /\ InPlace(Fill(f, num), SubSeq(st, m + 1, Len(st)))
            /\ \E junk \in [1 .. n - m -> Value] :
                 Content(Fill(f, num)) = Content(f) \o SubSeq(st, 1, m) \o junk
<1> SUFFICES ASSUME NEW n, n = FillCount(f, num), NEW m, m = Least(n, Len(st))
             PROVE  /\ n \in Nat /\ m \in Nat /\ m <= n
                    /\ n = Least(Capacity - Len(Content(f)), num)
                    /\ Fill(f, num) \in CFifoOf(Capacity)
                    /\ SubSeq(st, m + 1, Len(st)) \in Seq(Value)
                    /\ InPlace(Fill(f, num), SubSeq(st, m + 1, Len(st)))
                    /\ \E junk \in [1 .. n - m -> Value] :
                         Content(Fill(f, num)) = Content(f) \o SubSeq(st, 1, m) \o junk
  OBVIOUS
<1>0. PICK c \in Nat \ {0} : c = Capacity
  BY CapacityAssumption
<1> DEFINE g == Fill(f, num)
           rest == SubSeq(st, m + 1, Len(st))
<1>1. /\ n \in 0 .. c - Length(f) /\ n = Least(c - Len(Content(f)), num) /\ g \in CFifoOf(c)
      /\ g.buffer = f.buffer /\ Length(g) = Length(f) + n
      /\ \A k \in 0 .. c : Slot(g, k) = Slot(f, k)
  BY <1>0, FillFields
<1>2. PICK L \in 0 .. c, p \in Nat : L = Length(f) /\ p = Len(st) /\ p <= c - L
  BY <1>0, LengthCases DEF InPlace
<1>3. n \in Nat /\ n <= c - L
  BY <1>0, <1>1, <1>2
<1>4. m \in Nat /\ m <= n /\ m <= p /\ (m < n => m = p)
  BY <1>2, <1>3 DEF Least
<1>5. \A k \in 1 .. p : f.buffer[Slot(f, L + k - 1)] = st[k]
  BY <1>2 DEF InPlace
<1>6. rest \in Seq(Value) /\ Len(rest) = p - m /\ \A k \in 1 .. p - m : rest[k] = st[m + k]
  <2>1. p = Len(st)
    BY <1>2
  <2> QED BY <2>1, <1>4
<1> HIDE DEF g, rest
<1>7. InPlace(g, rest)
  <2>1. p - m <= c - (L + n)
    <3>1. CASE m < n
      BY <1>3, <1>4, <3>1
    <3>2. CASE m = n
      <4>1. p <= c - L
        BY <1>2
      <4> QED BY <4>1, <1>3, <3>2
    <3> QED BY <3>1, <3>2, <1>3, <1>4
  <2>2. ASSUME NEW k \in 1 .. p - m PROVE g.buffer[Slot(g, (L + n) + k - 1)] = rest[k]
    <3>1. m = n
      BY <1>2, <1>3, <1>4
    <3>2. /\ m + k \in 1 .. p /\ L + (m + k) - 1 = (L + n) + k - 1
          /\ L + (m + k) - 1 \in 0 .. c
      <4>1. p <= c - L /\ k <= p - m /\ k \in Nat /\ k >= 1
        BY <1>2, <1>4
      <4>2. m + k \in 1 .. p
        BY <4>1, <1>4
      <4>3. L + (m + k) - 1 \in 0 .. c
        BY <4>1, <4>2
      <4>4. L + (m + k) - 1 = (L + n) + k - 1
        BY <3>1, <1>3
      <4> QED BY <4>2, <4>3, <4>4
    <3>3. f.buffer[Slot(f, L + (m + k) - 1)] = st[m + k] /\ rest[k] = st[m + k]
      BY <3>2, <1>5, <1>6
    <3>4. g.buffer[Slot(g, L + (m + k) - 1)] = f.buffer[Slot(f, L + (m + k) - 1)]
      BY <3>2, <1>1
    <3> QED BY <3>2, <3>3, <3>4
  <2> QED BY <1>0, <2>1, <2>2, <1>1, <1>2, <1>6 DEF InPlace
<1> DEFINE junk == [i \in 1 .. n - m |-> f.buffer[Slot(f, L + m + i - 1)]]
           front == SubSeq(st, 1, m)
<1>8. /\ junk \in [1 .. n - m -> Value] /\ junk \in Seq(Value) /\ Len(junk) = n - m
      /\ \A i \in 1 .. n - m : junk[i] = f.buffer[Slot(f, L + m + i - 1)]
  <2>1. f.buffer \in [0 .. c - 1 -> Value]
    BY <1>0, FieldTypes
  <2>2. \A i \in 1 .. n - m : L + m + i - 1 \in 0 .. c
    BY SMTT(60), <1>0, <1>2, <1>3, <1>4
  <2>3. \A i \in 1 .. n - m : Slot(f, L + m + i - 1) \in 0 .. c - 1
    BY <1>0, <2>2, SlotValue
  <2>4. \A i \in 1 .. n - m : f.buffer[Slot(f, L + m + i - 1)] \in Value
    BY <2>1, <2>3
  <2>5. n - m \in Nat
    BY <1>3, <1>4
  <2> QED BY <2>4, <2>5
<1>9. front \in Seq(Value) /\ Len(front) = m /\ \A i \in 1 .. m : front[i] = st[i]
  BY <1>2, <1>4
<1> HIDE DEF junk, front
<1>10. /\ front \o junk \in Seq(Value) /\ Len(front \o junk) = n
       /\ \A i \in 1 .. n : (front \o junk)[i] = IF i <= m THEN front[i] ELSE junk[i - m]
  <2>1. /\ front \o junk \in Seq(Value) /\ Len(front \o junk) = Len(front) + Len(junk)
        /\ \A i \in 1 .. Len(front) + Len(junk) :
             (front \o junk)[i] = IF i <= Len(front) THEN front[i] ELSE junk[i - Len(front)]
    BY ZenonT(60), <1>8, <1>9, ConcatProperties
  <2>2. m + (n - m) = n
    BY <1>3, <1>4
  <2> QED BY <2>1, <2>2, <1>8, <1>9
<1> DEFINE s == front \o junk
<1> HIDE DEF s
<1>11. \A i \in 1 .. n : s[i] = f.buffer[Slot(f, L + i - 1)]
  <2> SUFFICES ASSUME NEW i \in 1 .. n PROVE s[i] = f.buffer[Slot(f, L + i - 1)]
    OBVIOUS
  <2>1. CASE i <= m
    <3>1. i \in 1 .. m /\ i \in 1 .. p
      BY <1>2, <1>4, <2>1
    <3> QED BY <3>1, <2>1, <1>5, <1>9, <1>10 DEF s
  <2>2. CASE ~ i <= m
    <3>1. i - m \in 1 .. n - m /\ L + m + (i - m) - 1 = L + i - 1
      BY <1>2, <1>3, <1>4, <2>2
    <3>2. s[i] = junk[i - m]
      BY <2>2, <1>10 DEF s
    <3> QED BY <3>1, <3>2, <1>8
  <2> QED BY <2>1, <2>2
<1>12. Content(g) = Content(f) \o s
  <2>1. s \in Seq(Value) /\ Len(s) = FillCount(f, num)
    BY <1>10 DEF s
  <2>2. \A i \in 1 .. Len(s) : s[i] = f.buffer[Slot(f, Length(f) + i - 1)]
    BY <2>1, <1>2, <1>11
  <2> QED BY <2>1, <2>2, <1>0, FillContent DEF g
<1>13. Content(f) \o s = (Content(f) \o front) \o junk
  <2>1. Content(f) \in Seq(Value)
    BY <1>0, ContentType
  <2> QED BY <2>1, <1>8, <1>9, Associative DEF s
<1> QED BY <1>0, <1>1, <1>3, <1>4, <1>6, <1>7, <1>8, <1>12, <1>13 DEF g, rest, front

-----------------------------------------------------------------------------
(* The inductive invariant. *)
IInv == TypeOK /\ StagedInPlace

(* What IInv says, as the lemmas about the struct use it. *)
LEMMA IInvFacts ==
  ASSUME IInv
  PROVE  /\ Capacity \in Nat \ {0} /\ fifo \in CFifoOf(Capacity) /\ staged \in Seq(Value)
         /\ call.num \in Nat /\ call.data \in Seq(Value) /\ InPlace(fifo, staged)
         /\ Content(fifo) \in Seq(Value) /\ Len(Content(fifo)) = Length(fifo)
         /\ Length(fifo) \in 0 .. Capacity
<1>1. Capacity \in Nat \ {0}
  BY CapacityAssumption
<1>2. /\ fifo \in CFifoOf(Capacity) /\ staged \in Seq(Value)
      /\ call.num \in Nat /\ call.data \in Seq(Value)
  BY DEF IInv, TypeOK
<1>3. InPlace(fifo, staged)
  BY DEF IInv, StagedInPlace, InPlace
<1> QED BY <1>1, <1>2, <1>3, ContentType, LengthCases

(* How IInv is established for the next state. *)
LEMMA IInvNext ==
  ASSUME fifo' \in CFifoOf(Capacity), staged' \in Seq(Value),
         call'.num \in Nat, call'.data \in Seq(Value), InPlace(fifo', staged')
  PROVE  IInv'
  BY DEF IInv, TypeOK, StagedInPlace, InPlace

(* Nothing staged is trivially in place. *)
LEMMA NothingStaged ==
  ASSUME NEW f \in CFifoOf(Capacity)
  PROVE  InPlace(f, <<>>)
<1>1. Length(f) \in 0 .. Capacity
  BY LengthCases, CapacityAssumption
<1>2. Len(<<>>) <= Capacity - Length(f)
  BY <1>1, CapacityAssumption
<1> QED BY <1>2 DEF InPlace

(* A fifo just made satisfies the invariant and is a bounded queue just made. *)
THEOREM InitCorrect == Init => IInv /\ Queue!Init
<1> SUFFICES ASSUME Init PROVE IInv /\ Queue!Init
  OBVIOUS
<1>1. Capacity \in Nat \ {0}
  BY CapacityAssumption
<1>2. fifo \in CFifoOf(Capacity)
  BY <1>1, InitFifoLemma, FromArrayLemma DEF Init
<1>3. staged = <<>> /\ call = [asked |-> <<>>, num |-> 0, data |-> <<>>]
  BY DEF Init
<1>4. InPlace(fifo, staged)
  BY <1>2, <1>3, NothingStaged
<1>5. IInv
  BY <1>2, <1>3, <1>4 DEF IInv, TypeOK, StagedInPlace, InPlace
<1>6. Content(fifo) \in [1 .. Length(fifo) -> Value] /\ Length(fifo) \in 0 .. Capacity
  <2>1. Content(fifo) \in Seq(Value) /\ Len(Content(fifo)) = Length(fifo)
    BY <1>1, <1>2, ContentType
  <2>2. Length(fifo) \in 0 .. Capacity
    BY <1>1, <1>2, LengthCases
  <2> QED BY <2>1, <2>2
<1>7. Queue!Init
  BY <1>3, <1>6 DEF Queue!Init
<1> QED BY <1>5, <1>7

(* push keeps the invariant and is a push on the queue. *)
LEMMA PushElemStep ==
  ASSUME IInv, NEW elem \in Value, PushElem(elem)
  PROVE  IInv' /\ Queue!Push(elem)
<1> USE DEF Returns, Queue!Returns
<1>1. /\ Capacity \in Nat \ {0} /\ fifo \in CFifoOf(Capacity)
      /\ Content(fifo) \in Seq(Value) /\ Len(Content(fifo)) = Length(fifo)
      /\ Length(fifo) \in 0 .. Capacity
  BY IInvFacts
<1>2. staged = <<>> /\ staged' = <<>>
  BY DEF PushElem
<1>3. CASE CanPush(fifo)
  <2>1. fifo' = Push(fifo, elem) /\ call' = [asked |-> <<"push", elem>>, num |-> 1, data |-> <<>>]
    BY <1>3 DEF PushElem
  <2>2. /\ Length(fifo) < Capacity /\ fifo' \in CFifoOf(Capacity)
        /\ Content(fifo') = Append(Content(fifo), elem)
    BY <1>1, <1>3, <2>1, PushLemma
  <2>3. IInv'
    BY <1>2, <2>1, <2>2, NothingStaged, IInvNext
  <2>4. Queue!Push(elem)
    BY <1>1, <1>2, <2>1, <2>2 DEF Queue!Push, Queue!Free
  <2> QED BY <2>3, <2>4
<1>4. CASE ~ CanPush(fifo)
  <2>1. fifo' = fifo /\ call' = [asked |-> <<"push", elem>>, num |-> 0, data |-> <<>>]
    BY <1>4 DEF PushElem
  <2>2. Length(fifo) = Capacity
    BY <1>1, <1>4, FieldTypes, LengthCases DEF CanPush
  <2>3. IInv'
    BY <1>1, <1>2, <2>1, NothingStaged, IInvNext
  <2>4. Queue!Push(elem)
    BY <1>1, <1>2, <2>1, <2>2 DEF Queue!Push, Queue!Free
  <2> QED BY <2>3, <2>4
<1> QED BY <1>3, <1>4

(* pop keeps the invariant and is a pop on the queue. *)
LEMMA PopElemStep ==
  ASSUME IInv, PopElem
  PROVE  IInv' /\ Queue!Pop
<1> USE DEF Returns, Queue!Returns
<1>1. /\ Capacity \in Nat \ {0} /\ fifo \in CFifoOf(Capacity) /\ staged \in Seq(Value)
      /\ Content(fifo) \in Seq(Value) /\ Len(Content(fifo)) = Length(fifo)
      /\ Length(fifo) \in 0 .. Capacity /\ InPlace(fifo, staged)
  BY IInvFacts
<1>2. /\ fifo' = Pop(fifo) /\ staged' = staged
      /\ call' = [asked |-> <<"pop">>, num |-> 1, data |-> <<Peek(fifo, 0)>>]
  BY DEF PopElem
<1>3. fifo' = Discard(fifo, 1)
  BY <1>1, <1>2, PopLemma
<1>4. PICK n : n = DiscardCount(fifo, 1)
  OBVIOUS
<1>5. /\ DiscardCount(fifo, 1) \in 0 .. Length(fifo)
      /\ Discard(fifo, 1) \in CFifoOf(Capacity)
      /\ Discard(fifo, 1).buffer = fifo.buffer /\ Discard(fifo, 1).write = fifo.write
  <2>1. 1 \in Nat
    OBVIOUS
  <2> QED BY <1>1, <2>1, DiscardFields
<1>6. /\ n = Least(1, Len(Content(fifo)))
      /\ Length(Discard(fifo, 1)) = Length(fifo) - n
      /\ Content(Discard(fifo, 1)) = SubSeq(Content(fifo), n + 1, Len(Content(fifo)))
  <2>1. 1 \in Nat
    OBVIOUS
  <2> QED BY <1>1, <1>4, <2>1, DiscardContent
<1>7. Length(fifo') <= Length(fifo)
  BY <1>1, <1>3, <1>4, <1>5, <1>6
<1>8. InPlace(fifo', staged')
  BY <1>1, <1>2, <1>3, <1>5, <1>7, InPlaceKept
<1>9. Peek(fifo, 0) = IF 0 < Length(fifo) THEN Content(fifo)[0 + 1] ELSE Default
  <2>1. 0 \in Nat
    OBVIOUS
  <2> QED BY <1>1, <2>1, PeekLemma
<1>10. CASE Length(fifo) > 0
  <2>1. Content(fifo) # <<>> /\ Peek(fifo, 0) = Head(Content(fifo)) /\ Peek(fifo, 0) \in Value
    BY <1>1, <1>9, <1>10
  <2>2. n = 1
    BY <1>1, <1>6, <1>10 DEF Least
  <2>3. Content(fifo') = Tail(Content(fifo))
    <3>1. Tail(Content(fifo)) = SubSeq(Content(fifo), 2, Len(Content(fifo)))
      BY <1>1, <2>1, TailIsSubSeq
    <3>2. n + 1 = 2
      BY <2>2
    <3> QED BY <1>3, <1>6, <3>1, <3>2
  <2>4. IInv'
    BY <1>1, <1>2, <1>3, <1>5, <1>8, <2>1, IInvNext
  <2>5. Queue!Pop
    BY <1>2, <2>1, <2>3 DEF Queue!Pop
  <2> QED BY <2>4, <2>5
<1>11. CASE Length(fifo) = 0
  <2>1. Content(fifo) = <<>> /\ Peek(fifo, 0) = Default
    BY <1>1, <1>9, <1>11
  <2>2. n = 0
    BY <1>1, <1>6, <1>11 DEF Least
  <2>3. Content(fifo') = Content(fifo)
    BY <1>1, <1>3, <1>6, <2>1, <2>2
  <2>4. IInv'
    BY <1>1, <1>2, <1>3, <1>5, <1>8, <2>1, DefaultAssumption, IInvNext
  <2>5. Queue!Pop
    BY <1>2, <2>1, <2>3 DEF Queue!Pop
  <2> QED BY <2>4, <2>5
<1> QED BY <1>1, <1>10, <1>11

(* pushmem keeps the invariant and is a pushmem on the queue. *)
LEMMA PushManyStep ==
  ASSUME IInv, NEW mem \in Seq(Value), PushMany(mem)
  PROVE  IInv' /\ Queue!PushMem(mem)
<1> USE DEF Returns, Queue!Returns
<1>1. /\ Capacity \in Nat \ {0} /\ fifo \in CFifoOf(Capacity)
      /\ Content(fifo) \in Seq(Value) /\ Len(Content(fifo)) = Length(fifo)
      /\ Length(fifo) \in 0 .. Capacity
  BY IInvFacts
<1>2. /\ staged = <<>> /\ staged' = <<>> /\ fifo' = PushMem(fifo, mem)
      /\ call' = [asked |-> <<"pushmem", mem>>, num |-> PushMemCount(fifo, mem), data |-> <<>>]
  BY DEF PushMany
<1>3. PICK n : n = Least(Capacity - Len(Content(fifo)), Len(mem))
  OBVIOUS
<1>4. /\ PushMemCount(fifo, mem) = n /\ fifo' \in CFifoOf(Capacity)
      /\ Content(fifo') = Content(fifo) \o SubSeq(mem, 1, n)
  <2>1. /\ PushMemCount(fifo, mem) = n
        /\ PushMem(fifo, mem) \in CFifoOf(Capacity)
        /\ Content(PushMem(fifo, mem)) = Content(fifo) \o SubSeq(mem, 1, n)
    <3>1. /\ Capacity \in Nat \ {0} /\ fifo \in CFifoOf(Capacity)
          /\ n = Least(Capacity - Len(Content(fifo)), Len(mem))
      BY <1>1, <1>3
    <3> HIDE DEF Returns, Queue!Returns
    <3> QED BY <3>1, PushMemLemma
  <2> QED BY <2>1, <1>2
<1>5. n \in Nat
  BY <1>1, <1>3 DEF Least
<1>6. IInv'
  BY <1>2, <1>4, <1>5, NothingStaged, IInvNext
<1>7. n = Queue!AtMost(Queue!Free, Len(mem))
  BY <1>3 DEF Least, Queue!AtMost, Queue!Free
<1>8. Queue!PushMem(mem)
  BY <1>2, <1>4, <1>7 DEF Queue!PushMem
<1> QED BY <1>6, <1>8

(* popmem keeps the invariant and is a popmem on the queue. *)
LEMMA PopManyStep ==
  ASSUME IInv, NEW num \in Nat, PopMany(num)
  PROVE  IInv' /\ Queue!PopMem(num)
<1> USE DEF Returns, Queue!Returns
<1>1. /\ Capacity \in Nat \ {0} /\ fifo \in CFifoOf(Capacity) /\ staged \in Seq(Value)
      /\ Content(fifo) \in Seq(Value) /\ Len(Content(fifo)) = Length(fifo)
      /\ Length(fifo) \in 0 .. Capacity /\ InPlace(fifo, staged)
  BY IInvFacts
<1>2. /\ staged' = staged /\ fifo' = PopMem(fifo, num)
      /\ call' = [asked |-> <<"popmem", num>>, num |-> Len(PopMemData(fifo, num)),
                  data |-> PopMemData(fifo, num)]
  BY DEF PopMany
<1>3. PICK n : n = Least(num, Len(Content(fifo)))
  OBVIOUS
<1>4. /\ fifo' \in CFifoOf(Capacity) /\ fifo'.write = fifo.write /\ fifo'.buffer = fifo.buffer
      /\ Length(fifo') = Length(fifo) - n
      /\ PopMemData(fifo, num) = SubSeq(Content(fifo), 1, n)
      /\ Content(fifo') = SubSeq(Content(fifo), n + 1, Len(Content(fifo)))
  <2>1. /\ PopMem(fifo, num) \in CFifoOf(Capacity)
        /\ PopMem(fifo, num).write = fifo.write
        /\ PopMem(fifo, num).buffer = fifo.buffer
        /\ Length(PopMem(fifo, num)) = Length(fifo) - n
        /\ PopMemData(fifo, num) = SubSeq(Content(fifo), 1, n)
        /\ Content(PopMem(fifo, num)) = SubSeq(Content(fifo), n + 1, Len(Content(fifo)))
    <3>1. /\ Capacity \in Nat \ {0} /\ fifo \in CFifoOf(Capacity)
          /\ n = Least(num, Len(Content(fifo)))
      BY <1>1, <1>3
    <3> HIDE DEF Returns, Queue!Returns
    <3> QED BY <3>1, PopMemLemma
  <2> QED BY <2>1, <1>2
<1>5. n \in Nat /\ n <= Len(Content(fifo))
  BY <1>1, <1>3 DEF Least
<1>6. Length(fifo') <= Length(fifo)
  BY <1>1, <1>4, <1>5
<1>7. InPlace(fifo', staged')
  BY <1>1, <1>2, <1>4, <1>6, InPlaceKept
<1>8. PopMemData(fifo, num) \in Seq(Value) /\ Len(PopMemData(fifo, num)) = n
  BY <1>1, <1>4, <1>5
<1>9. IInv'
  BY <1>1, <1>2, <1>4, <1>5, <1>7, <1>8, IInvNext
<1>10. n = Queue!AtMost(num, Len(Content(fifo)))
  BY <1>3 DEF Least, Queue!AtMost
<1>11. Queue!PopMem(num)
  BY <1>2, <1>4, <1>8, <1>10 DEF Queue!PopMem
<1> QED BY <1>9, <1>11

(* discard keeps the invariant and is a discard on the queue. *)
LEMMA DiscardManyStep ==
  ASSUME IInv, NEW num \in Nat, DiscardMany(num)
  PROVE  IInv' /\ Queue!Discard(num)
<1> USE DEF Returns, Queue!Returns
<1>1. /\ Capacity \in Nat \ {0} /\ fifo \in CFifoOf(Capacity) /\ staged \in Seq(Value)
      /\ Content(fifo) \in Seq(Value) /\ Len(Content(fifo)) = Length(fifo)
      /\ Length(fifo) \in 0 .. Capacity /\ InPlace(fifo, staged)
  BY IInvFacts
<1>2. /\ staged' = staged /\ fifo' = Discard(fifo, num)
      /\ call' = [asked |-> <<"discard", num>>, num |-> DiscardCount(fifo, num), data |-> <<>>]
  BY DEF DiscardMany
<1>3. PICK n : n = DiscardCount(fifo, num)
  OBVIOUS
<1>4. /\ DiscardCount(fifo, num) \in 0 .. Length(fifo) /\ fifo' \in CFifoOf(Capacity)
      /\ fifo'.write = fifo.write /\ fifo'.buffer = fifo.buffer
  BY <1>1, <1>2, DiscardFields
<1>5. /\ n = Least(num, Len(Content(fifo)))
      /\ Length(fifo') = Length(fifo) - n
      /\ Content(fifo') = SubSeq(Content(fifo), n + 1, Len(Content(fifo)))
  BY <1>1, <1>2, <1>3, DiscardContent
<1>6. n \in Nat /\ Length(fifo') <= Length(fifo)
  BY <1>1, <1>3, <1>4, <1>5
<1>7. InPlace(fifo', staged')
  BY <1>1, <1>2, <1>4, <1>6, InPlaceKept
<1>8. IInv'
  BY <1>1, <1>2, <1>3, <1>4, <1>6, <1>7, IInvNext
<1>9. n = Queue!AtMost(num, Len(Content(fifo)))
  BY <1>5 DEF Least, Queue!AtMost
<1>10. Queue!Discard(num)
  BY <1>2, <1>3, <1>5, <1>9 DEF Queue!Discard
<1> QED BY <1>8, <1>10

(* Writing in place keeps the invariant and leaves the queue alone. *)
LEMMA StageElemStep ==
  ASSUME IInv, NEW elem \in Value, StageElem(elem)
  PROVE  IInv' /\ Queue!Stage(elem)
<1>1. /\ fifo \in CFifoOf(Capacity) /\ staged \in Seq(Value) /\ InPlace(fifo, staged)
      /\ call.num \in Nat /\ call.data \in Seq(Value) /\ Len(Content(fifo)) = Length(fifo)
  BY IInvFacts
<1>2. /\ Len(staged) < Capacity - Length(fifo) /\ staged' = Append(staged, elem) /\ call' = call
      /\ fifo' = [fifo EXCEPT !.buffer = [@ EXCEPT ![StageSlot(fifo, Len(staged))] = elem]]
  BY DEF StageElem
<1>3. fifo' \in CFifoOf(Capacity) /\ InPlace(fifo', staged') /\ Content(fifo') = Content(fifo)
  BY <1>1, <1>2, StageLemma
<1>4. IInv'
  BY <1>1, <1>2, <1>3, IInvNext
<1>5. Queue!Stage(elem)
  BY <1>1, <1>2, <1>3 DEF Queue!Stage, Queue!Free
<1> QED BY <1>4, <1>5

(* fill keeps the invariant and commits staged elements to the queue. *)
LEMMA FillManyStep ==
  ASSUME IInv, NEW num \in Nat, FillMany(num)
  PROVE  IInv' /\ Queue!Fill(num)
<1> USE DEF Returns, Queue!Returns
<1>1. /\ fifo \in CFifoOf(Capacity) /\ staged \in Seq(Value) /\ InPlace(fifo, staged)
  BY IInvFacts
<1>2. PICK n, m : n = FillCount(fifo, num) /\ m = Least(n, Len(staged))
  OBVIOUS
<1>3. /\ fifo' = Fill(fifo, num) /\ call' = [asked |-> <<"fill", num>>, num |-> n, data |-> <<>>]
      /\ staged' = SubSeq(staged, m + 1, Len(staged))
  BY <1>2 DEF FillMany
<1>4. /\ n \in Nat /\ m \in Nat /\ m <= n
      /\ n = Least(Capacity - Len(Content(fifo)), num)
      /\ fifo' \in CFifoOf(Capacity) /\ staged' \in Seq(Value) /\ InPlace(fifo', staged')
      /\ \E junk \in [1 .. n - m -> Value] :
           Content(fifo') = Content(fifo) \o SubSeq(staged, 1, m) \o junk
  <2>1. /\ n \in Nat /\ m \in Nat /\ m <= n
        /\ n = Least(Capacity - Len(Content(fifo)), num)
        /\ Fill(fifo, num) \in CFifoOf(Capacity)
        /\ SubSeq(staged, m + 1, Len(staged)) \in Seq(Value)
        /\ InPlace(Fill(fifo, num), SubSeq(staged, m + 1, Len(staged)))
        /\ \E junk \in [1 .. n - m -> Value] :
             Content(Fill(fifo, num)) = Content(fifo) \o SubSeq(staged, 1, m) \o junk
    BY <1>1, <1>2, CommitLemma
  <2> QED BY <2>1, <1>3
<1>5. IInv'
  BY <1>3, <1>4, IInvNext
<1>6. n = Queue!AtMost(num, Queue!Free) /\ m = Queue!AtMost(n, Len(staged))
  BY SMTT(60), <1>2, <1>4, CapacityAssumption DEF Least, Queue!AtMost, Queue!Free
<1>7. Queue!Fill(num)
  BY <1>3, <1>4, <1>6 DEF Queue!Fill
<1> QED BY <1>5, <1>7

(* Every step keeps the invariant and is a step of the bounded queue. *)
THEOREM StepCorrect ==
  IInv /\ [Next]_vars => IInv' /\ [Queue!Next]_(Queue!vars)
<1> SUFFICES ASSUME IInv, [Next]_vars PROVE IInv' /\ [Queue!Next]_(Queue!vars)
  OBVIOUS
<1>1. ASSUME NEW elem \in Value, PushElem(elem) PROVE IInv' /\ Queue!Next
  BY <1>1, PushElemStep DEF Queue!Next
<1>2. ASSUME NEW elem \in Value, StageElem(elem) PROVE IInv' /\ Queue!Next
  BY <1>2, StageElemStep DEF Queue!Next
<1>3. ASSUME PopElem PROVE IInv' /\ Queue!Next
  BY <1>3, PopElemStep DEF Queue!Next
<1>4. ASSUME NEW num \in 0 .. MaxRequest, PopMany(num) PROVE IInv' /\ Queue!Next
  BY <1>4, RequestAssumption, PopManyStep DEF Queue!Next
<1>5. ASSUME NEW num \in 0 .. MaxRequest, DiscardMany(num) PROVE IInv' /\ Queue!Next
  BY <1>5, RequestAssumption, DiscardManyStep DEF Queue!Next
<1>6. ASSUME NEW num \in 0 .. MaxRequest, FillMany(num) PROVE IInv' /\ Queue!Next
  BY <1>6, RequestAssumption, FillManyStep DEF Queue!Next
<1>7. ASSUME NEW num \in 0 .. MaxRequest, NEW mem \in [1 .. num -> Value], PushMany(mem)
      PROVE  IInv' /\ Queue!Next
  <2>1. mem \in Seq(Value)
    OBVIOUS
  <2> QED BY <1>7, <2>1, PushManyStep DEF Queue!Next
<1>8. ASSUME UNCHANGED vars PROVE IInv' /\ UNCHANGED Queue!vars
  BY <1>8 DEF vars, Queue!vars, IInv, TypeOK, StagedInPlace
<1> QED BY <1>1, <1>2, <1>3, <1>4, <1>5, <1>6, <1>7, <1>8 DEF Next

(* The indices stay inside the buffer, whatever sequence of calls is made on *)
(* a fifo of any capacity.                                                   *)
THEOREM TypeCorrect == Spec => []TypeOK
<1>1. IInv => TypeOK
  BY DEF IInv
<1> QED BY <1>1, InitCorrect, StepCorrect, PTL DEF Spec

(* Elements written in place stay, in order, in the slots that follow the *)
(* content, whatever is popped, discarded or committed in between.        *)
THEOREM StagedCorrect == Spec => []StagedInPlace
<1>1. IInv => StagedInPlace
  BY DEF IInv
<1> QED BY <1>1, InitCorrect, StepCorrect, PTL DEF Spec

(* fifo.c implements the bounded queue: contents, order and returned values. *)
THEOREM QueueImplemented == Spec => ImplementsQueue
  BY InitCorrect, StepCorrect, PTL DEF Spec, ImplementsQueue, Queue!Spec

-----------------------------------------------------------------------------
(* What every fifo of the right type shows to its observers *)

(* A fifo of the right type shows its content to peek, last, is_full and *)
(* is_empty.                                                             *)
LEMMA ObserversLemma ==
  ASSUME TypeOK
  PROVE  ObserversAgree
<1>1. Capacity \in Nat \ {0} /\ fifo \in CFifoOf(Capacity)
  BY CapacityAssumption DEF TypeOK
<1>2. PICK L \in 0 .. Capacity : L = Length(fifo)
  BY <1>1, LengthCases
<1>3. \A offset \in Nat : Peek(fifo, offset) = IF offset < Length(fifo)
                                               THEN Content(fifo)[offset + 1] ELSE Default
  BY <1>1, PeekLemma
<1>4. \A offset \in 0 .. Capacity :
        Peek(fifo, offset) = IF offset < Length(fifo) THEN Content(fifo)[offset + 1] ELSE Default
  BY <1>1, <1>3
<1>5. Last(fifo) = IF Length(fifo) = 0 THEN Default ELSE Content(fifo)[Length(fifo)]
  <2>1. CASE L = 0
    BY <1>2, <2>1 DEF Last
  <2>2. CASE L # 0
    <3>1. L - 1 \in Nat /\ L - 1 < L /\ (L - 1) + 1 = L
      BY <1>1, <2>2
    <3>2. Peek(fifo, L - 1) = Content(fifo)[(L - 1) + 1]
      BY <1>2, <1>3, <3>1
    <3>3. Last(fifo) = Peek(fifo, L - 1)
      BY <1>1, <1>2, <2>2 DEF Last
    <3> QED BY <1>2, <2>2, <3>1, <3>2, <3>3
  <2> QED BY <2>1, <2>2
<1>6. /\ (State(fifo) = "FULL") <=> (Length(fifo) = Capacity)
      /\ (State(fifo) = "EMPTY") <=> (Length(fifo) = 0)
  BY <1>1, LengthCases
<1> QED BY <1>4, <1>5, <1>6 DEF ObserversAgree

(* The two windows of peekaddr(0) list the content of a fifo of the right *)
(* type, in order.                                                        *)
LEMMA ReadWindowsLemma ==
  ASSUME TypeOK
  PROVE  ReadWindowsCoverContent
<1>1. PICK c \in Nat \ {0}, r \in Nat, w \in Nat, L \in Nat :
        /\ c = Capacity /\ r = fifo.read /\ w = fifo.write /\ L = Length(fifo)
        /\ r < c /\ w < c /\ L <= c
  <2>1. Capacity \in Nat \ {0} /\ fifo \in CFifoOf(Capacity)
    BY CapacityAssumption DEF TypeOK
  <2>2. /\ fifo.read \in 0 .. Capacity - 1 /\ fifo.write \in 0 .. Capacity - 1
        /\ Length(fifo) \in 0 .. Capacity
    BY <2>1, FieldTypes, LengthCases
  <2> QED BY <2>1, <2>2
<1>2. fifo \in CFifoOf(c) /\ fifo.capacity = c /\ fifo.last_op \in {"PUSH", "POP"}
  BY <1>1, FieldTypes DEF TypeOK
<1>3. L = IF r = w THEN IF fifo.last_op = "POP" THEN 0 ELSE c
          ELSE IF r < w THEN w - r ELSE c - (r - w)
  BY <1>1, <1>2, LengthCases
<1>a. r < c /\ w < c /\ L <= c
  BY <1>1
<1>4. \A k \in 0 .. c : Slot(fifo, k) = IF r + k < c THEN r + k ELSE r + k - c
  BY <1>1, <1>2, SlotValue
<1> SUFFICES ASSUME NEW held \in NULL .. Capacity - 1
             PROVE  LET p == PeekAddr(fifo, 0, held)
                    IN /\ p.num <= L /\ (p.addr = NULL <=> L = 0)
                       /\ IF L = 0 THEN p.rest = held ELSE p.rest = NULL <=> p.num = L
                       /\ \A k \in 1 .. L :
                            Slot(fifo, k - 1) = IF k <= p.num THEN p.addr + (k - 1)
                                                ELSE p.rest + (k - 1 - p.num)
  BY <1>1 DEF ReadWindowsCoverContent
<1> DEFINE p == PeekAddr(fifo, 0, held)
<1>5. CASE L = 0
  <2>1. p = [addr |-> NULL, num |-> 0, rest |-> held]
    BY <1>1, <1>5 DEF PeekAddr
  <2> HIDE DEF p
  <2>2. p.addr = NULL /\ p.num = 0 /\ p.rest = held
    BY <2>1
  <2> QED BY <1>1, <1>5, <2>2 DEF p
<1>6. CASE L # 0
  <2> DEFINE avail == ContinuousReadLength(fifo)
             next == (r + avail) % c
  <2>1. State(fifo) # "EMPTY"
    BY <1>1, <1>2, <1>6, LengthCases
  <2>2. avail = IF r < w THEN w - r ELSE c - r
    BY <1>1, <1>2, <2>1 DEF ContinuousReadLength, State
  <2>3. avail \in Nat /\ avail <= L /\ avail <= c /\ r + avail <= c
    BY <1>3, <1>6, <1>a, <2>2
  <2>4. next = IF r < w THEN w ELSE 0
    <3>1. CASE r < w
      <4>1. r + avail = w
        BY <2>2, <3>1
      <4>2. w % c = w
        <5>1. 0 \in 0 .. c /\ w \in 0 .. c - 1
          BY <1>a
        <5>2. (w + 0) % c = IF w + 0 < c THEN w + 0 ELSE w + 0 - c
          BY <5>1, ModWrap
        <5> QED BY <5>2, <1>a
      <4> QED BY <3>1, <4>1, <4>2
    <3>2. CASE ~ r < w
      <4>1. r + avail = c
        BY <2>2, <3>2
      <4>2. c % c = 0
        OBVIOUS
      <4> QED BY <3>2, <4>1, <4>2
    <3> QED BY <3>1, <3>2
  <2>5. p = [addr |-> (r + 0) % c, num |-> avail,
             rest |-> IF (r + 0 + avail) % c # w THEN (r + 0 + avail) % c ELSE NULL]
    BY <1>1, <1>2, <1>6, <2>1 DEF PeekAddr
  <2>6. r + 0 = r /\ r + 0 + avail = r + avail
    BY <2>3
  <2>7. r % c = r
    <3>1. 0 \in 0 .. c /\ r \in 0 .. c - 1
      BY <1>a
    <3>2. (r + 0) % c = IF r + 0 < c THEN r + 0 ELSE r + 0 - c
      BY <3>1, ModWrap
    <3> QED BY <3>2, <1>a
  <2>8. p = [addr |-> r, num |-> avail, rest |-> IF next # w THEN next ELSE NULL]
    BY <2>5, <2>6, <2>7
  <2> HIDE DEF avail, next, p
  <2>9. p.addr = r /\ p.num = avail /\ p.rest = IF next # w THEN next ELSE NULL
    BY <2>8
  <2>10. p.addr # NULL /\ ((p.rest = NULL) <=> (p.num = L))
    <3>1. p.addr # NULL /\ ((p.rest = NULL) <=> (next = w))
      BY <1>1, <2>4, <2>9 DEF NULL
    <3>2. (next = w) <=> (avail = L)
      BY <1>3, <1>6, <1>a, <2>2, <2>4
    <3> QED BY <3>1, <3>2, <2>9
  <2>11. ASSUME NEW k \in 1 .. L
         PROVE  Slot(fifo, k - 1) = IF k <= p.num THEN p.addr + (k - 1)
                                    ELSE p.rest + (k - 1 - p.num)
    <3>1. k - 1 \in 0 .. c
      BY <1>a
    <3>2. Slot(fifo, k - 1) = IF r + (k - 1) < c THEN r + (k - 1) ELSE r + (k - 1) - c
      BY <3>1, <1>4
    <3>3. CASE k <= avail
      BY <2>3, <2>9, <3>2, <3>3
    <3>4. CASE ~ k <= avail
      <4>1. ~ r < w /\ avail = c - r
        BY <1>3, <1>a, <2>2, <3>4
      <4>2. w # 0
        BY <1>3, <1>6, <1>a, <3>4, <4>1
      <4>3. p.rest = 0
        BY <2>4, <2>9, <4>1, <4>2
      <4>4. ~ r + (k - 1) < c
        BY <4>1, <3>4
      <4> QED BY <2>9, <3>2, <3>4, <4>1, <4>3, <4>4
    <3> QED BY <3>3, <3>4, <2>3
  <2> QED BY <1>1, <1>6, <2>3, <2>9, <2>10, <2>11 DEF p
<1> QED BY <1>5, <1>6

(* The two windows of writeaddr are exactly the free slots of a fifo of the *)
(* right type.                                                              *)
LEMMA WriteWindowsLemma ==
  ASSUME TypeOK
  PROVE  WriteWindowsCoverFree
<1>1. PICK c \in Nat \ {0}, r \in Nat, w \in Nat, L \in Nat :
        /\ c = Capacity /\ r = fifo.read /\ w = fifo.write /\ L = Length(fifo)
        /\ r < c /\ w < c /\ L <= c
  <2>1. Capacity \in Nat \ {0} /\ fifo \in CFifoOf(Capacity)
    BY CapacityAssumption DEF TypeOK
  <2>2. /\ fifo.read \in 0 .. Capacity - 1 /\ fifo.write \in 0 .. Capacity - 1
        /\ Length(fifo) \in 0 .. Capacity
    BY <2>1, FieldTypes, LengthCases
  <2> QED BY <2>1, <2>2
<1>2. fifo \in CFifoOf(c) /\ fifo.capacity = c /\ fifo.last_op \in {"PUSH", "POP"}
  BY <1>1, FieldTypes DEF TypeOK
<1>3. L = IF r = w THEN IF fifo.last_op = "POP" THEN 0 ELSE c
          ELSE IF r < w THEN w - r ELSE c - (r - w)
  BY <1>1, <1>2, LengthCases
<1>a. r < c /\ w < c /\ L <= c
  BY <1>1
<1>4. \A k \in 0 .. c - L - 1 : StageSlot(fifo, k) = IF w + k < c THEN w + k ELSE w + k - c
  <2> SUFFICES ASSUME NEW k \in 0 .. c - L - 1
               PROVE  StageSlot(fifo, k) = IF w + k < c THEN w + k ELSE w + k - c
    OBVIOUS
  <2>1. k \in Nat /\ k < c - L /\ k \in 0 .. c - L
    BY <1>a
  <2>2. StageSlot(fifo, k) = Slot(fifo, Length(fifo) + k)
    BY <1>1, <1>2, <2>1, StageSlotLemma
  <2>3. Slot(fifo, Length(fifo) + k) = IF fifo.write + k < c THEN fifo.write + k
                                       ELSE fifo.write + k - c
    BY <1>1, <1>2, <2>1, SlotAfterWrite
  <2> QED BY <1>1, <2>2, <2>3
<1>5. \A i \in 0 .. c - 1 :
        IsInContent(fifo, i) < 0 <=> \/ r < w /\ (i < r \/ i >= w)
                                     \/ r > w /\ i >= w /\ i < r
                                     \/ r = w /\ fifo.last_op = "POP"
  BY <1>1, <1>2 DEF IsInContent, State
<1>6. {StageSlot(fifo, k) : k \in 0 .. c - L - 1} = {i \in 0 .. c - 1 : IsInContent(fifo, i) < 0}
  <2>1. ASSUME NEW k \in 0 .. c - L - 1
        PROVE  StageSlot(fifo, k) \in 0 .. c - 1 /\ IsInContent(fifo, StageSlot(fifo, k)) < 0
    <3>1. PICK i \in Int : i = StageSlot(fifo, k) /\ i = IF w + k < c THEN w + k ELSE w + k - c
      BY <1>4, <1>a
    <3>2. i \in 0 .. c - 1
      BY <3>1, <1>a
    <3>3. \/ r < w /\ (i < r \/ i >= w)
          \/ r > w /\ i >= w /\ i < r
          \/ r = w /\ fifo.last_op = "POP"
      BY <3>1, <1>3, <1>a
    <3> QED BY <3>1, <3>2, <3>3, <1>5
  <2>2. ASSUME NEW i \in 0 .. c - 1, IsInContent(fifo, i) < 0
        PROVE  \E k \in 0 .. c - L - 1 : i = StageSlot(fifo, k)
    <3>1. \/ r < w /\ (i < r \/ i >= w)
          \/ r > w /\ i >= w /\ i < r
          \/ r = w /\ fifo.last_op = "POP"
      BY <2>2, <1>5
    <3> DEFINE k == IF i >= w THEN i - w ELSE i - w + c
    <3>2. k \in 0 .. c - L - 1
      BY <3>1, <1>3, <1>a
    <3>3. (IF w + k < c THEN w + k ELSE w + k - c) = i
      BY <3>1, <1>a
    <3> HIDE DEF k
    <3>4. StageSlot(fifo, k) = i
      BY <3>2, <3>3, <1>4
    <3> QED BY <3>2, <3>4
  <2> QED BY <2>1, <2>2
<1>7. LET a == WriteAddr(fifo)
          inRest == c - L - a.num
      IN inRest >= 0 /\ ((inRest > 0) <=> (a.rest # NULL /\ a.num > 0))
  <2> DEFINE a == WriteAddr(fifo)
             avail == ContinuousWriteLength(fifo)
             next == (w + avail) % c
  <2>1. a.num = avail /\ a.rest = IF next # r THEN next ELSE NULL
    BY <1>1, <1>2 DEF WriteAddr
  <2>2. CASE r < w \/ (r = w /\ fifo.last_op = "POP")
    <3>1. avail = c - w
      BY <1>1, <1>2, <2>2 DEF ContinuousWriteLength, State
    <3>2. next = 0
      <4>1. w + avail = c
        BY <3>1
      <4>2. c % c = 0
        OBVIOUS
      <4> QED BY <4>1, <4>2
    <3> HIDE DEF a, avail, next
    <3> QED BY <1>3, <1>a, <2>1, <2>2, <3>1, <3>2 DEF a, NULL
  <2>3. CASE w < r
    <3>1. avail = r - w
      BY <1>1, <1>2, <2>3 DEF ContinuousWriteLength, State
    <3>2. next = r
      <4>1. w + avail = r
        BY <3>1
      <4>2. 0 \in 0 .. c /\ r \in 0 .. c - 1
        BY <1>a
      <4>3. (r + 0) % c = IF r + 0 < c THEN r + 0 ELSE r + 0 - c
        BY <4>2, ModWrap
      <4>4. r % c = r
        BY <4>3, <1>a
      <4> QED BY <4>1, <4>4
    <3> HIDE DEF a, avail, next
    <3> QED BY <1>3, <1>a, <2>1, <2>3, <3>1, <3>2 DEF a
  <2>4. CASE r = w /\ fifo.last_op # "POP"
    <3>1. avail = 0
      BY <1>1, <1>2, <2>4 DEF ContinuousWriteLength, State
    <3> HIDE DEF a, avail, next
    <3> QED BY <1>3, <1>a, <2>1, <2>4, <3>1 DEF a
  <2> QED BY <2>2, <2>3, <2>4
<1>8. WriteAddr(fifo).addr = Slot(fifo, Length(fifo))
  BY <1>1, <1>2, WriteIsNextSlot DEF WriteAddr
<1> QED BY <1>1, <1>6, <1>7, <1>8 DEF WriteWindowsCoverFree

(* array_from_cfifo followed by cfifo_from_array gives the content back. *)
LEMMA ArrayRoundTripLemma ==
  ASSUME TypeOK
  PROVE  ArrayRoundTrip
<1>1. Capacity \in Nat \ {0} /\ fifo \in CFifoOf(Capacity)
  BY CapacityAssumption DEF TypeOK
<1>2. PICK n \in 0 .. Capacity : n = Length(fifo) /\ n = Len(Content(fifo))
  BY <1>1, LengthCases, ContentType
<1>3. Content(fifo) \in Seq(Value)
  BY <1>1, ContentType
<1> SUFFICES ASSUME n > 0
             PROVE  LET array == ArrayFromCFifo(fifo)
                        data  == [i \in 0 .. Len(array) - 1 |-> array[i + 1]]
                    IN Content(FromArray(data, Len(array), Len(array))) = Content(fifo)
  BY <1>2 DEF ArrayRoundTrip
<1>4. ArrayFromCFifo(fifo) = Content(fifo)
  <2>1. n \in Nat /\ Least(n, Len(Content(fifo))) = n
    BY <1>2 DEF Least
  <2>2. PopMemData(fifo, n) = SubSeq(Content(fifo), 1, Least(n, Len(Content(fifo))))
    BY <1>1, <2>1, PopMemLemma
  <2>3. SubSeq(Content(fifo), 1, n) = Content(fifo)
    BY <1>2, <1>3
  <2> QED BY <1>2, <2>1, <2>2, <2>3 DEF ArrayFromCFifo
<1> DEFINE data == [i \in 0 .. n - 1 |-> Content(fifo)[i + 1]]
           g == FromArray(data, n, n)
<1>5. data \in [0 .. n - 1 -> Value]
  <2>1. \A i \in 0 .. n - 1 : i + 1 \in 1 .. Len(Content(fifo))
    BY <1>2
  <2> QED BY <1>3, <2>1
<1>6. \A i \in 1 .. n : data[i - 1] = Content(fifo)[i]
  <2>1. \A i \in 1 .. n : i - 1 \in 0 .. n - 1 /\ (i - 1) + 1 = i
    OBVIOUS
  <2> QED BY <2>1
<1>7. g.read = 0 /\ g.buffer = data
  BY DEF FromArray
<1> HIDE DEF data
<1>8. n \in Nat \ {0} /\ n \in 0 .. n
  OBVIOUS
<1>9. g \in CFifoOf(n) /\ Length(g) = n
  BY <1>5, <1>8, FromArrayLemma
<1> HIDE DEF g
<1>10. Content(g) \in Seq(Value) /\ Len(Content(g)) = n
       /\ \A i \in 1 .. n : Content(g)[i] = data[Slot(g, i - 1)]
  BY <1>7, <1>8, <1>9, ContentType
<1>11. \A i \in 1 .. n : Slot(g, i - 1) = i - 1
  <2>1. \A k \in 0 .. n : Slot(g, k) = IF 0 + k < n THEN 0 + k ELSE 0 + k - n
    BY <1>7, <1>8, <1>9, SlotValue
  <2>2. \A i \in 1 .. n : i - 1 \in 0 .. n /\ 0 + (i - 1) < n /\ 0 + (i - 1) = i - 1
    OBVIOUS
  <2> QED BY <2>1, <2>2
<1>12. \A i \in 1 .. n : Content(g)[i] = Content(fifo)[i]
  BY <1>6, <1>10, <1>11
<1>13. Content(g) = Content(fifo)
  BY <1>2, <1>3, <1>10, <1>12, SeqEqual
<1> QED BY <1>2, <1>4, <1>13 DEF g, data

(* peek, last, is_full and is_empty always agree with the content. *)
THEOREM ObserversCorrect == Spec => []ObserversAgree
  BY TypeCorrect, ObserversLemma, PTL

(* A reader that follows the two windows of peekaddr always reads the *)
(* content, in order, and nothing else.                               *)
THEOREM ReadWindowsCorrect == Spec => []ReadWindowsCoverContent
  BY TypeCorrect, ReadWindowsLemma, PTL

(* A client that writes in the two windows of writeaddr never overwrites an *)
(* element and can reach every free slot.                                   *)
THEOREM WriteWindowsCorrect == Spec => []WriteWindowsCoverFree
  BY TypeCorrect, WriteWindowsLemma, PTL

(* Turning a fifo into an array and back never loses or reorders elements. *)
THEOREM ArrayRoundTripCorrect == Spec => []ArrayRoundTrip
  BY TypeCorrect, ArrayRoundTripLemma, PTL

(* What peekmem is asked within the bounds of the content it finds. *)
LEMMA PeekMemCorrectLemma ==
  ASSUME TypeOK
  PROVE  PeekMemWithinContent
<1>1. Capacity \in Nat \ {0} /\ fifo \in CFifoOf(Capacity)
  BY CapacityAssumption DEF TypeOK
<1>2. PICK len \in 0 .. Capacity : len = Length(fifo)
  BY <1>1, LengthCases
<1> SUFFICES ASSUME NEW offset \in 0 .. len, NEW num \in 0 .. len - offset
             PROVE  PeekMem(fifo, num, offset)
                      = SubSeq(Content(fifo), offset + 1, offset + num)
  BY <1>2 DEF PeekMemWithinContent
<1>3. offset \in Nat /\ num \in Nat /\ offset + num <= len
  OBVIOUS
<1> QED BY <1>1, <1>2, <1>3, PeekMemLemma

(* peekmem within the content always reads the elements asked, from any *)
(* offset and across the end of the buffer.                             *)
THEOREM PeekMemCorrect == Spec => []PeekMemWithinContent
  BY TypeCorrect, PeekMemCorrectLemma, PTL

-----------------------------------------------------------------------------
(***************************************************************************)
(* The theorems about module FifoPipe: popfifo keeps both rings well       *)
(* formed, moves elements in order, moves as many as one copy would, and   *)
(* needs three rounds at most, whatever the two capacities and alignments. *)
(***************************************************************************)

(* pelib_cfifo_continuous_read_length and ..write_length: the content, and *)
(* the free slots, up to the end of the buffer.                            *)
LEMMA ContinuousLengths ==
  ASSUME NEW c \in Nat \ {0}, NEW f \in CFifoOf(c)
  PROVE  /\ ContinuousReadLength(f) = Least(Length(f), c - f.read)
         /\ ContinuousWriteLength(f) = Least(c - Length(f), c - f.write)
<1>1. /\ f.read \in 0 .. c - 1 /\ f.write \in 0 .. c - 1 /\ f.capacity = c
      /\ f.last_op \in {"PUSH", "POP"}
  BY FieldTypes
<1>2. CASE f.read = f.write
  BY <1>1, <1>2 DEF ContinuousReadLength, ContinuousWriteLength, Length, State, Least
<1>3. CASE f.read < f.write
  BY <1>1, <1>3 DEF ContinuousReadLength, ContinuousWriteLength, Length, State, Least
<1>4. CASE f.read > f.write
  BY <1>1, <1>4 DEF ContinuousReadLength, ContinuousWriteLength, Length, State, Least
<1> QED BY <1>1, <1>2, <1>3, <1>4

(* The content of a ring, or its free slots, go on at the start of the     *)
(* buffer.                                                                 *)
ReadWraps(f) == f.read + Length(f) > f.capacity
WriteWraps(f) == f.write + (f.capacity - Length(f)) > f.capacity

(* What a round does to the ring it reads: the elements it copies are the  *)
(* first of the content.  A round that ends where the buffer ends leaves a *)
(* content that does not wrap any more.                                    *)
LEMMA SourceRound ==
  ASSUME NEW c \in Nat \ {0}, NEW f \in CFifoOf(c),
         NEW k \in Nat, k <= ContinuousReadLength(f),
         NEW g, g = Discard(f, k)
  PROVE  /\ k <= Length(f)
         /\ g \in CFifoOf(c)
         /\ Length(g) = Length(f) - k
         /\ CopyOut(f, k) = SubSeq(Content(f), 1, k)
         /\ Content(g) = SubSeq(Content(f), k + 1, Len(Content(f)))
         /\ ReadWraps(g) => ReadWraps(f)
         /\ k = ContinuousReadLength(f) => ~ReadWraps(g)
         /\ k = ContinuousReadLength(f) /\ ~ReadWraps(f) => Length(g) = 0
<1>1. PICK r \in Nat, L \in Nat : r = f.read /\ r < c /\ L = Length(f) /\ L <= c
  BY FieldTypes, LengthCases
<1>2. ContinuousReadLength(f) = Least(L, c - r)
  BY <1>1, ContinuousLengths
<1>3. k <= L /\ r + k <= c
  BY <1>1, <1>2 DEF Least
<1>4. DiscardCount(f, k) = k
  BY <1>1, <1>3 DEF DiscardCount, Least
<1>5. g \in CFifoOf(c) /\ g.read = (r + k) % c /\ f.capacity = c /\ g.capacity = c
  <2>1. g \in CFifoOf(c) /\ g.read = (f.read + DiscardCount(f, k)) % c
    BY DiscardFields
  <2> QED BY <2>1, <1>1, <1>4, FieldTypes
<1>6. /\ Length(g) = L - k
      /\ Content(g) = SubSeq(Content(f), k + 1, Len(Content(f)))
  <2>1. /\ Length(g) = Length(f) - DiscardCount(f, k)
        /\ Content(g) = SubSeq(Content(f), DiscardCount(f, k) + 1, Len(Content(f)))
    BY DiscardContent
  <2> QED BY <2>1, <1>1, <1>4
<1>7. g.read = IF r + k < c THEN r + k ELSE 0
  <2>1. r \in 0 .. c - 1 /\ k \in 0 .. c
    BY <1>1, <1>3
  <2>2. (r + k) % c = IF r + k < c THEN r + k ELSE r + k - c
    BY <2>1, ModWrap
  <2> QED BY <2>2, <1>3, <1>5, <1>1
<1>8. CopyOut(f, k) = SubSeq(Content(f), 1, k)
  <2>1. PopSegmentCount(f, k) = k
    <3>1. State(f) \in {"FULL", "REVERSE"} => k <= f.capacity - f.read
      BY <1>1, <1>3, <1>5
    <3>2. ~ State(f) \in {"FULL", "REVERSE"} => k <= f.write - f.read
      BY <1>1, <1>3, FieldTypes, LengthCases DEF State
    <3>3. f.capacity - f.read \in Int /\ f.write - f.read \in Int
      BY FieldTypes
    <3> QED BY <3>1, <3>2, <3>3 DEF PopSegmentCount, Least
  <2> QED BY <2>1, PopSegmentLemma
<1>9. /\ ReadWraps(g) <=> g.read + (L - k) > c
      /\ ReadWraps(f) <=> r + L > c
  BY <1>1, <1>5, <1>6 DEF ReadWraps
<1>10. ReadWraps(g) => ReadWraps(f)
  BY <1>1, <1>3, <1>7, <1>9
<1>11. ASSUME k = ContinuousReadLength(f)
       PROVE  ~ReadWraps(g) /\ (~ReadWraps(f) => Length(g) = 0)
  <2>1. k = IF L < c - r THEN L ELSE c - r
    BY <1>2, <1>11 DEF Least
  <2>2. CASE L < c - r
    <3>1. k = L /\ r + k < c
      BY <2>1, <2>2, <1>1
    <3> QED BY SMTT(60), <3>1, <1>1, <1>6, <1>7, <1>9
  <2>3. CASE ~(L < c - r)
    <3>1. r + k = c
      BY <2>1, <2>3, <1>1
    <3>2. g.read = 0
      BY <3>1, <1>7
    <3>3. ~ReadWraps(g)
      BY <3>2, <1>1, <1>9
    <3>4. ~ReadWraps(f) => L - k = 0
      BY <3>1, <1>1, <1>3, <1>9
    <3> QED BY <3>3, <3>4, <1>6
  <2> QED BY <2>2, <2>3
<1> QED BY <1>1, <1>3, <1>5, <1>6, <1>8, <1>10, <1>11

(* A memcpy behind the content leaves the content, and all but the buffer. *)
LEMMA CopiedIn ==
  ASSUME NEW c \in Nat \ {0}, NEW f \in CFifoOf(c), NEW b \in [0 .. c - 1 -> Value],
         \A j \in 0 .. Length(f) - 1 : b[Slot(f, j)] = f.buffer[Slot(f, j)],
         NEW g, g = [f EXCEPT !.buffer = b]
  PROVE  /\ g \in CFifoOf(c) /\ g.buffer = b
         /\ g.read = f.read /\ g.write = f.write /\ g.last_op = f.last_op
         /\ Length(g) = Length(f)
         /\ \A k \in 0 .. c : Slot(g, k) = Slot(f, k)
         /\ Content(g) = Content(f)
<1>1. /\ g \in CFifoOf(c) /\ g.buffer = b /\ g.capacity = f.capacity
      /\ g.read = f.read /\ g.write = f.write /\ g.last_op = f.last_op
  BY DEF CFifoOf
<1>2. Length(g) = Length(f)
  BY <1>1 DEF Length, State
<1>3. \A k : Slot(g, k) = Slot(f, k)
  BY <1>1 DEF Slot
<1>4. Length(f) \in 0 .. c
  BY LengthCases
<1>5. \A i \in 1 .. Length(f) : i - 1 \in 0 .. Length(f) - 1
  BY <1>4
<1>6. Content(g) = Content(f)
  BY <1>1, <1>2, <1>3, <1>5 DEF Content
<1> QED BY <1>1, <1>2, <1>3, <1>6

(* memcpy of the whole of mem. *)
LEMMA CopyWhole ==
  ASSUME NEW c \in Nat \ {0}, NEW f \in CFifoOf(c), NEW mem \in Seq(Value),
         Len(mem) <= c - Length(f), f.write + Len(mem) <= c,
         NEW b, b = CopyIn(f, mem, 1, Len(mem))
  PROVE  /\ b \in [0 .. c - 1 -> Value]
         /\ \A j \in 0 .. Length(f) - 1 : b[Slot(f, j)] = f.buffer[Slot(f, j)]
         /\ \A i \in 0 .. Len(mem) - 1 : b[Slot(f, Length(f) + i)] = mem[1 + i]
<1>1. Len(mem) \in Nat /\ 1 \in Nat \ {0} /\ 1 + Len(mem) - 1 <= Len(mem)
  OBVIOUS
<1> QED BY <1>1, CopyInLemma

(* What a round does to the ring it writes. *)
LEMMA TargetRound ==
  ASSUME NEW c \in Nat \ {0}, NEW f \in CFifoOf(c), NEW mem \in Seq(Value),
         NEW k \in Nat, k = Len(mem), k <= ContinuousWriteLength(f),
         NEW g, g = Fill([f EXCEPT !.buffer = CopyIn(f, mem, 1, k)], k)
  PROVE  /\ k <= c - Length(f)
         /\ g \in CFifoOf(c)
         /\ Length(g) = Length(f) + k
         /\ Content(g) = Content(f) \o mem
         /\ WriteWraps(g) => WriteWraps(f)
         /\ k = ContinuousWriteLength(f) => ~WriteWraps(g)
         /\ k = ContinuousWriteLength(f) /\ ~WriteWraps(f) => Length(g) = c
<1>1. PICK w \in Nat, L \in Nat : w = f.write /\ w < c /\ L = Length(f) /\ L <= c
  BY FieldTypes, LengthCases
<1>2. ContinuousWriteLength(f) = Least(c - L, c - w)
  BY <1>1, ContinuousLengths
<1>3. k <= c - L /\ w + k <= c
  BY <1>1, <1>2 DEF Least
<1> DEFINE b == CopyIn(f, mem, 1, k)
           h == [f EXCEPT !.buffer = b]
<1>4. /\ b \in [0 .. c - 1 -> Value]
      /\ \A j \in 0 .. Length(f) - 1 : b[Slot(f, j)] = f.buffer[Slot(f, j)]
      /\ \A i \in 0 .. k - 1 : b[Slot(f, Length(f) + i)] = mem[1 + i]
  <2>1. Len(mem) <= c - Length(f) /\ f.write + Len(mem) <= c
    BY <1>1, <1>3
  <2>2. b = CopyIn(f, mem, 1, Len(mem))
    OBVIOUS
  <2> HIDE DEF b
  <2> QED BY <2>1, <2>2, CopyWhole
<1> HIDE DEF b
<1>5. /\ h \in CFifoOf(c) /\ h.buffer = b /\ h.write = w
      /\ Length(h) = L
      /\ \A j \in 0 .. c : Slot(h, j) = Slot(f, j)
      /\ Content(h) = Content(f)
  <2>1. h = [f EXCEPT !.buffer = b]
    OBVIOUS
  <2> HIDE DEF h
  <2> QED BY <2>1, <1>1, <1>4, CopiedIn
<1>6. g = Fill(h, k)
  BY DEF b
<1> HIDE DEF h
<1>7. h.capacity = c /\ FillCount(h, k) = k
  <2>1. h.capacity = c
    BY <1>5, FieldTypes
  <2> QED BY <2>1, <1>1, <1>3, <1>5 DEF FillCount, Least
<1>8. g \in CFifoOf(c) /\ Length(g) = L + k
  <2>1. /\ Fill(h, k) \in CFifoOf(c)
        /\ Length(Fill(h, k)) = Length(h) + FillCount(h, k)
    BY <1>5, FillFields
  <2> QED BY <2>1, <1>5, <1>6, <1>7
<1>9. Content(g) = Content(f) \o mem
  <2>1. ASSUME NEW i \in 1 .. Len(mem)
        PROVE  mem[i] = h.buffer[Slot(h, Length(h) + i - 1)]
    <3>1. i - 1 \in 0 .. k - 1 /\ 1 + (i - 1) = i /\ L + i - 1 \in 0 .. c /\ L + i - 1 = L + (i - 1)
      BY <1>1, <1>3
    <3>2. b[Slot(f, L + (i - 1))] = mem[i]
      BY <3>1, <1>1, <1>4
    <3> QED BY <3>1, <3>2, <1>5
  <2>2. Content(Fill(h, k)) = Content(h) \o mem
    BY <2>1, <1>5, <1>7, FillContent
  <2> QED BY <2>2, <1>5, <1>6
<1>10. g.write = IF w + k < c THEN w + k ELSE 0
  <2>1. g.write = (h.write + FillCount(h, k)) % h.capacity
    BY <1>5, <1>6 DEF Fill, CFifoOf
  <2>2. w \in 0 .. c - 1 /\ k \in 0 .. c
    BY <1>1, <1>3
  <2>3. (w + k) % c = IF w + k < c THEN w + k ELSE w + k - c
    BY <2>2, ModWrap
  <2> QED BY <2>1, <2>3, <1>1, <1>3, <1>5, <1>7
<1>11. /\ WriteWraps(g) <=> g.write + (c - (L + k)) > c
       /\ WriteWraps(f) <=> w + (c - L) > c
  BY <1>1, <1>8, FieldTypes DEF WriteWraps
<1>12. WriteWraps(g) => WriteWraps(f)
  BY <1>1, <1>3, <1>10, <1>11
<1>13. ASSUME k = ContinuousWriteLength(f)
       PROVE  ~WriteWraps(g) /\ (~WriteWraps(f) => Length(g) = c)
  <2>1. k = IF c - L < c - w THEN c - L ELSE c - w
    BY <1>2, <1>13 DEF Least
  <2>2. CASE c - L < c - w
    <3>1. k = c - L /\ w + k < c
      BY <2>1, <2>2, <1>1
    <3> QED BY <3>1, <1>1, <1>8, <1>10, <1>11
  <2>3. CASE ~(c - L < c - w)
    <3>1. w + k = c
      BY <2>1, <2>3, <1>1
    <3>2. g.write = 0
      BY <3>1, <1>10
    <3>3. ~WriteWraps(g)
      BY <3>2, <1>1, <1>11
    <3>4. ~WriteWraps(f) => L + k = c
      BY <3>1, <1>1, <1>3, <1>11
    <3> QED BY <3>3, <3>4, <1>8
  <2> QED BY <2>2, <2>3
<1> QED BY <1>1, <1>3, <1>8, <1>9, <1>12, <1>13

Filled(f, mem, k) == Fill([f EXCEPT !.buffer = CopyIn(f, mem, 1, k)], k)

LEMMA TargetFilled ==
  ASSUME NEW c \in Nat \ {0}, NEW f \in CFifoOf(c), NEW mem \in Seq(Value),
         NEW k \in Nat, k = Len(mem), k <= ContinuousWriteLength(f),
         NEW g, g = Filled(f, mem, k)
  PROVE  /\ k <= c - Length(f)
         /\ g \in CFifoOf(c)
         /\ Length(g) = Length(f) + k
         /\ Content(g) = Content(f) \o mem
         /\ WriteWraps(g) => WriteWraps(f)
         /\ k = ContinuousWriteLength(f) => ~WriteWraps(g)
         /\ k = ContinuousWriteLength(f) /\ ~WriteWraps(f) => Length(g) = c
  BY TargetRound DEF Filled

-----------------------------------------------------------------------------
(* How many rounds are left at most: one if the loop goes on, and one more *)
(* for each ring that still has to be followed past the end of its buffer. *)
(* A round that ends at neither end, and does not satisfy the request,     *)
(* empties the source or fills the target.                                 *)
One(condition) == IF condition THEN 1 ELSE 0
RoundsLeft == One(LoopCondition) + One(ReadWraps(src)) + One(WriteWraps(tgt))
RoundsBounded == transfer.running => transfer.rounds + RoundsLeft <= MaxRounds

(* The inductive invariant: the bound of rounds in PipeTypeOK rests on     *)
(* RoundsBounded, which needs the types of the rings.                      *)
PipeInv == PipeTypeOK /\ RoundsBounded /\ MovesAllItCan

TransferType == [running: BOOLEAN, requested: Nat, num: Nat, due: Nat, rounds: 0 .. MaxRounds]

LEMMA PipeInitCorrect == PipeInit => PipeInv
<1> SUFFICES ASSUME PipeInit PROVE PipeInv
  OBVIOUS
<1>1. /\ src \in CFifoOf(SrcCapacity) /\ Length(src) = 0
      /\ tgt \in CFifoOf(TgtCapacity) /\ Length(tgt) = 0
  <2>1. ASSUME NEW c \in Nat \ {0}, NEW f \in {InitFifo(b, c) : b \in [0 .. c - 1 -> {Default}]}
        PROVE  f \in CFifoOf(c) /\ Length(f) = 0
    <3>1. PICK b \in [0 .. c - 1 -> {Default}] : f = InitFifo(b, c)
      OBVIOUS
    <3>2. b \in [0 .. c - 1 -> Value]
      BY DefaultAssumption
    <3> QED BY <3>1, <3>2 DEF InitFifo, CFifoOf, Length, State
  <2> QED BY <2>1, PipeAssumption DEF PipeInit
<1>2. transfer \in TransferType /\ ~transfer.running
  BY DEF PipeInit, TransferType, MaxRounds
<1> QED BY <1>1, <1>2 DEF PipeInv, PipeTypeOK, RoundsBounded, MovesAllItCan, TransferType

(* A call moves as much as both ends allow; it starts with no round done.  *)
LEMMA CallStep ==
  ASSUME PipeInv, NEW num \in 0 .. MaxTransfer, Call(num)
  PROVE  PipeInv'
<1>1. /\ src \in CFifoOf(SrcCapacity) /\ tgt \in CFifoOf(TgtCapacity)
      /\ src' = src /\ tgt' = tgt
  BY DEF PipeInv, PipeTypeOK, Call
<1>2. PICK S \in Nat, R \in Nat : S = Length(src) /\ R = TgtCapacity - Length(tgt)
  BY <1>1, PipeAssumption, LengthCases
<1>3. num \in Nat
  BY PipeAssumption
<1>4. Least(num, Least(S, R)) \in Nat
  BY <1>3 DEF Least
<1>5. transfer' = [running |-> TRUE, requested |-> num, num |-> num, rounds |-> 0,
               due |-> Least(num, Least(S, R))]
  BY <1>2 DEF Call
<1>6. transfer' \in TransferType
  BY <1>3, <1>4, <1>5 DEF TransferType, MaxRounds
<1>7. RoundsBounded'
  <2>1. RoundsLeft' \in Nat /\ RoundsLeft' <= 3
    BY DEF RoundsLeft, One
  <2>2. transfer'.rounds = 0
    BY <1>5
  <2>3. transfer'.rounds + RoundsLeft' <= 3
    <3> DEFINE x == RoundsLeft'
               y == transfer'.rounds
    <3>1. x \in Nat /\ x <= 3 /\ y = 0
      BY <2>1, <2>2
    <3> HIDE DEF x, y
    <3>2. y + x <= 3
      BY <3>1
    <3> QED BY <3>2 DEF x, y
  <2> QED BY <2>3 DEF RoundsBounded, MaxRounds
<1>8. MovesAllItCan'
  <2>1. S = Length(src)' /\ R = TgtCapacity - Length(tgt)'
    BY <1>1, <1>2
  <2> QED BY <2>1, <1>3, <1>4, <1>5 DEF MovesAllItCan
<1> QED BY <1>1, <1>6, <1>7, <1>8 DEF PipeInv, PipeTypeOK, TransferType

(* The rounds and the lengths they copy. *)
LEMMA RoundStep ==
  ASSUME PipeInv, Round
  PROVE  PipeInv' /\ Content(tgt') \o Content(src') = Content(tgt) \o Content(src)
<1>1. /\ src \in CFifoOf(SrcCapacity) /\ tgt \in CFifoOf(TgtCapacity) /\ transfer \in TransferType
      /\ transfer.running /\ LoopCondition
  BY DEF PipeInv, PipeTypeOK, Round, TransferType
<1>2. SrcCapacity \in Nat \ {0} /\ TgtCapacity \in Nat \ {0}
  BY PipeAssumption
<1> DEFINE k == RoundLength(transfer.num)
           mem == CopyOut(src, k)
           rd == ContinuousReadLength(src)
           wr == ContinuousWriteLength(tgt)
<1>3. /\ rd \in Nat /\ rd <= Length(src)
      /\ wr \in Nat /\ wr <= TgtCapacity - Length(tgt)
      /\ Length(src) \in Nat /\ Length(tgt) \in Nat
  BY SMTT(60), <1>1, <1>2, ContinuousLengths, LengthCases, FieldTypes DEF Least
<1>4. transfer.num \in Nat /\ transfer.requested \in Nat /\ transfer.due \in Nat /\ transfer.rounds \in 0 .. MaxRounds
  BY <1>1 DEF TransferType
<1>5. /\ k \in Nat /\ k <= rd /\ k <= wr /\ k <= transfer.num
      /\ k = transfer.num \/ k = rd \/ k = wr
  BY <1>3, <1>4 DEF RoundLength, Least
<1>6. /\ tgt' = Fill([tgt EXCEPT !.buffer = CopyIn(tgt, mem, 1, k)], k)
      /\ src' = Discard(src, k)
      /\ transfer' = [transfer EXCEPT !.num = @ - k, !.rounds = Least(@ + 1, MaxRounds + 1)]
  BY DEF Round
<1> HIDE DEF k, rd, wr
<1>7. /\ k <= Length(src)
      /\ src' \in CFifoOf(SrcCapacity)
      /\ Length(src') = Length(src) - k
      /\ mem = SubSeq(Content(src), 1, k)
      /\ Content(src') = SubSeq(Content(src), k + 1, Len(Content(src)))
      /\ ReadWraps(src') => ReadWraps(src)
      /\ k = rd => ~ReadWraps(src')
      /\ k = rd /\ ~ReadWraps(src) => Length(src') = 0
  <2>1. k <= ContinuousReadLength(src)
    BY <1>5 DEF rd
  <2> QED BY <2>1, <1>1, <1>2, <1>5, <1>6, SourceRound DEF rd
<1>8. Content(src) \in Seq(Value) /\ Len(Content(src)) = Length(src) /\ Content(tgt) \in Seq(Value)
  BY <1>1, <1>2, ContentType
<1>9. mem \in Seq(Value) /\ Len(mem) = k
  BY <1>3, <1>5, <1>7, <1>8
<1> HIDE DEF mem
<1>10. /\ tgt' \in CFifoOf(TgtCapacity)
       /\ Length(tgt') = Length(tgt) + k
       /\ Content(tgt') = Content(tgt) \o mem
       /\ WriteWraps(tgt') => WriteWraps(tgt)
       /\ k = wr => ~WriteWraps(tgt')
       /\ k = wr /\ ~WriteWraps(tgt) => Length(tgt') = TgtCapacity
  <2>1. k \in Nat /\ k = Len(mem) /\ k <= ContinuousWriteLength(tgt)
    BY <1>5, <1>9 DEF wr
  <2>2. tgt' = Filled(tgt, mem, k)
    BY <1>6 DEF Filled
  <2> QED BY <2>1, <2>2, <1>1, <1>2, <1>9, TargetFilled DEF wr
<1>11. Content(tgt') \o Content(src') = Content(tgt) \o Content(src)
  <2>1. mem \o Content(src') = Content(src)
    <3> DEFINE c == Content(src)
    <3>1. c \in Seq(Value) /\ k \in Nat /\ k <= Len(c)
      BY <1>5, <1>7, <1>8
    <3>2. mem = SubSeq(c, 1, k) /\ Content(src') = SubSeq(c, k + 1, Len(c))
      BY <1>7
    <3> HIDE DEF c
    <3>3. SubSeq(c, 1, k) \o SubSeq(c, k + 1, Len(c)) = c
      <4>1. 1 \in 1 .. Len(c) + 1 /\ k \in 1 - 1 .. Len(c) /\ Len(c) \in k .. Len(c)
        BY <3>1
      <4>2. SubSeq(c, 1, k) \o SubSeq(c, k + 1, Len(c)) = SubSeq(c, 1, Len(c))
        BY <3>1, <4>1, ConcatAdjacentSubSeq
      <4>3. SubSeq(c, 1, Len(c)) = c
        BY <3>1
      <4> QED BY <4>2, <4>3
    <3> QED BY <3>2, <3>3 DEF c
  <2>2. Content(src') \in Seq(Value)
    BY <1>2, <1>7, ContentType
  <2>3. (Content(tgt) \o mem) \o Content(src') = Content(tgt) \o (mem \o Content(src'))
    BY <2>2, <1>8, <1>9, Associative
  <2> QED BY <2>1, <2>3, <1>10
<1>12. RoundsBounded' /\ transfer.rounds + 1 <= MaxRounds
  <2>1. /\ transfer.rounds + 1 + One(ReadWraps(src)) + One(WriteWraps(tgt)) <= MaxRounds
        /\ One(ReadWraps(src)) \in 0 .. 1 /\ One(WriteWraps(tgt)) \in 0 .. 1
    BY <1>1, <1>4 DEF PipeInv, RoundsBounded, RoundsLeft, One
  <2>2. transfer.rounds + 1 <= MaxRounds
    BY <2>1, <1>4 DEF MaxRounds
  <2>3. transfer'.num = transfer.num - k /\ transfer'.rounds = transfer.rounds + 1 /\ transfer'.running
    BY <2>2, <1>1, <1>4, <1>6 DEF TransferType, Least, MaxRounds
  <2>4. LoopCondition' <=> transfer'.num > 0 /\ Length(src') # 0 /\ Length(tgt') # TgtCapacity
    <3>1. (State(src') = "EMPTY") <=> (Length(src') = 0)
      BY <1>2, <1>7, LengthCases
    <3>2. (State(tgt') = "FULL") <=> (Length(tgt') = TgtCapacity)
      BY <1>2, <1>10, LengthCases
    <3> QED BY <3>1, <3>2 DEF LoopCondition
  <2>5. One(LoopCondition') + One(ReadWraps(src')) + One(WriteWraps(tgt'))
          <= One(ReadWraps(src)) + One(WriteWraps(tgt))
    <3>1. CASE k = transfer.num
      <4>1. ~LoopCondition'
        BY <3>1, <2>3, <2>4, <1>4
      <4> QED BY <4>1, <1>7, <1>10 DEF One
    <3>2. CASE k = rd
      BY <3>2, <2>4, <1>7, <1>10 DEF One
    <3>3. CASE k = wr
      BY <3>3, <2>4, <1>7, <1>10 DEF One
    <3> QED BY <3>1, <3>2, <3>3, <1>5
  <2>6. RoundsLeft' = One(LoopCondition') + One(ReadWraps(src')) + One(WriteWraps(tgt'))
    BY DEF RoundsLeft, One
  <2>7. RoundsLeft' \in Nat
    BY DEF RoundsLeft, One
  <2> QED BY <2>1, <2>2, <2>3, <2>5, <2>6, <2>7, <1>4 DEF RoundsBounded, MaxRounds
<1>13. transfer' \in TransferType
  <2>1. transfer.num - k \in Nat
    BY <1>4, <1>5
  <2>2. Least(transfer.rounds + 1, MaxRounds + 1) \in 0 .. MaxRounds
    BY <1>4, <1>12 DEF Least, MaxRounds
  <2> QED BY <2>1, <2>2, <1>1, <1>6 DEF TransferType
<1>14. MovesAllItCan'
  <2> DEFINE S == Length(src)
             R == TgtCapacity - Length(tgt)
  <2>1. /\ S \in Nat /\ R \in Nat /\ k <= S /\ k <= R
        /\ Length(src)' = S - k /\ TgtCapacity - Length(tgt)' = R - k
    BY <1>2, <1>3, <1>5, <1>7, <1>10
  <2>2. (transfer.requested - transfer.num) + Least(transfer.num, Least(S, R)) = transfer.due
    BY <1>1 DEF PipeInv, MovesAllItCan
  <2> HIDE DEF S, R
  <2>3. Least(transfer.num - k, Least(S - k, R - k)) = Least(transfer.num, Least(S, R)) - k
    BY <2>1, <1>4, <1>5 DEF Least
  <2>4. Least(transfer.num, Least(S, R)) \in Nat
    BY <2>1, <1>4 DEF Least
  <2>5. transfer'.num = transfer.num - k /\ transfer'.requested = transfer.requested /\ transfer'.due = transfer.due
    BY <1>1, <1>6 DEF TransferType
  <2>6. (transfer.requested - (transfer.num - k)) + (Least(transfer.num, Least(S, R)) - k) = transfer.due
    BY <2>2, <2>4, <1>4, <1>5
  <2> QED BY <2>1, <2>3, <2>5, <2>6 DEF MovesAllItCan
<1> QED BY <1>7, <1>10, <1>11, <1>12, <1>13, <1>14 DEF PipeInv, PipeTypeOK, TransferType

(* Between the calls, and when one returns, only the types matter. *)
LEMMA OtherSteps ==
  ASSUME PipeInv,
         \/ \E elem \in Value : Produce(elem)
         \/ Consume \/ Return \/ UNCHANGED pipeVars
  PROVE  PipeInv' /\ (transfer.running => Content(tgt') \o Content(src') = Content(tgt) \o Content(src))
<1>1. /\ src \in CFifoOf(SrcCapacity) /\ tgt \in CFifoOf(TgtCapacity) /\ transfer \in TransferType
      /\ SrcCapacity \in Nat \ {0} /\ TgtCapacity \in Nat \ {0}
  BY PipeAssumption DEF PipeInv, PipeTypeOK, TransferType
<1>2. ASSUME NEW elem \in Value, Produce(elem) PROVE PipeInv' /\ ~transfer.running
  <2>1. src' \in CFifoOf(SrcCapacity)
    BY <1>1, <1>2, PushLemma DEF Produce
  <2> QED BY <1>1, <1>2, <2>1 DEF Produce, PipeInv, PipeTypeOK, RoundsBounded, MovesAllItCan, TransferType
<1>3. ASSUME Consume PROVE PipeInv' /\ ~transfer.running
  <2>1. tgt' \in CFifoOf(TgtCapacity)
    <3>1. 1 \in Nat
      OBVIOUS
    <3> QED BY <3>1, <1>1, <1>3, PopLemma, DiscardFields DEF Consume
  <2> QED BY <1>1, <1>3, <2>1 DEF Consume, PipeInv, PipeTypeOK, RoundsBounded, MovesAllItCan, TransferType
<1>4. ASSUME Return PROVE PipeInv' /\ src' = src /\ tgt' = tgt
  <2>1. transfer' \in TransferType /\ ~transfer'.running
    BY <1>1, <1>4 DEF Return, TransferType
  <2> QED BY <1>1, <1>4, <2>1 DEF Return, PipeInv, PipeTypeOK, RoundsBounded, MovesAllItCan, TransferType
<1>5. ASSUME UNCHANGED pipeVars PROVE PipeInv' /\ src' = src /\ tgt' = tgt
  BY <1>5 DEF pipeVars, PipeInv, PipeTypeOK, RoundsBounded, RoundsLeft, LoopCondition, MovesAllItCan
<1> QED BY <1>2, <1>3, <1>4, <1>5

(* Every step keeps the invariant, and the elements of both rings in order *)
(* while a call runs.                                                      *)
LEMMA PipeStepCorrect ==
  ASSUME PipeInv, [PipeNext]_pipeVars
  PROVE  PipeInv' /\ (transfer.running => Content(tgt') \o Content(src') = Content(tgt) \o Content(src))
<1>1. CASE Round
  BY <1>1, RoundStep
<1>2. ASSUME NEW num \in 0 .. MaxTransfer, Call(num) PROVE PipeInv' /\ ~transfer.running
  BY <1>2, CallStep DEF Call
<1> QED BY <1>1, <1>2, OtherSteps DEF PipeNext

LEMMA PipeInvariant == PipeSpec => []PipeInv
  BY PipeInitCorrect, PipeStepCorrect, PTL DEF PipeSpec

(* popfifo keeps both structs well formed, and its loop runs at most three *)
(* times a call, whatever the capacities and the alignments of the rings.  *)
THEOREM PipeTypeCorrect == PipeSpec => []PipeTypeOK
<1>1. PipeInv => PipeTypeOK
  BY DEF PipeInv
<1> QED BY <1>1, PipeInvariant, PTL

(* The rounds of a call never stop short of what one copy would move and   *)
(* never go beyond the request.                                            *)
THEOREM MovesAll == PipeSpec => []MovesAllItCan
<1>1. PipeInv => MovesAllItCan
  BY DEF PipeInv
<1> QED BY <1>1, PipeInvariant, PTL

(* A round moves elements from the head of the source to the tail of the   *)
(* target, in order, and loses or repeats none.                            *)
THEOREM OrderKept == PipeSpec => RoundKeepsOrder
<1>1. PipeInv /\ [PipeNext]_pipeVars =>
        [transfer.running => Content(tgt') \o Content(src') = Content(tgt) \o Content(src)]_pipeVars
  BY PipeStepCorrect
<1> QED BY <1>1, PipeInvariant, PTL DEF PipeSpec, RoundKeepsOrder
=============================================================================
