---------------------------- MODULE CFifoProofs ----------------------------
(***************************************************************************)
(* What the operations of fifo.c do to the content of a fifo, for every    *)
(* capacity.  The argument goes through slots: the write index is the slot *)
(* that follows the content (WriteIsNextSlot), so an operation that moves  *)
(* write forward by n appends the n slots it passes (ContentAdded), and one*)
(* that moves read forward by n drops the n oldest elements                *)
(* (ContentRemoved).  pushmem and popmem are two such moves at most        *)
(* (PushMemRecursion, PopMemRecursion), and peekmem two copies at most     *)
(* (PeekMemUnfolds), which read the elements asked (PeekMemLemma).         *)
(***************************************************************************)
EXTENDS CFifo, SequenceTheorems, TLAPS

(* Modulo a capacity, for arguments below twice the capacity. *)
LEMMA ModWrap ==
  ASSUME NEW c \in Nat \ {0}, NEW a \in 0 .. c - 1, NEW k \in 0 .. c
  PROVE  (a + k) % c = IF a + k < c THEN a + k ELSE a + k - c
  BY SMT

(* The fields of a fifo, one by one. *)
LEMMA FieldTypes ==
  ASSUME NEW c \in Nat \ {0}, NEW f \in CFifoOf(c)
  PROVE  /\ f.capacity = c
         /\ f.read \in 0 .. c - 1
         /\ f.write \in 0 .. c - 1
         /\ f.last_op \in {"PUSH", "POP"}
         /\ f.buffer \in [0 .. c - 1 -> Value]
  BY DEF CFifoOf

(* pelib_cfifo_length by cases on the indices; a fifo is FULL or EMPTY *)
(* exactly when it holds as many elements as it has slots, or none.    *)
LEMMA LengthCases ==
  ASSUME NEW c \in Nat \ {0}, NEW f \in CFifoOf(c)
  PROVE  /\ Length(f) = IF f.read = f.write THEN IF f.last_op = "POP" THEN 0 ELSE c
                        ELSE IF f.read < f.write THEN f.write - f.read
                        ELSE c - (f.read - f.write)
         /\ Length(f) \in 0 .. c
         /\ State(f) = "FULL" <=> Length(f) = c
         /\ State(f) = "EMPTY" <=> Length(f) = 0
<1>1. f.capacity = c /\ f.read \in 0 .. c - 1 /\ f.write \in 0 .. c - 1
      /\ f.last_op \in {"PUSH", "POP"}
  BY FieldTypes
<1> QED BY <1>1, SMT DEF Length, State

(* Where the k-th element from read on sits: the index wraps once. *)
LEMMA SlotValue ==
  ASSUME NEW c \in Nat \ {0}, NEW f \in CFifoOf(c), NEW k \in 0 .. c
  PROVE  /\ Slot(f, k) = IF f.read + k < c THEN f.read + k ELSE f.read + k - c
         /\ Slot(f, k) \in 0 .. c - 1
<1>1. f.capacity = c /\ f.read \in 0 .. c - 1
  BY FieldTypes
<1>2. (f.read + k) % c = IF f.read + k < c THEN f.read + k ELSE f.read + k - c
  BY <1>1, ModWrap
<1> QED BY <1>1, <1>2 DEF Slot

(* The write index is the slot that follows the content: last_op tells the *)
(* full fifo from the empty one, which have the same indices.              *)
LEMMA WriteIsNextSlot ==
  ASSUME NEW c \in Nat \ {0}, NEW f \in CFifoOf(c)
  PROVE  f.write = Slot(f, Length(f))
<1>1. f.capacity = c /\ f.read \in 0 .. c - 1 /\ f.write \in 0 .. c - 1
      /\ f.last_op \in {"PUSH", "POP"}
  BY FieldTypes
<1>2. Length(f) = IF f.read = f.write THEN IF f.last_op = "POP" THEN 0 ELSE c
                  ELSE IF f.read < f.write THEN f.write - f.read
                  ELSE c - (f.read - f.write)
  BY LengthCases
<1>3. Length(f) \in 0 .. c
  BY LengthCases
<1>4. Slot(f, Length(f)) = IF f.read + Length(f) < c THEN f.read + Length(f)
                           ELSE f.read + Length(f) - c
  BY <1>3, SlotValue
<1> QED BY <1>1, <1>2, <1>4

(* The content is a sequence of values, as long as the length says. *)
LEMMA ContentType ==
  ASSUME NEW c \in Nat \ {0}, NEW f \in CFifoOf(c)
  PROVE  /\ Content(f) \in Seq(Value)
         /\ Len(Content(f)) = Length(f)
         /\ \A i \in 1 .. Length(f) : Content(f)[i] = f.buffer[Slot(f, i - 1)]
<1>1. Length(f) \in 0 .. c /\ f.buffer \in [0 .. c - 1 -> Value]
  BY LengthCases, FieldTypes
<1>2. \A k \in 0 .. c : Slot(f, k) \in 0 .. c - 1
  BY SlotValue
<1>3. \A i \in 1 .. Length(f) : f.buffer[Slot(f, i - 1)] \in Value
  BY <1>1, <1>2
<1> QED BY <1>1, <1>3 DEF Content

(* Two elements of one fifo never share a slot. *)
LEMMA SlotsDistinct ==
  ASSUME NEW c \in Nat \ {0}, NEW f \in CFifoOf(c),
         NEW j \in 0 .. c - 1, NEW k \in 0 .. c - 1, j # k
  PROVE  Slot(f, j) # Slot(f, k)
<1>1. f.read \in 0 .. c - 1
  BY FieldTypes
<1>2. Slot(f, j) = IF f.read + j < c THEN f.read + j ELSE f.read + j - c
  BY SlotValue
<1>3. Slot(f, k) = IF f.read + k < c THEN f.read + k ELSE f.read + k - c
  BY SlotValue
<1> QED BY <1>1, <1>2, <1>3

(* What a fifo is after n elements were added at its write index. *)
LEMMA WriteAdvanced ==
  ASSUME NEW c \in Nat \ {0}, NEW f \in CFifoOf(c), NEW g \in CFifoOf(c),
         NEW n \in Nat, n <= c - Length(f),
         g.read = f.read, g.write = (f.write + n) % c,
         g.last_op = IF n > 0 THEN "PUSH" ELSE f.last_op
  PROVE  /\ Length(g) = Length(f) + n
         /\ \A k \in 0 .. c : Slot(g, k) = Slot(f, k)
<1>1. /\ f.read \in 0 .. c - 1 /\ f.write \in 0 .. c - 1
      /\ f.last_op \in {"PUSH", "POP"} /\ f.capacity = c /\ g.capacity = c
  BY FieldTypes
<1>2. Length(f) \in 0 .. c
  BY LengthCases
<1>a. n \in 0 .. c
  BY <1>2
<1>3. g.write = IF f.write + n < c THEN f.write + n ELSE f.write + n - c
  BY <1>1, <1>a, ModWrap
<1>4. Length(f) = IF f.read = f.write THEN IF f.last_op = "POP" THEN 0 ELSE c
                  ELSE IF f.read < f.write THEN f.write - f.read
                  ELSE c - (f.read - f.write)
  BY LengthCases
<1>5. Length(g) = IF g.read = g.write THEN IF g.last_op = "POP" THEN 0 ELSE c
                  ELSE IF g.read < g.write THEN g.write - g.read
                  ELSE c - (g.read - g.write)
  BY LengthCases
<1>6. Length(g) = Length(f) + n
  BY <1>1, <1>2, <1>3, <1>4, <1>5
<1>7. \A k \in 0 .. c : Slot(g, k) = Slot(f, k)
  BY <1>1 DEF Slot
<1> QED BY <1>6, <1>7

(* What a fifo is after its n oldest elements were removed. *)
LEMMA ReadAdvanced ==
  ASSUME NEW c \in Nat \ {0}, NEW f \in CFifoOf(c), NEW g \in CFifoOf(c),
         NEW n \in Nat, n <= Length(f),
         g.write = f.write, g.read = (f.read + n) % c,
         g.last_op = IF n > 0 THEN "POP" ELSE f.last_op
  PROVE  /\ Length(g) = Length(f) - n
         /\ \A k \in 0 .. c - n : Slot(g, k) = Slot(f, n + k)
<1>1. /\ f.read \in 0 .. c - 1 /\ f.write \in 0 .. c - 1 /\ g.read \in 0 .. c - 1
      /\ f.last_op \in {"PUSH", "POP"}
  BY FieldTypes
<1>2. Length(f) \in 0 .. c
  BY LengthCases
<1>a. n \in 0 .. c
  BY <1>2
<1>3. g.read = IF f.read + n < c THEN f.read + n ELSE f.read + n - c
  BY <1>1, <1>a, ModWrap
<1>4. Length(f) = IF f.read = f.write THEN IF f.last_op = "POP" THEN 0 ELSE c
                  ELSE IF f.read < f.write THEN f.write - f.read
                  ELSE c - (f.read - f.write)
  BY LengthCases
<1>5. Length(g) = IF g.read = g.write THEN IF g.last_op = "POP" THEN 0 ELSE c
                  ELSE IF g.read < g.write THEN g.write - g.read
                  ELSE c - (g.read - g.write)
  BY LengthCases
<1>6. Length(g) = Length(f) - n
  <2>1. CASE n = 0
    BY <2>1, <1>1, <1>3, <1>4, <1>5
  <2>2. CASE n > 0 /\ f.read + n < c
    BY <2>2, <1>1, <1>2, <1>3, <1>4, <1>5
  <2>3. CASE n > 0 /\ f.read + n >= c
    <3>1. g.read = f.read + n - c /\ g.last_op = "POP"
      BY <2>3, <1>1, <1>3
    <3>2. f.read >= f.write
      BY <2>3, <1>1, <1>2, <1>4
    <3>3. Length(f) = c - (f.read - f.write)
      BY <2>3, <3>2, <1>1, <1>2, <1>4
    <3>4. g.read <= g.write
      BY <3>1, <3>3, <1>1
    <3>5. Length(g) = g.write - g.read
      BY <3>1, <3>4, <1>1, <1>5
    <3> QED BY <3>1, <3>3, <3>5, <1>1
  <2> QED BY <2>1, <2>2, <2>3, <1>1, <1>a
<1>7. ASSUME NEW k \in 0 .. c - n PROVE Slot(g, k) = Slot(f, n + k)
  <2>1. k \in 0 .. c /\ n + k \in 0 .. c
    BY <1>2
  <2>2. Slot(g, k) = IF g.read + k < c THEN g.read + k ELSE g.read + k - c
    BY <2>1, SlotValue
  <2>3. Slot(f, n + k) = IF f.read + (n + k) < c THEN f.read + (n + k)
                         ELSE f.read + (n + k) - c
    BY <2>1, SlotValue
  <2> QED BY <1>1, <1>2, <1>3, <2>1, <2>2, <2>3
<1> QED BY <1>6, <1>7

(* The content after elements are added, in any of the ways the code has:  *)
(* the old slots are unchanged and the new ones hold s.                    *)
LEMMA ContentAdded ==
  ASSUME NEW c \in Nat \ {0}, NEW f \in CFifoOf(c), NEW g \in CFifoOf(c),
         NEW s \in Seq(Value), Len(s) <= c - Length(f),
         g.read = f.read, g.write = (f.write + Len(s)) % c,
         g.last_op = IF Len(s) > 0 THEN "PUSH" ELSE f.last_op,
         \A k \in 0 .. Length(f) - 1 : g.buffer[Slot(f, k)] = f.buffer[Slot(f, k)],
         \A i \in 1 .. Len(s) : g.buffer[Slot(f, Length(f) + i - 1)] = s[i]
  PROVE  Content(g) = Content(f) \o s
<1>1. Length(f) \in 0 .. c /\ Len(s) \in Nat
  BY LengthCases
<1>2. Length(g) = Length(f) + Len(s) /\ \A k \in 0 .. c : Slot(g, k) = Slot(f, k)
  BY <1>1, WriteAdvanced
<1>3. /\ Content(f) \in Seq(Value) /\ Len(Content(f)) = Length(f)
      /\ \A i \in 1 .. Length(f) : Content(f)[i] = f.buffer[Slot(f, i - 1)]
  BY ContentType
<1>4. /\ Content(g) \in Seq(Value) /\ Len(Content(g)) = Length(g)
      /\ \A i \in 1 .. Length(g) : Content(g)[i] = g.buffer[Slot(g, i - 1)]
  BY ContentType
<1> DEFINE t == Content(f) \o s
<1>s. /\ t \in Seq(Value) /\ Len(t) = Length(f) + Len(s)
      /\ \A i \in 1 .. Length(f) + Len(s) :
           t[i] = IF i <= Length(f) THEN Content(f)[i] ELSE s[i - Length(f)]
  <2>1. /\ t \in Seq(Value) /\ Len(t) = Len(Content(f)) + Len(s)
        /\ \A i \in 1 .. Len(Content(f)) + Len(s) :
             t[i] = IF i <= Len(Content(f)) THEN Content(f)[i] ELSE s[i - Len(Content(f))]
    BY <1>3, ConcatProperties
  <2> QED BY <2>1, <1>3
<1> HIDE DEF t
<1>5. ASSUME NEW i \in 1 .. Length(g) PROVE Content(g)[i] = t[i]
  <2>1. i - 1 \in 0 .. c /\ Content(g)[i] = g.buffer[Slot(f, i - 1)]
    BY <1>1, <1>2, <1>4
  <2>2. CASE i <= Length(f)
    <3>1. i \in 1 .. Length(f) /\ i - 1 \in 0 .. Length(f) - 1
      BY <2>2, <1>1, <1>2
    <3>2. Content(g)[i] = Content(f)[i]
      BY <2>1, <3>1, <1>3
    <3> QED BY <3>2, <2>2, <1>2, <1>s
  <2>3. CASE i > Length(f)
    <3>1. i - Length(f) \in 1 .. Len(s) /\ Length(f) + (i - Length(f)) - 1 = i - 1
      BY <2>3, <1>1, <1>2
    <3>2. Content(g)[i] = s[i - Length(f)]
      BY <2>1, <3>1
    <3>3. i \in 1 .. Length(f) + Len(s) /\ ~ i <= Length(f)
      BY <2>3, <1>1, <1>2
    <3> QED BY <3>2, <3>3, <1>s
  <2> QED BY <2>2, <2>3, <1>1
<1>6. Content(g) = t
  BY <1>2, <1>4, <1>5, <1>s, SeqEqual
<1> QED BY <1>6 DEF t

(* The content after the n oldest elements are removed. *)
LEMMA ContentRemoved ==
  ASSUME NEW c \in Nat \ {0}, NEW f \in CFifoOf(c), NEW g \in CFifoOf(c),
         NEW n \in Nat, n <= Length(f),
         g.write = f.write, g.read = (f.read + n) % c, g.buffer = f.buffer,
         g.last_op = IF n > 0 THEN "POP" ELSE f.last_op
  PROVE  Content(g) = SubSeq(Content(f), n + 1, Len(Content(f)))
<1>1. Length(f) \in 0 .. c
  BY LengthCases
<1>2. Length(g) = Length(f) - n /\ \A k \in 0 .. c - n : Slot(g, k) = Slot(f, n + k)
  BY ReadAdvanced
<1>3. /\ Content(f) \in Seq(Value) /\ Len(Content(f)) = Length(f)
      /\ \A i \in 1 .. Length(f) : Content(f)[i] = f.buffer[Slot(f, i - 1)]
  BY ContentType
<1>4. /\ Content(g) \in Seq(Value) /\ Len(Content(g)) = Length(g)
      /\ \A i \in 1 .. Length(g) : Content(g)[i] = g.buffer[Slot(g, i - 1)]
  BY ContentType
<1> DEFINE t == SubSeq(Content(f), n + 1, Len(Content(f)))
<1>5. /\ t \in Seq(Value) /\ Len(t) = Length(g)
      /\ \A i \in 1 .. Length(g) : t[i] = Content(f)[n + i]
  BY <1>1, <1>2, <1>3
<1>6. ASSUME NEW i \in 1 .. Length(g) PROVE Content(g)[i] = t[i]
  <2>1. i - 1 \in 0 .. c - n /\ n + i \in 1 .. Length(f) /\ n + (i - 1) = n + i - 1
    BY <1>1, <1>2
  <2>2. Content(g)[i] = f.buffer[Slot(f, n + i - 1)]
    BY <2>1, <1>2, <1>4
  <2>3. Content(f)[n + i] = f.buffer[Slot(f, n + i - 1)]
    BY <2>1, <1>3
  <2> QED BY <2>2, <2>3, <1>5
<1> HIDE DEF t
<1>7. Content(g) = t
  BY <1>4, <1>5, <1>6
<1> QED BY <1>7 DEF t

-----------------------------------------------------------------------------
(* The operations on one element *)

(* pelib_cfifo_push appends its element. *)
LEMMA PushLemma ==
  ASSUME NEW c \in Nat \ {0}, NEW f \in CFifoOf(c), CanPush(f), NEW e \in Value
  PROVE  /\ Length(f) < c
         /\ Push(f, e) \in CFifoOf(c)
         /\ Content(Push(f, e)) = Append(Content(f), e)
<1> DEFINE g == Push(f, e)
<1>1. /\ f.capacity = c /\ f.read \in 0 .. c - 1 /\ f.write \in 0 .. c - 1
      /\ f.buffer \in [0 .. c - 1 -> Value]
  BY FieldTypes
<1>2. Length(f) < c /\ Length(f) \in Nat
  BY LengthCases DEF CanPush
<1>3. (f.write + 1) % c \in 0 .. c - 1
  BY <1>1
<1>4. g \in CFifoOf(c)
  BY <1>1, <1>3 DEF Push, CFifoOf
<1>5. /\ g.read = f.read /\ g.write = (f.write + 1) % c /\ g.last_op = "PUSH"
      /\ g.buffer = [f.buffer EXCEPT ![f.write] = e]
  BY <1>1 DEF Push, CFifoOf
<1>6. f.write = Slot(f, Length(f))
  BY WriteIsNextSlot
<1>7. \A k \in 0 .. Length(f) - 1 : Slot(f, k) \in 0 .. c - 1 /\ Slot(f, k) # f.write
  BY <1>2, <1>6, SlotsDistinct, SlotValue
<1> DEFINE s == <<e>>
<1>8. Content(g) = Content(f) \o s
  <2>1. s \in Seq(Value) /\ Len(s) = 1 /\ s[1] = e
    OBVIOUS
  <2> HIDE DEF g, s
  <2>2. \A k \in 0 .. Length(f) - 1 : g.buffer[Slot(f, k)] = f.buffer[Slot(f, k)]
    BY <1>1, <1>5, <1>7
  <2>3. \A i \in 1 .. Len(s) : g.buffer[Slot(f, Length(f) + i - 1)] = s[i]
    <3>1. g.buffer[Slot(f, Length(f))] = e
      BY <1>1, <1>5, <1>6
    <3>2. Length(f) + 1 - 1 = Length(f)
      BY <1>2
    <3> QED BY <2>1, <3>1, <3>2
  <2>4. Len(s) <= c - Length(f)
    BY <2>1, <1>2, <1>1
  <2>5. g.write = (f.write + Len(s)) % c
    BY <2>1, <1>5
  <2>6. g.last_op = IF Len(s) > 0 THEN "PUSH" ELSE f.last_op
    BY <2>1, <1>5
  <2> QED BY <2>1, <2>2, <2>3, <2>4, <2>5, <2>6, <1>4, <1>5, ContentAdded
<1>9. Content(f) \in Seq(Value)
  BY ContentType
<1> QED BY <1>2, <1>4, <1>8, <1>9, AppendIsConcat

(* Moving the read index keeps the type. *)
LEMMA RemoveType ==
  ASSUME NEW c \in Nat \ {0}, NEW f \in CFifoOf(c), NEW n \in 0 .. c,
         NEW op \in {"PUSH", "POP"}
  PROVE  [f EXCEPT !.read = (f.read + n) % c, !.last_op = op] \in CFifoOf(c)
<1>1. f.read \in 0 .. c - 1
  BY FieldTypes
<1>2. (f.read + n) % c \in 0 .. c - 1
  BY <1>1
<1> QED BY <1>2 DEF CFifoOf

(* pelib_cfifo_discard moves the read index only. *)
LEMMA DiscardFields ==
  ASSUME NEW c \in Nat \ {0}, NEW f \in CFifoOf(c), NEW num \in Nat
  PROVE  /\ DiscardCount(f, num) \in 0 .. Length(f)
         /\ Discard(f, num) \in CFifoOf(c)
         /\ Discard(f, num).buffer = f.buffer
         /\ Discard(f, num).write = f.write
         /\ Discard(f, num).read = (f.read + DiscardCount(f, num)) % c
         /\ Discard(f, num).last_op = IF DiscardCount(f, num) > 0 THEN "POP" ELSE f.last_op
<1> DEFINE n == DiscardCount(f, num)
           g == Discard(f, num)
<1>1. f.capacity = c /\ f.last_op \in {"PUSH", "POP"} /\ Length(f) \in 0 .. c
  BY FieldTypes, LengthCases
<1>2. n \in 0 .. Length(f)
  BY <1>1 DEF DiscardCount, Least
<1>3. g = [f EXCEPT !.read = (f.read + n) % c, !.last_op = IF n > 0 THEN "POP" ELSE f.last_op]
  BY <1>1 DEF Discard
<1>4. (IF n > 0 THEN "POP" ELSE f.last_op) \in {"PUSH", "POP"} /\ n \in 0 .. c
  BY <1>1, <1>2
<1>5. /\ g.write = f.write /\ g.read = (f.read + n) % c /\ g.buffer = f.buffer
      /\ g.last_op = IF n > 0 THEN "POP" ELSE f.last_op
  BY <1>3 DEF CFifoOf
<1> HIDE DEF n, g
<1>6. g \in CFifoOf(c)
  BY <1>3, <1>4, RemoveType
<1> QED BY <1>2, <1>5, <1>6 DEF n, g

(* pelib_cfifo_discard removes the oldest elements. *)
LEMMA DiscardContent ==
  ASSUME NEW c \in Nat \ {0}, NEW f \in CFifoOf(c), NEW num \in Nat,
         NEW n, n = DiscardCount(f, num)
  PROVE  /\ n = Least(num, Len(Content(f)))
         /\ Length(Discard(f, num)) = Length(f) - n
         /\ \A k \in 0 .. c - n : Slot(Discard(f, num), k) = Slot(f, n + k)
         /\ Content(Discard(f, num)) = SubSeq(Content(f), n + 1, Len(Content(f)))
<1> DEFINE g == Discard(f, num)
<1>1. Length(f) \in 0 .. c /\ Len(Content(f)) = Length(f)
  BY LengthCases, ContentType
<1>2. n = Least(num, Len(Content(f)))
  BY <1>1 DEF DiscardCount
<1>3. /\ n \in 0 .. Length(f) /\ g \in CFifoOf(c)
      /\ g.write = f.write /\ g.read = (f.read + n) % c /\ g.buffer = f.buffer
      /\ g.last_op = IF n > 0 THEN "POP" ELSE f.last_op
  BY DiscardFields
<1> HIDE DEF g
<1>4. n \in Nat /\ n <= Length(f)
  BY <1>1, <1>3
<1>5. Length(g) = Length(f) - n /\ \A k \in 0 .. c - n : Slot(g, k) = Slot(f, n + k)
  BY <1>3, <1>4, ReadAdvanced
<1>6. Content(g) = SubSeq(Content(f), n + 1, Len(Content(f)))
  BY <1>3, <1>4, ContentRemoved
<1> QED BY <1>2, <1>5, <1>6 DEF g

(* pelib_cfifo_peek and peekaddr at any offset give the element of the *)
(* content there, or Default and NULL past its end.                    *)
LEMMA PeekLemma ==
  ASSUME NEW c \in Nat \ {0}, NEW f \in CFifoOf(c), NEW offset \in Nat
  PROVE  /\ PeekAddr(f, offset, NULL).addr
              = IF offset < Length(f) THEN Slot(f, offset) ELSE NULL
         /\ Peek(f, offset) = IF offset < Length(f) THEN Content(f)[offset + 1] ELSE Default
<1>1. f.capacity = c /\ Length(f) \in 0 .. c
  BY FieldTypes, LengthCases
<1>2. offset < Length(f) => State(f) # "EMPTY"
  BY <1>1, LengthCases
<1>3. PeekAddr(f, offset, NULL).addr = IF offset < Length(f) THEN Slot(f, offset) ELSE NULL
  BY <1>1, <1>2 DEF PeekAddr, Slot
<1>4. ASSUME offset < Length(f) PROVE Peek(f, offset) = Content(f)[offset + 1]
  <2>1. offset \in 0 .. c /\ offset + 1 \in 1 .. Length(f) /\ offset + 1 - 1 = offset
    BY <1>1, <1>4
  <2>2. Slot(f, offset) # NULL
    BY <2>1, SlotValue DEF NULL
  <2>3. Peek(f, offset) = f.buffer[Slot(f, offset)]
    BY <1>3, <1>4, <2>2 DEF Peek
  <2> QED BY <2>1, <2>3, ContentType
<1>5. ASSUME ~ offset < Length(f) PROVE Peek(f, offset) = Default
  BY <1>3, <1>5 DEF Peek
<1> QED BY <1>3, <1>4, <1>5

(* Two fifos with the same fields are the same. *)
LEMMA SameFields ==
  ASSUME NEW c \in Nat \ {0}, NEW f \in CFifoOf(c), NEW g \in CFifoOf(c),
         f.read = g.read, f.write = g.write, f.last_op = g.last_op, f.buffer = g.buffer
  PROVE  f = g
  BY DEF CFifoOf

(* pelib_cfifo_pop discards one element. *)
LEMMA PopLemma ==
  ASSUME NEW c \in Nat \ {0}, NEW f \in CFifoOf(c)
  PROVE  Pop(f) = Discard(f, 1)
<1>1. /\ f.capacity = c /\ Length(f) \in 0 .. c /\ f.last_op \in {"PUSH", "POP"}
      /\ f.read \in 0 .. c - 1
  BY FieldTypes, LengthCases
<1>2. PeekAddr(f, 0, NULL).addr = IF 0 < Length(f) THEN Slot(f, 0) ELSE NULL
  BY PeekLemma
<1>3. Slot(f, 0) # NULL
  BY <1>1, SlotValue DEF NULL
<1>d. /\ Discard(f, 1) \in CFifoOf(c)
      /\ Discard(f, 1).buffer = f.buffer
      /\ Discard(f, 1).write = f.write
      /\ Discard(f, 1).read = (f.read + DiscardCount(f, 1)) % c
      /\ Discard(f, 1).last_op = IF DiscardCount(f, 1) > 0 THEN "POP" ELSE f.last_op
  <2>1. 1 \in Nat
    OBVIOUS
  <2> QED BY <2>1, DiscardFields
<1>4. CASE Length(f) > 0
  <2>1. DiscardCount(f, 1) = 1
    BY <1>1, <1>4 DEF DiscardCount, Least
  <2>2. PeekAddr(f, 0, NULL).addr # NULL
    BY <1>1, <1>2, <1>3, <1>4
  <2>3. Pop(f) = [f EXCEPT !.read = (f.read + 1) % f.capacity, !.last_op = "POP"]
    BY <2>2 DEF Pop
  <2>4. Pop(f) = [f EXCEPT !.read = (f.read + 1) % c, !.last_op = "POP"]
    BY <2>3, <1>1
  <2>5. 1 \in 0 .. c
    OBVIOUS
  <2>o. "POP" \in {"PUSH", "POP"}
    OBVIOUS
  <2>6. Pop(f) \in CFifoOf(c)
    <3>1. [f EXCEPT !.read = (f.read + 1) % c, !.last_op = "POP"] \in CFifoOf(c)
      BY <2>5, <2>o, RemoveType
    <3> QED BY <3>1, <2>4
  <2>7. /\ Pop(f).read = (f.read + 1) % c /\ Pop(f).last_op = "POP"
        /\ Pop(f).write = f.write /\ Pop(f).buffer = f.buffer
    BY <2>4 DEF CFifoOf
  <2>8. /\ Discard(f, 1) \in CFifoOf(c) /\ Discard(f, 1).buffer = f.buffer
        /\ Discard(f, 1).read = (f.read + 1) % c
        /\ Discard(f, 1).last_op = "POP" /\ Discard(f, 1).write = f.write
    BY <2>1, <1>d
  <2> QED BY <2>6, <2>7, <2>8, SameFields
<1>5. CASE Length(f) = 0
  <2>1. DiscardCount(f, 1) = 0
    BY <1>1, <1>5 DEF DiscardCount, Least
  <2>2. Pop(f) = f
    BY <1>2, <1>5 DEF Pop
  <2>3. (f.read + 0) % c = f.read
    <3>1. (f.read + 0) % c = IF f.read + 0 < c THEN f.read + 0 ELSE f.read + 0 - c
      BY <1>1, ModWrap
    <3> QED BY <3>1, <1>1
  <2>4. /\ Discard(f, 1) \in CFifoOf(c) /\ Discard(f, 1).buffer = f.buffer
        /\ Discard(f, 1).read = f.read
        /\ Discard(f, 1).last_op = f.last_op /\ Discard(f, 1).write = f.write
    BY <2>1, <2>3, <1>d
  <2> QED BY <2>2, <2>4, SameFields
<1> QED BY <1>1, <1>4, <1>5

-----------------------------------------------------------------------------
(* The operations on several elements *)

(* Moving the write index keeps the type. *)
LEMMA AddType ==
  ASSUME NEW c \in Nat \ {0}, NEW f \in CFifoOf(c), NEW n \in 0 .. c,
         NEW op \in {"PUSH", "POP"}
  PROVE  [f EXCEPT !.write = (f.write + n) % c, !.last_op = op] \in CFifoOf(c)
<1>1. f.write \in 0 .. c - 1
  BY FieldTypes
<1>2. (f.write + n) % c \in 0 .. c - 1
  BY <1>1
<1> QED BY <1>2 DEF CFifoOf

(* Where the j-th slot after the content sits, counted from write. *)
LEMMA SlotAfterWrite ==
  ASSUME NEW c \in Nat \ {0}, NEW f \in CFifoOf(c), NEW j \in 0 .. c - Length(f)
  PROVE  Slot(f, Length(f) + j) = IF f.write + j < c THEN f.write + j ELSE f.write + j - c
<1>1. f.read \in 0 .. c - 1 /\ Length(f) \in 0 .. c
  BY FieldTypes, LengthCases
<1>2. Length(f) + j \in 0 .. c
  BY <1>1
<1>3. Slot(f, Length(f) + j) = IF f.read + (Length(f) + j) < c THEN f.read + (Length(f) + j)
                               ELSE f.read + (Length(f) + j) - c
  BY <1>2, SlotValue
<1>4. f.write = Slot(f, Length(f))
  BY WriteIsNextSlot
<1>5. Slot(f, Length(f)) = IF f.read + Length(f) < c THEN f.read + Length(f)
                           ELSE f.read + Length(f) - c
  BY <1>1, SlotValue
<1> QED BY <1>1, <1>3, <1>4, <1>5

(* pelib_cfifo_fill moves the write index only, by as much as fits. *)
LEMMA FillFields ==
  ASSUME NEW c \in Nat \ {0}, NEW f \in CFifoOf(c), NEW num \in Nat,
         NEW n, n = FillCount(f, num)
  PROVE  /\ n \in 0 .. c - Length(f)
         /\ n = Least(c - Len(Content(f)), num)
         /\ Fill(f, num) \in CFifoOf(c)
         /\ Fill(f, num).buffer = f.buffer
         /\ Length(Fill(f, num)) = Length(f) + n
         /\ \A k \in 0 .. c : Slot(Fill(f, num), k) = Slot(f, k)
<1> DEFINE g == Fill(f, num)
<1>1. /\ f.capacity = c /\ f.last_op \in {"PUSH", "POP"} /\ Length(f) \in 0 .. c
      /\ Len(Content(f)) = Length(f)
  BY FieldTypes, LengthCases, ContentType
<1>2. n \in 0 .. c - Length(f) /\ n = Least(c - Len(Content(f)), num)
  BY <1>1 DEF FillCount, Least
<1>3. g = [f EXCEPT !.write = (f.write + n) % c, !.last_op = IF n > 0 THEN "PUSH" ELSE f.last_op]
  BY <1>1 DEF Fill
<1>4. (IF n > 0 THEN "PUSH" ELSE f.last_op) \in {"PUSH", "POP"} /\ n \in 0 .. c
  BY <1>1, <1>2
<1>5. /\ g.read = f.read /\ g.write = (f.write + n) % c /\ g.buffer = f.buffer
      /\ g.last_op = IF n > 0 THEN "PUSH" ELSE f.last_op
  BY <1>3 DEF CFifoOf
<1> HIDE DEF g
<1>6. g \in CFifoOf(c)
  BY <1>3, <1>4, AddType
<1>7. n \in Nat /\ n <= c - Length(f)
  BY <1>1, <1>2
<1>8. Length(g) = Length(f) + n /\ \A k \in 0 .. c : Slot(g, k) = Slot(f, k)
  BY <1>5, <1>6, <1>7, WriteAdvanced
<1> QED BY <1>2, <1>5, <1>6, <1>8 DEF g

(* pelib_cfifo_fill appends whatever sits in the slots it commits. *)
LEMMA FillContent ==
  ASSUME NEW c \in Nat \ {0}, NEW f \in CFifoOf(c), NEW num \in Nat,
         NEW s \in Seq(Value), Len(s) = FillCount(f, num),
         \A i \in 1 .. Len(s) : s[i] = f.buffer[Slot(f, Length(f) + i - 1)]
  PROVE  Content(Fill(f, num)) = Content(f) \o s
<1> DEFINE g == Fill(f, num)
           n == Len(s)
<1>1. /\ f.capacity = c /\ f.last_op \in {"PUSH", "POP"} /\ Length(f) \in 0 .. c
  BY FieldTypes, LengthCases
<1>2. n <= c - Length(f)
  BY <1>1 DEF FillCount, Least
<1>3. g = [f EXCEPT !.write = (f.write + n) % c, !.last_op = IF n > 0 THEN "PUSH" ELSE f.last_op]
  BY <1>1 DEF Fill
<1>5. /\ g.read = f.read /\ g.write = (f.write + n) % c /\ g.buffer = f.buffer
      /\ g.last_op = IF n > 0 THEN "PUSH" ELSE f.last_op
  BY <1>3 DEF CFifoOf
<1>6. g \in CFifoOf(c)
  BY FillFields
<1> HIDE DEF g
<1>7. \A k \in 0 .. Length(f) - 1 : g.buffer[Slot(f, k)] = f.buffer[Slot(f, k)]
  BY <1>5
<1>8. \A i \in 1 .. Len(s) : g.buffer[Slot(f, Length(f) + i - 1)] = s[i]
  BY <1>5
<1>9. Content(g) = Content(f) \o s
  BY <1>2, <1>5, <1>6, <1>7, <1>8, ContentAdded
<1> QED BY <1>9 DEF g

(* memcpy into the k slots that follow the content and reach the end of    *)
(* the buffer at most: they get the elements of mem, no other slot changes.*)
LEMMA CopyInLemma ==
  ASSUME NEW c \in Nat \ {0}, NEW f \in CFifoOf(c), NEW mem \in Seq(Value),
         NEW from \in Nat \ {0}, NEW k \in Nat, from + k - 1 <= Len(mem),
         k <= c - Length(f), f.write + k <= c,
         NEW b, b = CopyIn(f, mem, from, k)
  PROVE  /\ b \in [0 .. c - 1 -> Value]
         /\ \A j \in 0 .. Length(f) - 1 : b[Slot(f, j)] = f.buffer[Slot(f, j)]
         /\ \A i \in 0 .. k - 1 : b[Slot(f, Length(f) + i)] = mem[from + i]
<1>0. PICK w \in Nat, L \in Nat :
        /\ w = f.write /\ L = Length(f) /\ w < c /\ L <= c /\ L + k <= c /\ w + k <= c
  BY FieldTypes, LengthCases
<1>1. f.buffer \in [0 .. c - 1 -> Value] /\ DOMAIN f.buffer = 0 .. c - 1
  BY FieldTypes
<1>2. b = [i \in 0 .. c - 1 |-> IF i \in w .. w + k - 1
                                THEN mem[from + (i - w)] ELSE f.buffer[i]]
  BY <1>0, <1>1 DEF CopyIn
<1>3. b \in [0 .. c - 1 -> Value]
  <2>1. \A i \in w .. w + k - 1 : from + (i - w) \in 1 .. Len(mem)
    OBVIOUS
  <2>2. \A i \in w .. w + k - 1 : mem[from + (i - w)] \in Value
    BY <2>1
  <2>3. \A i \in 0 .. c - 1 : f.buffer[i] \in Value
    BY <1>1
  <2> QED BY <1>2, <2>2, <2>3
<1>4. ASSUME NEW i \in 0 .. k - 1
      PROVE  /\ w + i \in 0 .. c - 1 /\ w + i \in w .. w + k - 1 /\ (w + i) - w = i
             /\ L + i \in 0 .. c - 1
             /\ Slot(f, L + i) = w + i
  <2>1. /\ i \in 0 .. c - L /\ L + i \in 0 .. c - 1
        /\ w + i \in 0 .. c - 1 /\ w + i < c
        /\ w + i \in w .. w + k - 1 /\ (w + i) - w = i
    <3>1. i \in Nat /\ i < k
      OBVIOUS
    <3>0. L + k <= c /\ w + k <= c
      BY <1>0
    <3>2. L + i < c /\ w + i < c
      BY <3>0, <3>1
    <3>3. i \in 0 .. c - L
      BY <3>1, <3>2
    <3>4. L + i \in 0 .. c - 1 /\ w + i \in 0 .. c - 1
      BY <3>1, <3>2
    <3>5. w + i \in w .. w + k - 1 /\ (w + i) - w = i
      BY <3>1
    <3> QED BY <3>1, <3>2, <3>3, <3>4, <3>5
  <2>2. Slot(f, Length(f) + i) = IF f.write + i < c THEN f.write + i ELSE f.write + i - c
    BY <2>1, <1>0, SlotAfterWrite
  <2> QED BY <2>1, <2>2, <1>0
<1>5. ASSUME NEW j \in 0 .. L - 1 PROVE b[Slot(f, j)] = f.buffer[Slot(f, j)]
  <2>1. j \in 0 .. c - 1 /\ j \in 0 .. c /\ j < L
    BY SMTT(60), <1>0
  <2>2. PICK x \in 0 .. c - 1 : x = Slot(f, j)
    BY <2>1, SlotValue
  <2>3. ASSUME NEW i \in 0 .. k - 1 PROVE x # w + i
    <3>1. L + i # j
      BY <2>1
    <3>2. Slot(f, j) # Slot(f, L + i)
      BY SMTT(60), <2>1, <3>1, <1>4, SlotsDistinct
    <3> QED BY <2>2, <3>2, <1>4
  <2>4. ~ x \in w .. w + k - 1
    <3>1. SUFFICES ASSUME x \in w .. w + k - 1 PROVE FALSE
      OBVIOUS
    <3>2. x - w \in 0 .. k - 1 /\ x = w + (x - w)
      BY <3>1
    <3> QED BY <3>2, <2>3
  <2> QED BY <1>2, <2>2, <2>4
<1>6. ASSUME NEW i \in 0 .. k - 1 PROVE b[Slot(f, L + i)] = mem[from + i]
  BY <1>2, <1>4
<1> QED BY <1>0, <1>3, <1>5, <1>6

(* How far one activation of pushmem goes. *)
LEMMA PushSegmentBounds ==
  ASSUME NEW c \in Nat \ {0}, NEW f \in CFifoOf(c), NEW num \in Nat
  PROVE  LET k == PushSegmentCount(f, num)
         IN /\ k \in Nat /\ k <= c - Length(f) /\ k <= num /\ f.write + k <= c
            /\ (~ State(f) \in {"EMPTY", "NORMAL"} =>
                  f.write + k < c /\ k = Least(c - Length(f), num))
            /\ (State(f) \in {"EMPTY", "NORMAL"} => k = Least(c - f.write, num))
            /\ (PushMemWraps(f, num) => k = c - f.write /\ k > 0 /\ k < num)
<1> DEFINE k == PushSegmentCount(f, num)
<1>1. PICK r \in Nat, w \in Nat, L \in Nat :
        /\ r = f.read /\ w = f.write /\ L = Length(f) /\ r < c /\ w < c /\ L <= c
  BY FieldTypes, LengthCases
<1>2. f.capacity = c /\ f.last_op \in {"PUSH", "POP"}
  BY FieldTypes
<1>3. L = IF r = w THEN IF f.last_op = "POP" THEN 0 ELSE c
          ELSE IF r < w THEN w - r ELSE c - (r - w)
  BY <1>1, LengthCases
<1>4. State(f) \in {"EMPTY", "NORMAL"} <=> (r < w \/ (r = w /\ f.last_op = "POP"))
  BY <1>1, <1>2 DEF State
<1>a. r < c /\ w < c /\ L <= c
  BY <1>1
<1>5. CASE State(f) \in {"EMPTY", "NORMAL"}
  <2>1. k = Least(c - w, num)
    BY <1>1, <1>2, <1>5 DEF PushSegmentCount
  <2>2. k \in Nat /\ k <= num /\ w + k <= c
    BY <2>1, <1>a DEF Least
  <2>3. c - w <= c - L
    BY <1>3, <1>4, <1>5, <1>a
  <2>4. k <= c - L
    BY <2>2, <2>3, <1>a
  <2>5. PushMemWraps(f, num) => c - w < num
    BY <1>1, <1>2 DEF PushMemWraps
  <2>6. PushMemWraps(f, num) => k = c - w /\ k > 0 /\ k < num
    BY <2>1, <2>5, <1>a DEF Least
  <2> HIDE DEF k
  <2> QED BY <2>1, <2>2, <2>4, <2>6, <1>1, <1>5 DEF k
<1>6. CASE ~ State(f) \in {"EMPTY", "NORMAL"}
  <2>1. k = Least(r - w, num)
    BY <1>1, <1>2, <1>6 DEF PushSegmentCount
  <2>2. r - w = c - L /\ w <= r
    BY <1>2, <1>3, <1>4, <1>6, <1>a
  <2>3. k \in Nat /\ k <= num /\ k <= r - w
    BY <2>1, <2>2 DEF Least
  <2>4. w + k < c
    BY <2>3, <1>a
  <2>5. ~ PushMemWraps(f, num)
    BY <1>6 DEF PushMemWraps
  <2> HIDE DEF k
  <2> QED BY <2>1, <2>2, <2>3, <2>4, <2>5, <1>1, <1>6 DEF k
<1> QED BY <1>5, <1>6

(* h is f after the k elements of s were added to it. *)
Added(c, f, h, k, s) ==
  /\ h \in CFifoOf(c)
  /\ h.read = f.read /\ h.write = (f.write + k) % c
  /\ h.last_op = IF k > 0 THEN "PUSH" ELSE f.last_op
  /\ Length(h) = Length(f) + k
  /\ Content(h) = Content(f) \o s

(* What one activation of pushmem does: k elements of mem, from mem[from]   *)
(* on, are added to the content.                                           *)
LEMMA PushSegmentLemma ==
  ASSUME NEW c \in Nat \ {0}, NEW f \in CFifoOf(c), NEW mem \in Seq(Value),
         NEW from \in Nat \ {0}, NEW num \in Nat, from + num - 1 <= Len(mem)
  PROVE  LET k == PushSegmentCount(f, num)
         IN Added(c, f, PushSegment(f, mem, from, num), k, SubSeq(mem, from, from + k - 1))
<1> DEFINE h == PushSegment(f, mem, from, num)
           k == PushSegmentCount(f, num)
<1>1. /\ f.capacity = c /\ f.last_op \in {"PUSH", "POP"} /\ Length(f) \in 0 .. c
      /\ f.write \in 0 .. c - 1
  BY FieldTypes, LengthCases
<1>2. /\ k \in Nat /\ k <= c - Length(f) /\ k <= num /\ f.write + k <= c
      /\ (~ State(f) \in {"EMPTY", "NORMAL"} => f.write + k < c)
  BY PushSegmentBounds
<1>h. h = PushSegment(f, mem, from, num) /\ k = PushSegmentCount(f, num)
  OBVIOUS
<1> HIDE DEF h, k
<1>3. k \in 0 .. c
  BY <1>1, <1>2
<1>4. from + k - 1 <= Len(mem)
  BY <1>2
<1> DEFINE b == CopyIn(f, mem, from, k)
           op == IF k > 0 THEN "PUSH" ELSE f.last_op
           w == (f.write + k) % c
<1>5. /\ b \in [0 .. c - 1 -> Value]
      /\ \A j \in 0 .. Length(f) - 1 : b[Slot(f, j)] = f.buffer[Slot(f, j)]
      /\ \A i \in 0 .. k - 1 : b[Slot(f, Length(f) + i)] = mem[from + i]
  BY <1>2, <1>4, CopyInLemma
<1>6. (f.write + k) % c = IF f.write + k < c THEN f.write + k ELSE f.write + k - c
  BY <1>1, <1>3, ModWrap
<1>7. (IF State(f) \in {"EMPTY", "NORMAL"} THEN w ELSE f.write + k) = w
  BY <1>2, <1>6
<1>8. h = [f EXCEPT !.buffer = b, !.write = w, !.last_op = op]
  BY <1>h, <1>1, <1>7 DEF PushSegment
<1>9. w \in 0 .. c - 1 /\ op \in {"PUSH", "POP"}
  BY <1>1, <1>3
<1> HIDE DEF b, op, w
<1>10. h \in CFifoOf(c)
  BY <1>5, <1>8, <1>9 DEF CFifoOf
<1>11. h.read = f.read /\ h.write = w /\ h.last_op = op /\ h.buffer = b
  BY <1>8 DEF CFifoOf
<1>12. Length(h) = Length(f) + k
  BY <1>2, <1>10, <1>11, WriteAdvanced DEF w, op
<1> DEFINE s == SubSeq(mem, from, from + k - 1)
<1>13. s \in Seq(Value) /\ Len(s) = k /\ \A i \in 1 .. k : s[i] = mem[from + (i - 1)]
  <2>1. \A i \in from .. from + k - 1 : mem[i] \in Value
    BY <1>2, <1>4
  <2>2. from \in Int /\ from + k - 1 \in Int
    BY <1>2
  <2>3. /\ s \in Seq(Value)
        /\ Len(s) = IF from <= from + k - 1 THEN (from + k - 1) - from + 1 ELSE 0
        /\ \A i \in 1 .. (from + k - 1) - from + 1 : s[i] = mem[from + i - 1]
    BY <2>1, <2>2, SubSeqProperties
  <2> HIDE DEF s
  <2>4. k \in Nat
    BY <1>2
  <2> QED BY <2>3, <2>4
<1> HIDE DEF s
<1>14. \A j \in 0 .. Length(f) - 1 : h.buffer[Slot(f, j)] = f.buffer[Slot(f, j)]
  BY <1>5, <1>11
<1>15. \A i \in 1 .. Len(s) : h.buffer[Slot(f, Length(f) + i - 1)] = s[i]
  <2> SUFFICES ASSUME NEW i \in 1 .. k
               PROVE  h.buffer[Slot(f, Length(f) + i - 1)] = s[i]
    BY <1>13
  <2>1. i - 1 \in 0 .. k - 1
    BY <1>2
  <2>2. Length(f) + i - 1 = Length(f) + (i - 1)
    BY <1>1, <1>2
  <2> QED BY <2>1, <2>2, <1>5, <1>11, <1>13
<1>16. Content(h) = Content(f) \o s
  <2>1. h.write = (f.write + Len(s)) % c /\ h.last_op = IF Len(s) > 0 THEN "PUSH" ELSE f.last_op
    BY <1>11, <1>13 DEF w, op
  <2>2. Len(s) <= c - Length(f)
    BY <1>2, <1>13
  <2> QED BY <1>10, <1>11, <1>13, <1>14, <1>15, <2>1, <2>2, ContentAdded
<1> QED BY <1>10, <1>11, <1>12, <1>16 DEF s, w, op, h, k, Added

(* When pushmem recurses, the fifo it is called on is full or reversed: no *)
(* second recursive call can follow.                                       *)
LEMMA PushMemRecursion ==
  ASSUME NEW c \in Nat \ {0}, NEW f \in CFifoOf(c), NEW mem \in Seq(Value),
         PushMemWraps(f, Len(mem)),
         NEW h, h = PushSegment(f, mem, 1, Len(mem))
  PROVE  State(h) \in {"FULL", "REVERSE"}
<1> DEFINE num == Len(mem)
           k == PushSegmentCount(f, num)
<1>1. num \in Nat /\ 1 \in Nat \ {0} /\ 1 + num - 1 <= num
  OBVIOUS
<1>2. k \in Nat /\ k = c - f.write /\ k > 0
  BY <1>1, PushSegmentBounds
<1>3. /\ h \in CFifoOf(c) /\ h.write = (f.write + k) % c
      /\ h.last_op = IF k > 0 THEN "PUSH" ELSE f.last_op
  <2>1. Added(c, f, h, k, SubSeq(mem, 1, 1 + k - 1))
    BY <1>1, PushSegmentLemma
  <2> QED BY <2>1 DEF Added
<1> HIDE DEF k
<1>4. f.write \in 0 .. c - 1 /\ h.read \in 0 .. c - 1
  BY <1>3, FieldTypes
<1>5. f.write + k = c
  BY <1>2, <1>4
<1>6. c % c = 0
  OBVIOUS
<1>7. h.write = 0 /\ h.last_op = "PUSH"
  BY <1>2, <1>3, <1>5, <1>6
<1> QED BY <1>4, <1>7 DEF State

(* Concatenation of sequences of values is associative. *)
LEMMA Associative ==
  ASSUME NEW x \in Seq(Value), NEW y \in Seq(Value), NEW z \in Seq(Value)
  PROVE  (x \o y) \o z = x \o (y \o z)
  BY ConcatAssociative

(* pushmem appends as many elements of mem as fit, in order, and returns   *)
(* their number.                                                           *)
LEMMA PushMemLemma ==
  ASSUME NEW c \in Nat \ {0}, NEW f \in CFifoOf(c), NEW mem \in Seq(Value)
  PROVE  LET n == Least(c - Len(Content(f)), Len(mem))
         IN /\ PushMemCount(f, mem) = n
            /\ PushMem(f, mem) \in CFifoOf(c)
            /\ Content(PushMem(f, mem)) = Content(f) \o SubSeq(mem, 1, n)
<1> SUFFICES ASSUME NEW n, n = Least(c - Len(Content(f)), Len(mem))
             PROVE  /\ PushMemCount(f, mem) = n
                    /\ PushMem(f, mem) \in CFifoOf(c)
                    /\ Content(PushMem(f, mem)) = Content(f) \o SubSeq(mem, 1, n)
  OBVIOUS
<1>0. PICK num \in Nat : num = Len(mem)
  OBVIOUS
<1> DEFINE k == PushSegmentCount(f, num)
           h == PushSegment(f, mem, 1, num)
<1>1. num \in Nat /\ 1 \in Nat \ {0} /\ 1 + num - 1 <= Len(mem)
  BY <1>0
<1>2. PICK L \in 0 .. c : L = Length(f) /\ n = Least(c - L, num)
  BY <1>0, LengthCases, ContentType
<1>3. /\ k \in Nat /\ k <= c - L /\ k <= num
      /\ (~ State(f) \in {"EMPTY", "NORMAL"} => k = Least(c - L, num))
      /\ (State(f) \in {"EMPTY", "NORMAL"} => k = Least(c - f.write, num))
      /\ (PushMemWraps(f, num) => k < num)
  BY <1>1, <1>2, PushSegmentBounds
<1>4. /\ h \in CFifoOf(c) /\ Length(h) = L + k
      /\ Content(h) = Content(f) \o SubSeq(mem, 1, 1 + k - 1)
  <2>3. Added(c, f, h, k, SubSeq(mem, 1, 1 + k - 1))
    BY <1>1, PushSegmentLemma
  <2> QED BY <2>3, <1>2 DEF Added
<1>5. f.capacity = c /\ f.write \in 0 .. c - 1
  BY FieldTypes
<1>6. CASE ~ PushMemWraps(f, num)
  <2>1. PushMem(f, mem) = h /\ PushMemCount(f, mem) = k
    BY <1>0, <1>6 DEF PushMem, PushMemCount
  <2>2. k = n
    <3>1. CASE State(f) \in {"EMPTY", "NORMAL"}
      <4>1. ~ c - f.write < num /\ k = Least(c - f.write, num)
        BY <1>3, <1>5, <1>6, <3>1 DEF PushMemWraps
      <4>2. k = num
        BY <4>1, <1>1, <1>5 DEF Least
      <4>3. ~ c - L < num
        BY <4>2, <1>3
      <4> QED BY <1>2, <4>2, <4>3 DEF Least
    <3>2. CASE ~ State(f) \in {"EMPTY", "NORMAL"}
      BY <3>2, <1>2, <1>3
    <3> QED BY <3>1, <3>2
  <2>3. 1 + k - 1 = k
    BY <1>3
  <2> QED BY <2>1, <2>2, <2>3, <1>4
<1>7. CASE PushMemWraps(f, num)
  <2> DEFINE k2 == PushSegmentCount(h, num - k)
             g  == PushSegment(h, mem, k + 1, num - k)
  <2>1. PushMem(f, mem) = g /\ PushMemCount(f, mem) = k + k2
    BY <1>0, <1>7 DEF PushMem, PushMemCount
  <2>2. ~ State(h) \in {"EMPTY", "NORMAL"}
    BY <1>0, <1>7, PushMemRecursion
  <2> HIDE DEF k, h
  <2>3. num - k \in Nat /\ k + 1 \in Nat \ {0} /\ (k + 1) + (num - k) - 1 <= Len(mem)
    BY <1>0, <1>3
  <2>4. k2 \in Nat /\ k2 = Least(c - Length(h), num - k)
    BY <1>4, <2>2, <2>3, PushSegmentBounds
  <2>5. /\ g \in CFifoOf(c)
        /\ Content(g) = Content(h) \o SubSeq(mem, k + 1, (k + 1) + k2 - 1)
    <3>3. Added(c, h, g, k2, SubSeq(mem, k + 1, (k + 1) + k2 - 1))
      BY <1>4, <2>3, PushSegmentLemma
    <3> QED BY <3>3 DEF Added
  <2> HIDE DEF k2, g
  <2>6. k2 = Least(c - (L + k), num - k)
    BY <1>4, <2>4
  <2>7. k + k2 = n /\ k + k2 <= num
    <3>1. k \in Nat /\ k <= c - L /\ k < num
      BY <1>3, <1>7
    <3>2. L \in Nat /\ n = IF c - L < num THEN c - L ELSE num
      BY <1>2 DEF Least
    <3>3. k2 = IF c - (L + k) < num - k THEN c - (L + k) ELSE num - k
      BY <2>6 DEF Least
    <3> QED BY <3>1, <3>2, <3>3
  <2>8. (k + 1) + k2 - 1 = n /\ 1 + k - 1 = k
    BY <2>4, <2>7, <1>3
  <2>9. Content(g) = (Content(f) \o SubSeq(mem, 1, k)) \o SubSeq(mem, k + 1, n)
    BY <1>4, <2>5, <2>8
  <2>10. SubSeq(mem, 1, k) \in Seq(Value) /\ SubSeq(mem, k + 1, n) \in Seq(Value)
    <3>1. n \in Nat /\ n <= Len(mem) /\ k \in Nat /\ k <= n
      BY <1>0, <1>3, <2>4, <2>7
    <3>2. \A i \in 1 .. k : mem[i] \in Value
      BY <3>1
    <3>3. \A i \in k + 1 .. n : mem[i] \in Value
      BY <3>1
    <3>4. 1 \in Int /\ k \in Int /\ k + 1 \in Int /\ n \in Int
      BY <3>1
    <3> QED BY <3>2, <3>3, <3>4, SubSeqProperties
  <2>11. Content(f) \in Seq(Value)
    BY ContentType
  <2>12. Content(g) = Content(f) \o (SubSeq(mem, 1, k) \o SubSeq(mem, k + 1, n))
    <3>1. (Content(f) \o SubSeq(mem, 1, k)) \o SubSeq(mem, k + 1, n)
            = Content(f) \o (SubSeq(mem, 1, k) \o SubSeq(mem, k + 1, n))
      BY <2>10, <2>11, Associative
    <3> QED BY <3>1, <2>9
  <2>13. SubSeq(mem, 1, k) \o SubSeq(mem, k + 1, n) = SubSeq(mem, 1, n)
    <3>1. 1 \in 1 .. Len(mem) + 1 /\ k \in 1 - 1 .. Len(mem) /\ n \in k .. Len(mem)
      BY <1>0, <1>3, <2>4, <2>7
    <3> QED BY <3>1, ConcatAdjacentSubSeq
  <2> QED BY <2>1, <2>5, <2>7, <2>12, <2>13
<1> QED BY <1>6, <1>7

(* How far one activation of popmem goes. *)
LEMMA PopSegmentBounds ==
  ASSUME NEW c \in Nat \ {0}, NEW f \in CFifoOf(c), NEW num \in Nat
  PROVE  LET k == PopSegmentCount(f, num)
         IN /\ k \in Nat /\ k <= Length(f) /\ k <= num /\ f.read + k <= c
            /\ (~ State(f) \in {"FULL", "REVERSE"} =>
                  f.read + k < c /\ k = Least(Length(f), num))
            /\ (State(f) \in {"FULL", "REVERSE"} => k = Least(c - f.read, num))
            /\ (PopMemWraps(f, num) => k = c - f.read /\ k > 0 /\ k < num)
<1> DEFINE k == PopSegmentCount(f, num)
<1>1. PICK r \in Nat, w \in Nat, L \in Nat :
        /\ r = f.read /\ w = f.write /\ L = Length(f) /\ r < c /\ w < c /\ L <= c
  BY FieldTypes, LengthCases
<1>2. f.capacity = c /\ f.last_op \in {"PUSH", "POP"}
  BY FieldTypes
<1>3. L = IF r = w THEN IF f.last_op = "POP" THEN 0 ELSE c
          ELSE IF r < w THEN w - r ELSE c - (r - w)
  BY <1>1, LengthCases
<1>4. State(f) \in {"FULL", "REVERSE"} <=> (w < r \/ (r = w /\ f.last_op # "POP"))
  BY <1>1, <1>2 DEF State
<1>a. r < c /\ w < c /\ L <= c
  BY <1>1
<1>5. CASE State(f) \in {"FULL", "REVERSE"}
  <2>1. k = Least(c - r, num)
    BY <1>1, <1>2, <1>5 DEF PopSegmentCount
  <2>2. k \in Nat /\ k <= num /\ r + k <= c
    BY <2>1, <1>a DEF Least
  <2>3. c - r <= L
    BY <1>3, <1>4, <1>5, <1>a
  <2>4. k <= L
    BY <2>2, <2>3, <1>a
  <2>5. PopMemWraps(f, num) => c - r < num
    BY <1>1, <1>2 DEF PopMemWraps
  <2>6. PopMemWraps(f, num) => k = c - r /\ k > 0 /\ k < num
    BY <2>1, <2>5, <1>a DEF Least
  <2> HIDE DEF k
  <2> QED BY <2>1, <2>2, <2>4, <2>6, <1>1, <1>5 DEF k
<1>6. CASE ~ State(f) \in {"FULL", "REVERSE"}
  <2>1. k = Least(w - r, num)
    BY <1>1, <1>2, <1>6 DEF PopSegmentCount
  <2>2. w - r = L /\ r <= w
    BY <1>2, <1>3, <1>4, <1>6, <1>a
  <2>3. k \in Nat /\ k <= num /\ k <= w - r
    BY <2>1, <2>2 DEF Least
  <2>4. r + k < c
    BY <2>3, <1>a
  <2>5. ~ PopMemWraps(f, num)
    BY <1>6 DEF PopMemWraps
  <2> HIDE DEF k
  <2> QED BY <2>1, <2>2, <2>3, <2>4, <2>5, <1>1, <1>6 DEF k
<1> QED BY <1>5, <1>6

(* h is f after its k oldest elements were removed. *)
Removed(c, f, h, k) ==
  /\ h \in CFifoOf(c)
  /\ h.write = f.write /\ h.read = (f.read + k) % c /\ h.buffer = f.buffer
  /\ h.last_op = IF k > 0 THEN "POP" ELSE f.last_op
  /\ Length(h) = Length(f) - k
  /\ Content(h) = SubSeq(Content(f), k + 1, Len(Content(f)))

(* What one activation of popmem does: the k oldest elements are copied    *)
(* out, in order, and removed.                                             *)
LEMMA PopSegmentLemma ==
  ASSUME NEW c \in Nat \ {0}, NEW f \in CFifoOf(c), NEW num \in Nat
  PROVE  LET k == PopSegmentCount(f, num)
         IN /\ Removed(c, f, PopSegment(f, num), k)
            /\ CopyOut(f, k) = SubSeq(Content(f), 1, k)
<1> DEFINE h == PopSegment(f, num)
           k == PopSegmentCount(f, num)
<1>h. h = PopSegment(f, num) /\ k = PopSegmentCount(f, num)
  OBVIOUS
<1>1. f.capacity = c /\ f.last_op \in {"PUSH", "POP"} /\ f.read \in 0 .. c - 1
  BY FieldTypes
<1>2. PICK L \in 0 .. c : L = Length(f)
  BY LengthCases
<1>3. /\ k \in Nat /\ k <= L /\ k <= num /\ f.read + k <= c
      /\ (~ State(f) \in {"FULL", "REVERSE"} => f.read + k < c)
  BY <1>2, PopSegmentBounds
<1> HIDE DEF h, k
<1>4. k \in 0 .. c
  BY <1>3
<1> DEFINE op == IF k > 0 THEN "POP" ELSE f.last_op
           r == (f.read + k) % c
<1>5. (f.read + k) % c = IF f.read + k < c THEN f.read + k ELSE f.read + k - c
  BY <1>1, <1>4, ModWrap
<1>6. (IF State(f) \in {"FULL", "REVERSE"} THEN r ELSE f.read + k) = r
  BY <1>3, <1>5
<1>7. h = [f EXCEPT !.read = r, !.last_op = op]
  BY <1>h, <1>1, <1>6 DEF PopSegment
<1>8. op \in {"PUSH", "POP"}
  BY <1>1
<1>9. h \in CFifoOf(c)
  BY <1>4, <1>7, <1>8, RemoveType
<1> HIDE DEF op, r
<1>10. h.read = r /\ h.write = f.write /\ h.last_op = op /\ h.buffer = f.buffer
  BY <1>7 DEF CFifoOf
<1>11. k \in Nat /\ k <= Length(f)
  BY <1>2, <1>3
<1>12. Length(h) = Length(f) - k
  BY <1>9, <1>10, <1>11, ReadAdvanced DEF r, op
<1>13. Content(h) = SubSeq(Content(f), k + 1, Len(Content(f)))
  BY <1>9, <1>10, <1>11, ContentRemoved DEF r, op
<1>14. CopyOut(f, k) = SubSeq(Content(f), 1, k)
  <2> DEFINE s == CopyOut(f, k)
             t == SubSeq(Content(f), 1, k)
  <2>1. /\ Content(f) \in Seq(Value) /\ Len(Content(f)) = L
        /\ \A i \in 1 .. L : Content(f)[i] = f.buffer[Slot(f, i - 1)]
    BY <1>2, ContentType
  <2>2. t \in Seq(Value) /\ Len(t) = k /\ \A i \in 1 .. k : t[i] = Content(f)[i]
    BY <2>1, <1>3
  <2>3. ASSUME NEW i \in 1 .. k
        PROVE  /\ i \in 1 .. L /\ f.read + (i - 1) \in 0 .. c - 1
               /\ Slot(f, i - 1) = f.read + (i - 1)
    <3>1. PICK q \in Nat : q = f.read /\ q < c
      BY <1>1
    <3>2. q + k <= c /\ k <= L
      BY <3>1, <1>3
    <3>3. i \in 1 .. L /\ i - 1 \in 0 .. c /\ q + (i - 1) < c /\ q + (i - 1) \in 0 .. c - 1
      BY <3>2, <1>3
    <3>4. Slot(f, i - 1) = IF f.read + (i - 1) < c THEN f.read + (i - 1)
                           ELSE f.read + (i - 1) - c
      BY <3>3, SlotValue
    <3> QED BY <3>1, <3>3, <3>4
  <2>4. s = [i \in 1 .. k |-> f.buffer[f.read + (i - 1)]]
    BY DEF CopyOut
  <2>5. f.buffer \in [0 .. c - 1 -> Value]
    BY FieldTypes
  <2>6. \A i \in 1 .. k : f.buffer[f.read + (i - 1)] \in Value
    BY <2>3, <2>5
  <2>7. s \in Seq(Value) /\ Len(s) = k /\ \A i \in 1 .. k : s[i] = f.buffer[f.read + (i - 1)]
    BY <2>4, <2>6, <1>3
  <2> HIDE DEF s, t
  <2>8. \A i \in 1 .. k : s[i] = t[i]
    BY <2>1, <2>2, <2>3, <2>7
  <2>9. s = t
    BY <2>2, <2>7, <2>8, SeqEqual
  <2> QED BY <2>9 DEF s, t
<1> QED BY <1>9, <1>10, <1>12, <1>13, <1>14 DEF Removed, h, k, op, r

(* Taking k elements and then k2 elements of the rest is taking k + k2.    *)
LEMMA TakeTwice ==
  ASSUME NEW q \in Seq(Value), NEW k \in Nat, NEW k2 \in Nat, k + k2 <= Len(q),
         NEW rest, rest = SubSeq(q, k + 1, Len(q))
  PROVE  /\ Len(rest) = Len(q) - k
         /\ SubSeq(rest, k2 + 1, Len(rest)) = SubSeq(q, (k + k2) + 1, Len(q))
         /\ SubSeq(q, 1, k) \o SubSeq(rest, 1, k2) = SubSeq(q, 1, k + k2)
<1>1. rest \in Seq(Value) /\ Len(rest) = Len(q) - k /\ \A i \in 1 .. Len(q) - k : rest[i] = q[k + i]
  OBVIOUS
<1> DEFINE a == SubSeq(rest, k2 + 1, Len(rest))
           b == SubSeq(q, (k + k2) + 1, Len(q))
           x == SubSeq(rest, 1, k2)
           y == SubSeq(q, k + 1, k + k2)
<1>2. /\ a \in Seq(Value) /\ Len(a) = Len(q) - (k + k2)
      /\ \A i \in 1 .. Len(q) - (k + k2) : a[i] = rest[k2 + i]
  BY <1>1
<1>3. /\ b \in Seq(Value) /\ Len(b) = Len(q) - (k + k2)
      /\ \A i \in 1 .. Len(q) - (k + k2) : b[i] = q[(k + k2) + i]
  OBVIOUS
<1>4. x \in Seq(Value) /\ Len(x) = k2 /\ \A i \in 1 .. k2 : x[i] = rest[i]
  BY <1>1
<1>5. y \in Seq(Value) /\ Len(y) = k2 /\ \A i \in 1 .. k2 : y[i] = q[k + i]
  OBVIOUS
<1> HIDE DEF a, b, x, y
<1>6. a = b
  <2>1. ASSUME NEW i \in 1 .. Len(q) - (k + k2) PROVE a[i] = b[i]
    <3>1. k2 + i \in 1 .. Len(q) - k /\ k + (k2 + i) = (k + k2) + i
      OBVIOUS
    <3> QED BY <3>1, <1>1, <1>2, <1>3
  <2> QED BY <2>1, <1>2, <1>3, SeqEqual
<1>7. x = y
  <2>1. ASSUME NEW i \in 1 .. k2 PROVE x[i] = y[i]
    <3>1. i \in 1 .. Len(q) - k
      OBVIOUS
    <3> QED BY <3>1, <1>1, <1>4, <1>5
  <2> QED BY <2>1, <1>4, <1>5, SeqEqual
<1>8. SubSeq(q, 1, k) \o y = SubSeq(q, 1, k + k2)
  <2>1. 1 \in 1 .. Len(q) + 1 /\ k \in 1 - 1 .. Len(q) /\ k + k2 \in k .. Len(q)
    OBVIOUS
  <2> QED BY <2>1, ConcatAdjacentSubSeq DEF y
<1> QED BY <1>1, <1>6, <1>7, <1>8 DEF a, b, x

(* When popmem recurses, the fifo it is called on is empty or normal: no   *)
(* second recursive call can follow.                                       *)
LEMMA PopMemRecursion ==
  ASSUME NEW c \in Nat \ {0}, NEW f \in CFifoOf(c), NEW num \in Nat, PopMemWraps(f, num)
  PROVE  State(PopSegment(f, num)) \in {"EMPTY", "NORMAL"}
<1> DEFINE k == PopSegmentCount(f, num)
           h == PopSegment(f, num)
<1>1. k \in Nat /\ k = c - f.read /\ k > 0
  BY PopSegmentBounds
<1>2. Removed(c, f, h, k)
  BY PopSegmentLemma
<1> HIDE DEF k, h
<1>3. /\ h \in CFifoOf(c) /\ h.read = (f.read + k) % c
      /\ h.last_op = IF k > 0 THEN "POP" ELSE f.last_op
  BY <1>2 DEF Removed
<1>4. f.read \in 0 .. c - 1 /\ h.write \in 0 .. c - 1
  BY <1>3, FieldTypes
<1>5. f.read + k = c
  BY <1>1, <1>4
<1>6. c % c = 0
  OBVIOUS
<1>7. h.read = 0 /\ h.last_op = "POP"
  BY <1>1, <1>3, <1>5, <1>6
<1>8. State(h) \in {"EMPTY", "NORMAL"}
  BY <1>4, <1>7 DEF State
<1> QED BY <1>8 DEF h

(* popmem removes the num oldest elements, or all of them, and copies      *)
(* exactly these out, in order; it moves neither the write index nor what  *)
(* is in the buffer.                                                       *)
LEMMA PopMemLemma ==
  ASSUME NEW c \in Nat \ {0}, NEW f \in CFifoOf(c), NEW num \in Nat
  PROVE  LET n == Least(num, Len(Content(f)))
         IN /\ PopMem(f, num) \in CFifoOf(c)
            /\ PopMem(f, num).write = f.write
            /\ PopMem(f, num).buffer = f.buffer
            /\ Length(PopMem(f, num)) = Length(f) - n
            /\ PopMemData(f, num) = SubSeq(Content(f), 1, n)
            /\ Content(PopMem(f, num)) = SubSeq(Content(f), n + 1, Len(Content(f)))
<1> SUFFICES ASSUME NEW n, n = Least(num, Len(Content(f)))
             PROVE  /\ PopMem(f, num) \in CFifoOf(c)
                    /\ PopMem(f, num).write = f.write
                    /\ PopMem(f, num).buffer = f.buffer
                    /\ Length(PopMem(f, num)) = Length(f) - n
                    /\ PopMemData(f, num) = SubSeq(Content(f), 1, n)
                    /\ Content(PopMem(f, num)) = SubSeq(Content(f), n + 1, Len(Content(f)))
  OBVIOUS
<1> DEFINE k == PopSegmentCount(f, num)
           h == PopSegment(f, num)
<1>1. PICK L \in 0 .. c : L = Length(f) /\ L = Len(Content(f)) /\ n = Least(num, L)
  BY LengthCases, ContentType
<1>2. /\ k \in Nat /\ k <= L /\ k <= num
      /\ (~ State(f) \in {"FULL", "REVERSE"} => k = Least(L, num))
      /\ (State(f) \in {"FULL", "REVERSE"} => k = Least(c - f.read, num))
      /\ (PopMemWraps(f, num) => k < num)
  BY ZenonT(60), <1>1, PopSegmentBounds
<1>3. Removed(c, f, h, k) /\ CopyOut(f, k) = SubSeq(Content(f), 1, k)
  BY PopSegmentLemma
<1>4. /\ h \in CFifoOf(c) /\ h.write = f.write /\ h.buffer = f.buffer
      /\ Length(h) = L - k /\ Content(h) = SubSeq(Content(f), k + 1, Len(Content(f)))
  BY <1>1, <1>3 DEF Removed
<1>5. f.capacity = c /\ f.read \in 0 .. c - 1
  BY FieldTypes
<1>6. CASE ~ PopMemWraps(f, num)
  <2>1. PopMem(f, num) = h /\ PopMemData(f, num) = CopyOut(f, k)
    BY <1>6 DEF PopMem, PopMemData
  <2>2. k = n
    <3>1. CASE State(f) \in {"FULL", "REVERSE"}
      <4>1. ~ c - f.read < num /\ k = Least(c - f.read, num)
        BY <1>2, <1>5, <1>6, <3>1 DEF PopMemWraps
      <4>2. k = num
        BY <4>1, <1>5 DEF Least
      <4>3. num <= L
        BY <4>2, <1>2
      <4> QED BY <1>1, <4>2, <4>3 DEF Least
    <3>2. CASE ~ State(f) \in {"FULL", "REVERSE"}
      BY <3>2, <1>1, <1>2 DEF Least
    <3> QED BY <3>1, <3>2
  <2> QED BY <2>1, <2>2, <1>1, <1>3, <1>4
<1>7. CASE PopMemWraps(f, num)
  <2> DEFINE k2 == PopSegmentCount(h, num - k)
             g  == PopSegment(h, num - k)
  <2>1. PopMem(f, num) = g /\ PopMemData(f, num) = CopyOut(f, k) \o CopyOut(h, k2)
    BY <1>7 DEF PopMem, PopMemData
  <2>2. ~ State(h) \in {"FULL", "REVERSE"}
    BY <1>7, PopMemRecursion
  <2> HIDE DEF k, h
  <2>3. num - k \in Nat
    BY <1>2
  <2>4. k2 \in Nat /\ k2 <= Length(h) /\ k2 = Least(Length(h), num - k)
    BY <1>4, <2>2, <2>3, PopSegmentBounds
  <2>5. Removed(c, h, g, k2) /\ CopyOut(h, k2) = SubSeq(Content(h), 1, k2)
    BY <1>4, <2>3, PopSegmentLemma
  <2> HIDE DEF k2, g
  <2>6. k2 <= L - k /\ k2 = Least(L - k, num - k)
    BY <1>4, <2>4
  <2>7. k + k2 = n /\ k + k2 <= L
    <3>1. k \in Nat /\ k <= L /\ k < num /\ k2 <= L - k /\ k2 \in Nat
      BY <1>2, <1>7, <2>4, <2>6
    <3>2. n = IF num < L THEN num ELSE L
      BY <1>1 DEF Least
    <3>3. k2 = IF L - k < num - k THEN L - k ELSE num - k
      BY <2>6 DEF Least
    <3> QED BY <3>1, <3>2, <3>3
  <2>8. /\ g \in CFifoOf(c) /\ g.write = h.write /\ g.buffer = h.buffer
        /\ Length(g) = Length(h) - k2
        /\ Content(g) = SubSeq(Content(h), k2 + 1, Len(Content(h)))
    BY <2>5 DEF Removed
  <2>9. Content(f) \in Seq(Value) /\ k + k2 <= Len(Content(f)) /\ k \in Nat /\ k2 \in Nat
    BY <1>1, <1>2, <2>4, <2>7, ContentType
  <2>10. /\ SubSeq(Content(h), k2 + 1, Len(Content(h)))
              = SubSeq(Content(f), (k + k2) + 1, Len(Content(f)))
         /\ SubSeq(Content(f), 1, k) \o SubSeq(Content(h), 1, k2)
              = SubSeq(Content(f), 1, k + k2)
    BY <1>4, <2>9, TakeTwice
  <2>11. Length(g) = L - n
    BY <1>2, <1>4, <2>4, <2>7, <2>8
  <2> QED BY <1>1, <1>3, <1>4, <2>1, <2>5, <2>7, <2>8, <2>10, <2>11
<1> QED BY <1>6, <1>7

(***************************************************************************)
(* peekmem, which calls itself with the rest after a wrap                  *)
(***************************************************************************)
Peeked(f, r) == [f EXCEPT !.read = r]
PeekWraps(f, r, n) ==
  State(Peeked(f, r)) \in {"FULL", "REVERSE"} /\ f.capacity - r < n
PeekStraight(f, r, n) ==
  IF State(Peeked(f, r)) \in {"FULL", "REVERSE"} THEN CopyOut(Peeked(f, r), n)
  ELSE CopyOut(Peeked(f, r), Least(f.write - r, n))
PeekRow(f, w, n) == [r \in 0 .. f.capacity - 1 |->
  IF State(Peeked(f, r)) \in {"FULL", "REVERSE"}
  THEN IF f.capacity - r < n
       THEN CopyOut(Peeked(f, r), f.capacity - r) \o w[n - (f.capacity - r)][0]
       ELSE CopyOut(Peeked(f, r), n)
  ELSE CopyOut(Peeked(f, r), Least(f.write - r, n))]

(* What a call of peekmem at slot r for n elements returns, given w, what *)
(* shorter ones return.                                                   *)
LEMMA PeekRowCases ==
  ASSUME NEW f, NEW w, NEW n, NEW r \in 0 .. f.capacity - 1
  PROVE  PeekRow(f, w, n)[r] =
           IF PeekWraps(f, r, n)
           THEN CopyOut(Peeked(f, r), f.capacity - r) \o w[n - (f.capacity - r)][0]
           ELSE PeekStraight(f, r, n)
  BY DEF PeekRow, PeekWraps, PeekStraight

(* For requests no longer than the buffer, the function peekmem computes is *)
(* the one that wraps once, since from slot 0 on everything fits.           *)
LEMMA PeekWalkExists ==
  ASSUME NEW c \in Nat \ {0}, NEW f \in CFifoOf(c), NEW num \in 0 .. c
  PROVE  \E w : w = [n \in 0 .. num |-> PeekRow(f, w, n)]
<1>1. f.capacity = c
  BY FieldTypes
<1> DEFINE base == [n \in 0 .. num |-> [r \in 0 .. c - 1 |-> PeekStraight(f, r, n)]]
           w == [n \in 0 .. num |-> PeekRow(f, base, n)]
<1>2. ASSUME NEW n \in 0 .. num PROVE w[n][0] = base[n][0]
  <2>1. ~ PeekWraps(f, 0, n)
    BY <1>1 DEF PeekWraps
  <2>2. 0 \in 0 .. c - 1
    OBVIOUS
  <2>3. w[n] = PeekRow(f, base, n)
    OBVIOUS
  <2>4. base[n][0] = PeekStraight(f, 0, n)
    BY <2>2
  <2> HIDE DEF base, w
  <2> QED BY <1>1, <2>1, <2>2, <2>3, <2>4, PeekRowCases
<1> HIDE DEF base
<1>3. ASSUME NEW n \in 0 .. num
      PROVE  PeekRow(f, base, n) = PeekRow(f, w, n)
  <2> HIDE DEF w
  <2> SUFFICES ASSUME NEW r \in 0 .. c - 1, PeekWraps(f, r, n)
               PROVE  base[n - (c - r)][0] = w[n - (c - r)][0]
    BY <1>1 DEF PeekRow, PeekWraps
  <2>1. n - (c - r) \in 0 .. num
    BY <1>1 DEF PeekWraps
  <2> QED BY <2>1, <1>2
<1>4. w = [n \in 0 .. num |-> PeekRow(f, w, n)]
  BY <1>3, Zenon
<1> QED BY <1>4

(* So a call of peekmem is one or two copies. *)
LEMMA PeekMemUnfolds ==
  ASSUME NEW c \in Nat \ {0}, NEW f \in CFifoOf(c), NEW num \in 0 .. c,
         NEW offset \in Nat, NEW r \in 0 .. c - 1, r = (f.read + offset) % c
  PROVE  PeekMem(f, num, offset) =
           IF PeekWraps(f, r, num)
           THEN CopyOut(Peeked(f, r), c - r) \o PeekStraight(f, 0, num - (c - r))
           ELSE PeekStraight(f, r, num)
<1>1. f.capacity = c /\ f.read \in 0 .. c - 1
  BY FieldTypes
<1> DEFINE w == CHOOSE g : g = [n \in 0 .. num |-> PeekRow(f, g, n)]
<1>2. w = [n \in 0 .. num |-> PeekRow(f, w, n)]
  BY PeekWalkExists, Zenon
<1>3. PeekMem(f, num, offset) = w[num][r]
  BY <1>1 DEF PeekMem, PeekRow, Peeked
<1> HIDE DEF w
<1>4. \A n \in 0 .. num : w[n] = PeekRow(f, w, n)
  BY <1>2, Zenon
<1>5. num \in 0 .. num
  OBVIOUS
<1>6. CASE PeekWraps(f, r, num)
  <2>1. num - (c - r) \in 0 .. num /\ 0 \in 0 .. c - 1
    BY <1>1, <1>6 DEF PeekWraps
  <2>2. ~ PeekWraps(f, 0, num - (c - r))
    BY <1>1, <2>1 DEF PeekWraps
  <2>3. w[num - (c - r)][0] = PeekStraight(f, 0, num - (c - r))
    BY <1>1, <1>4, <2>1, <2>2, PeekRowCases
  <2>4. w[num][r] = CopyOut(Peeked(f, r), c - r) \o w[num - (c - r)][0]
    BY <1>1, <1>4, <1>5, <1>6, PeekRowCases
  <2> QED BY <1>3, <1>6, <2>3, <2>4
<1>7. CASE ~ PeekWraps(f, r, num)
  <2>1. w[num][r] = PeekStraight(f, r, num)
    BY <1>1, <1>4, <1>5, <1>7, PeekRowCases
  <2> QED BY <1>3, <1>7, <2>1
<1> QED BY <1>6, <1>7

(* Elements that stay in one piece are copied at once; a slot that is FULL *)
(* or REVERSE is one from which the content reaches the end of the buffer. *)
LEMMA PeekedCases ==
  ASSUME NEW c \in Nat \ {0}, NEW f \in CFifoOf(c), NEW r \in 0 .. c - 1
  PROVE  /\ State(Peeked(f, r)) \in {"FULL", "REVERSE"} <=>
              r > f.write \/ (r = f.write /\ f.last_op = "PUSH")
         /\ \A n : CopyOut(Peeked(f, r), n) = [i \in 1 .. n |-> f.buffer[r + (i - 1)]]
<1> DEFINE g == Peeked(f, r)
<1>1. g.read = r /\ g.write = f.write /\ g.last_op = f.last_op /\ g.buffer = f.buffer
  BY DEF Peeked, CFifoOf
<1>2. f.write \in 0 .. c - 1 /\ f.last_op \in {"PUSH", "POP"}
  BY FieldTypes
<1> HIDE DEF g
<1>3. State(g) \in {"FULL", "REVERSE"} <=>
        r > f.write \/ (r = f.write /\ f.last_op = "PUSH")
  BY <1>1, <1>2 DEF State
<1>4. \A n : CopyOut(g, n) = [i \in 1 .. n |-> f.buffer[r + (i - 1)]]
  BY <1>1 DEF CopyOut
<1> QED BY <1>3, <1>4 DEF g

(* A slot number after one wrap at most, and the number of elements from   *)
(* slot r to the write index; whether none or all is said by last_op.      *)
Wrapped(c, x) == IF x < c THEN x ELSE x - c
Reaches(r, write, last) == r > write \/ (r = write /\ last = "PUSH")
Ahead(c, r, write, last) == IF Reaches(r, write, last) THEN c - r + write ELSE write - r

(* num elements from the offset-th on, which sits in slot r, are content.   *)
PeekedFrom(c, read, write, last, offset, num, r) ==
  offset + num <= Ahead(c, read, write, last) /\ r = Wrapped(c, read + offset)

(* ... and each follows r as it follows read.                              *)
FollowFrom(c, read, offset, num, r) ==
  \A i \in 1 .. num : Wrapped(c, read + (offset + (i - 1))) = Wrapped(c, r + (i - 1))

(* The indices alone: what lies from slot r, the offset-th of the content, *)
(* to the end of the content, and where its elements are.                  *)
LEMMA PeekIndices ==
  ASSUME NEW c \in Nat \ {0}, NEW read \in 0 .. c - 1, NEW write \in 0 .. c - 1,
         NEW last \in {"PUSH", "POP"}, Ahead(c, read, write, last) \in 0 .. c,
         NEW offset \in Nat, NEW num \in Nat, NEW r \in 0 .. c - 1,
         PeekedFrom(c, read, write, last, offset, num, r)
  PROVE  /\ num > 0 => Ahead(c, read, write, last) - offset = Ahead(c, r, write, last)
         /\ FollowFrom(c, read, offset, num, r)
<1> USE DEF Wrapped, Ahead, Reaches
<1>0. PICK len \in 0 .. c : len = Ahead(c, read, write, last)
  OBVIOUS
<1>1. /\ c \in Int /\ read \in Int /\ write \in Int /\ len \in Int /\ offset \in Int /\ num \in Int
      /\ r \in Int /\ 0 < c /\ 0 <= read /\ read < c /\ 0 <= write /\ write < c /\ 0 <= len
      /\ len <= c /\ 0 <= offset /\ 0 <= num /\ num <= len - offset /\ 0 <= r /\ r < c
  BY <1>0 DEF PeekedFrom
<1>2. CASE read + offset < c
  <2>1. r = read + offset
    BY <1>2 DEF PeekedFrom
  <2>2. num > 0 => Ahead(c, read, write, last) - offset = Ahead(c, r, write, last)
    BY <1>0, <1>1, <2>1
  <2>3. ASSUME NEW i \in 1 .. num
        PROVE  Wrapped(c, read + (offset + (i - 1))) = Wrapped(c, r + (i - 1))
    BY <1>1, <2>1
  <2> QED BY <2>2, <2>3 DEF FollowFrom
<1>3. CASE read + offset >= c
  <2>1. r = read + offset - c
    BY <1>1, <1>3 DEF PeekedFrom
  <2>2. num > 0 => Ahead(c, read, write, last) - offset = Ahead(c, r, write, last)
    BY <1>0, <1>1, <2>1
  <2>3. ASSUME NEW i \in 1 .. num
        PROVE  Wrapped(c, read + (offset + (i - 1))) = Wrapped(c, r + (i - 1))
    <3>1. i \in Int /\ 1 <= i /\ i <= num
      BY <1>1
    <3>2. read + (offset + (i - 1)) >= c /\ r + (i - 1) < c
      BY <1>1, <1>3, <2>1, <3>1
    <3> QED BY <1>1, <2>1, <3>1, <3>2
  <2> QED BY <2>2, <2>3 DEF FollowFrom
<1> QED BY <1>1, <1>2, <1>3

(* peekmem within the content reads the elements asked, wherever they wrap. *)
LEMMA PeekMemLemma ==
  ASSUME NEW c \in Nat \ {0}, NEW f \in CFifoOf(c), NEW offset \in Nat, NEW num \in Nat,
         offset + num <= Length(f)
  PROVE  PeekMem(f, num, offset) = SubSeq(Content(f), offset + 1, offset + num)
<1>1. /\ f.capacity = c /\ f.read \in 0 .. c - 1 /\ f.write \in 0 .. c - 1
      /\ f.last_op \in {"PUSH", "POP"} /\ f.buffer \in [0 .. c - 1 -> Value]
  BY FieldTypes
<1>l. PICK len \in 0 .. c : len = Length(f)
  BY LengthCases
<1>2. len = Ahead(c, f.read, f.write, f.last_op)
  <2>1. len = IF f.read = f.write THEN IF f.last_op = "POP" THEN 0 ELSE c
              ELSE IF f.read < f.write THEN f.write - f.read
              ELSE c - (f.read - f.write)
    BY <1>l, LengthCases
  <2> QED BY <1>1, <2>1 DEF Ahead, Reaches
<1>3. num \in 0 .. c /\ offset \in 0 .. c /\ offset + num <= len
  BY <1>l
<1>p. PICK read \in 0 .. c - 1, write \in 0 .. c - 1, last \in {"PUSH", "POP"} :
        f.read = read /\ f.write = write /\ f.last_op = last
  BY <1>1
<1> DEFINE m == (read + offset) % c
<1>m. m = Wrapped(c, read + offset)
  <2>1. (read + offset) % c = IF read + offset < c THEN read + offset ELSE read + offset - c
    BY <1>3, ModWrap
  <2> QED BY <2>1 DEF Wrapped
<1> HIDE DEF m
<1>4. PICK r \in 0 .. c - 1 : r = m /\ r = Wrapped(c, read + offset)
  <2>1. m \in 0 .. c - 1
    BY <1>3, <1>m DEF Wrapped
  <2> QED BY <1>m, <2>1
<1>i. /\ num > 0 => len - offset = Ahead(c, r, write, last)
      /\ \A i \in 1 .. num : Wrapped(c, read + (offset + (i - 1))) = Wrapped(c, r + (i - 1))
  <2>1. len = Ahead(c, read, write, last) /\ offset + num <= len /\ r = Wrapped(c, read + offset)
    BY <1>2, <1>3, <1>4, <1>p
  <2>2. Ahead(c, read, write, last) \in 0 .. c /\ PeekedFrom(c, read, write, last, offset, num, r)
    BY <2>1 DEF PeekedFrom
  <2>3. /\ num > 0 => Ahead(c, read, write, last) - offset = Ahead(c, r, write, last)
        /\ FollowFrom(c, read, offset, num, r)
    BY <2>2, PeekIndices
  <2> QED BY <2>1, <2>3 DEF FollowFrom
<1> DEFINE At(i) == f.buffer[Slot(f, offset + (i - 1))]
           s == [i \in 1 .. num |-> At(i)]
           reaches == Reaches(r, write, last)
           k == c - r
(* The elements are s, and the first ones follow r. *)
<1>5. SubSeq(Content(f), offset + 1, offset + num) = s
  <2>1. /\ Content(f) \in Seq(Value) /\ Len(Content(f)) = len
        /\ \A i \in 1 .. len : Content(f)[i] = f.buffer[Slot(f, i - 1)]
    BY <1>l, ContentType
  <2> DEFINE t == SubSeq(Content(f), offset + 1, offset + num)
  <2>2. t = [i \in 1 .. (offset + num + 1) - (offset + 1) |-> Content(f)[i + (offset + 1) - 1]]
    BY DEF SubSeq
  <2>3. (offset + num + 1) - (offset + 1) = num
    BY <1>3
  <2>4. ASSUME NEW i \in 1 .. num PROVE Content(f)[i + (offset + 1) - 1] = At(i)
    <3>1. i + (offset + 1) - 1 \in 1 .. len
          /\ i + (offset + 1) - 1 - 1 = offset + (i - 1)
      BY <1>3
    <3> QED BY <2>1, <3>1
  <2> HIDE DEF At
  <2> QED BY <2>2, <2>3, <2>4
<1>6. \A i \in 1 .. num : At(i) = f.buffer[Wrapped(c, r + (i - 1))]
  <2> TAKE i \in 1 .. num
  <2>1. offset + (i - 1) \in 0 .. c
    BY <1>2, <1>3
  <2>2. Slot(f, offset + (i - 1)) = Wrapped(c, read + (offset + (i - 1)))
    <3>1. PICK j \in 0 .. c : j = offset + (i - 1)
      BY <2>1
    <3>2. Slot(f, j) = IF f.read + j < c THEN f.read + j ELSE f.read + j - c
      BY SlotValue
    <3> QED BY <1>p, <3>1, <3>2 DEF Wrapped
  <2>3. Slot(f, offset + (i - 1)) = Wrapped(c, r + (i - 1))
    BY <1>i, <2>2
  <2> QED BY <2>3
<1>7. num > 0 => len - offset = IF reaches THEN c - r + write ELSE write - r
  BY <1>i DEF Ahead
<1>8. State(Peeked(f, r)) \in {"FULL", "REVERSE"} <=> reaches
  BY <1>p, PeekedCases DEF Reaches
<1>9. /\ \A n : CopyOut(Peeked(f, r), n) = [i \in 1 .. n |-> f.buffer[r + (i - 1)]]
      /\ \A n : CopyOut(Peeked(f, 0), n) = [i \in 1 .. n |-> f.buffer[0 + (i - 1)]]
  <2>1. 0 \in 0 .. c - 1
    OBVIOUS
  <2> QED BY <2>1, PeekedCases
<1>10. PeekWraps(f, r, num) <=> reaches /\ k < num
  BY <1>1, <1>8 DEF PeekWraps
<1>11. PeekMem(f, num, offset) =
           IF PeekWraps(f, r, num)
           THEN CopyOut(Peeked(f, r), k) \o PeekStraight(f, 0, num - k)
           ELSE PeekStraight(f, r, num)
  <2>1. r = (f.read + offset) % c
    BY <1>4, <1>p DEF m
  <2> QED BY <1>3, <2>1, PeekMemUnfolds
<1>12. CASE reaches /\ k < num
  <2>1. num - k \in 1 .. write /\ k \in 1 .. num - 1
    BY <1>3, <1>7, <1>12
  <2>2. PeekStraight(f, 0, num - k) = [i \in 1 .. num - k |-> f.buffer[0 + (i - 1)]]
    <3>1. ~ (0 > f.write \/ (0 = f.write /\ f.last_op = "PUSH"))
      BY <1>p, <2>1
    <3>2. 0 \in 0 .. c - 1
      OBVIOUS
    <3>3. State(Peeked(f, 0)) \notin {"FULL", "REVERSE"}
      BY <3>1, <3>2, PeekedCases
    <3>4. Least(f.write - 0, num - k) = num - k
      BY <1>p, <2>1 DEF Least
    <3> QED BY <1>9, <3>3, <3>4 DEF PeekStraight
  <2>3. CopyOut(Peeked(f, r), k) = [i \in 1 .. k |-> f.buffer[r + (i - 1)]]
    BY <1>9
  <2> DEFINE a == [i \in 1 .. k |-> f.buffer[r + (i - 1)]]
             b == [i \in 1 .. num - k |-> f.buffer[0 + (i - 1)]]
  <2>4. a \in Seq(Value) /\ Len(a) = k /\ \A i \in 1 .. k : a[i] = f.buffer[r + (i - 1)]
    <3>1. \A i \in 1 .. k : f.buffer[r + (i - 1)] \in Value
      <4> TAKE i \in 1 .. k
      <4>1. r + (i - 1) \in 0 .. c - 1
        OBVIOUS
      <4> QED BY <1>1, <4>1
    <3>2. k \in Nat
      BY <2>1
    <3> HIDE DEF k
    <3> QED BY <3>1, <3>2
  <2>5. /\ b \in Seq(Value) /\ Len(b) = num - k
        /\ \A i \in 1 .. num - k : b[i] = f.buffer[0 + (i - 1)]
    <3>1. \A i \in 1 .. num - k : f.buffer[0 + (i - 1)] \in Value
      BY <1>1, <2>1
    <3>2. num - k \in Nat
      BY <2>1
    <3> HIDE DEF k
    <3> QED BY <3>1, <3>2
  <2> HIDE DEF a, b, At
  <2>6. /\ Len(a \o b) = num /\ a \o b \in Seq(Value)
        /\ \A i \in 1 .. num : (a \o b)[i] = IF i <= k THEN a[i] ELSE b[i - k]
    <3>1. /\ Len(a \o b) = Len(a) + Len(b) /\ a \o b \in Seq(Value)
          /\ \A i \in 1 .. Len(a) + Len(b) :
               (a \o b)[i] = IF i <= Len(a) THEN a[i] ELSE b[i - Len(a)]
      BY <2>4, <2>5, ConcatProperties
    <3>2. Len(a) + Len(b) = num
      BY <2>1, <2>4, <2>5
    <3> QED BY <3>1, <3>2, <2>4
  <2>7. ASSUME NEW i \in 1 .. num PROVE (a \o b)[i] = At(i)
    <3>1. CASE i <= k
      <4>1. r + (i - 1) < c /\ i \in 1 .. k
        BY <3>1, <2>1
      <4> QED BY <3>1, <4>1, <1>6, <2>4, <2>6 DEF Wrapped
    <3>2. CASE i > k
      <4>1. ~ r + (i - 1) < c /\ r + (i - 1) - c = 0 + ((i - k) - 1) /\ i - k \in 1 .. num - k
        BY <3>2, <2>1
      <4>2. b[i - k] = f.buffer[0 + ((i - k) - 1)]
        BY <4>1, <2>5
      <4>3. At(i) = f.buffer[r + (i - 1) - c]
        BY <4>1, <1>6 DEF Wrapped
      <4>4. (a \o b)[i] = b[i - k]
        <5>1. ~ i <= k
          BY <3>2, <2>1
        <5> HIDE DEF k
        <5> QED BY <5>1, <2>6
      <4> QED BY <4>1, <4>2, <4>3, <4>4
    <3>3. i <= k \/ i > k
      BY <2>1
    <3> QED BY <3>1, <3>2, <3>3
  <2>8. s \in Seq(Value) /\ Len(s) = num /\ \A i \in 1 .. num : s[i] = At(i)
    <3>1. \A i \in 1 .. num : At(i) \in Value
      <4> TAKE i \in 1 .. num
      <4>1. (a \o b)[i] \in Value
        BY <2>6
      <4> QED BY <4>1, <2>7
    <3> QED BY <3>1
  <2>9. a \o b = s
    <3> DEFINE q == a \o b
    <3>1. q \in Seq(Value) /\ Len(q) = num /\ \A i \in 1 .. num : q[i] = At(i)
      BY <2>6, <2>7
    <3> HIDE DEF q, s
    <3>2. q = s
      BY <2>8, <3>1, SeqEqual
    <3> QED BY <3>2 DEF q
  <2> QED BY <1>5, <1>10, <1>11, <1>12, <2>2, <2>3, <2>9 DEF a, b
<1>13. CASE ~ (reaches /\ k < num)
  <2>1. PeekMem(f, num, offset) = PeekStraight(f, r, num)
    BY <1>10, <1>11, <1>13
  <2>2. PeekStraight(f, r, num) = CopyOut(Peeked(f, r), num)
    <3>1. CASE reaches
      BY <3>1, <1>8 DEF PeekStraight
    <3>2. CASE ~ reaches
      <4>1. Least(f.write - r, num) = num
        <5>1. num <= write - r
          BY <3>2, <1>3, <1>7 DEF Reaches
        <5> QED BY <1>p, <5>1 DEF Least
      <4> QED BY <3>2, <4>1, <1>8 DEF PeekStraight
    <3> QED BY <3>1, <3>2
  <2>3. PeekStraight(f, r, num) = [i \in 1 .. num |-> f.buffer[r + (i - 1)]]
    BY <1>9, <2>2
  <2>4. \A i \in 1 .. num : f.buffer[r + (i - 1)] = At(i)
    <3>1. num <= k
      <4>1. CASE num > 0 /\ ~ reaches
        BY <4>1, <1>3, <1>7
      <4> QED BY <4>1, <1>13
    <3>2. \A i \in 1 .. num : r + (i - 1) < c
      BY <3>1
    <3> QED BY <1>6, <3>2 DEF Wrapped
  <2> HIDE DEF At
  <2> QED BY <1>5, <2>1, <2>3, <2>4
<1> QED BY <1>12, <1>13
=============================================================================
