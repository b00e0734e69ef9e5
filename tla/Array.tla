------------------------------- MODULE Array -------------------------------
(***************************************************************************)
(* The arrays of include/pelib/array.c: a program keeps elements in        *)
(* arrays, copies and compares them, stores them in a file, as text or     *)
(* binary, and loads them back, whole or by a window, also after it ended  *)
(* and was started again.                                                  *)
(*                                                                         *)
(* Text files hold words, each a number and a blank, and are written when  *)
(* the program ends, since storefilename never closes the file; this holds *)
(* for a file smaller than a buffer of stdio.  Binary files hold units of  *)
(* a few bytes: the length takes IntSize of them, an element width.  They  *)
(* are written by the call that stores, a part of them at a time, and the  *)
(* program may be killed in between.  No write fails for want of room.     *)
(***************************************************************************)
EXTENDS Integers, Sequences, FiniteSets, SequencesExt

CONSTANTS
  Arrays, Values,
  MaxLength,  \* bound: the largest capacity a client asks for
  Radix,      \* of the numbers in a text file, 10
  IntSize, Widths,  \* sizes of a length and of an element in a binary file
  MaxOpen,    \* how many files a program can have open
  SizeMax,    \* the largest size_t
  IntModulus, \* arithmetic on int is modulo IntModulus
  Torn,       \* an element made of pieces of two
  None

(* An element narrower than an int makes the window loader write past the  *)
(* array it allocates; such elements are left out.                         *)
ASSUME ArrayAssumption ==
  /\ Values \subseteq Int /\ Torn \in Int \ Values
  /\ MaxLength \in Nat /\ MaxOpen \in Nat /\ Radix \in Nat \ {0, 1}
  /\ SizeMax \in Nat /\ MaxLength <= SizeMax /\ IntModulus \in Nat \ {0}
  /\ IntSize \in Nat \ {0} /\ \A w \in Widths : w \in Nat /\ w >= IntSize

(* array_t, with the memory data points to, and a unit of a binary file.   *)
ArrayType == [capacity : Nat, length : Nat, data : Seq(Int)]
UnitType == {"length", "elem"} \X Int \X Nat

(* None is no array and no file. *)
ASSUME NoneAssumption ==
  /\ None \notin Int /\ None \notin ArrayType /\ None \notin Arrays
  /\ None \notin Seq(Int) /\ None \notin Seq(UnitType)
  /\ None \notin [length : Nat \cup {None}, elements : Seq(Int)]

VARIABLES
  arrays,   \* each array: its capacity, length and data, or None
  format,   \* which functions the client stores and loads with
  width,    \* the size of its elements
  disk,     \* the words or units of the file, or None
  writing,  \* the array a call is storing in a binary file, or None
  unsaved,  \* the words of the text stores, still in the buffers of stdio
  open      \* the files that calls left open
vars == <<arrays, format, width, disk, writing, unsaved, open>>

Init ==
  /\ arrays = [a \in Arrays |-> None]
  /\ format \in {"text", "binary"} /\ width \in Widths
  /\ disk = None /\ writing = None /\ unsaved = {} /\ open = 0

-----------------------------------------------------------------------------
(* pelib_alloc_collection: calloc clears the elements. *)
NewArray(capacity) ==
  [capacity |-> capacity, length |-> 0, data |-> [i \in 1 .. capacity |-> 0]]

(* pelib_array_read: what pelib_init leaves beyond the capacity. *)
Read(a, pos) == IF a.capacity > pos THEN a.data[pos + 1] ELSE 0

(* pelib_array_write; the length does not follow. *)
Written(a, pos, val) == IF a.capacity > pos THEN [a EXCEPT !.data[pos + 1] = val] ELSE a

(* pelib_array_append *)
Appended(a, val) ==
  IF a.length < a.capacity
  THEN [a EXCEPT !.data[a.length + 1] = val, !.length = @ + 1]
  ELSE a

(* pelib_copy: malloc's memory keeps what it held behind the elements. *)
CopyOf(a, held) ==
  [a EXCEPT !.data = [i \in 1 .. a.capacity |-> IF i <= a.length THEN a.data[i] ELSE held]]

Elements(a) == [i \in 1 .. a.length |-> Read(a, i - 1)]

(* pelib_compare(int): the difference, an int as well. *)
CompareInt(a, b) == ((a - b + IntModulus \div 2) % IntModulus) - IntModulus \div 2

(* Slip: the shorter array is the greater. *)
CompareShorterGreater(a1, a2) ==
  IF a1.length # a2.length THEN (IF a1.length < a2.length THEN 1 ELSE -1)
  ELSE LET stop == Min({i \in 0 .. a1.length :
                          i = a1.length \/ CompareInt(Read(a1, i), Read(a2, i)) # 0})
       IN CompareInt(Read(a1, stop), Read(a2, stop))

(* pelib_array_compare: the loop stops at the length at the latest, and    *)
(* what is there, past the elements, decides.                              *)
Compare(a1, a2) ==
  IF a1.length # a2.length THEN (IF a1.length < a2.length THEN -1 ELSE 1)
  ELSE LET stop == Min({i \in 0 .. a1.length :
                          i = a1.length \/ CompareInt(Read(a1, i), Read(a2, i)) # 0})
       IN CompareInt(Read(a1, stop), Read(a2, stop))

(* pelib_string: what it shows, and behind which elements a separator. The *)
(* first loop ends at the length less one, a size_t; the second one shows  *)
(* what is left.                                                           *)
LastShown(a) == (a.length - 1) % (SizeMax + 1)
Shown(a) ==
  [i \in 1 .. (IF LastShown(a) > a.length THEN LastShown(a) ELSE a.length) |->
     [elem |-> Read(a, i - 1), separator |-> i <= LastShown(a)]]

-----------------------------------------------------------------------------
(* Text: how many digits a number has, and what pelib_fread of a number    *)
(* makes of it: the sign counts as a digit, '-' less '0', which is -3.     *)
Powers(m) == LET power[d \in 0 .. m] == IF d = 0 THEN 1 ELSE Radix * power[d - 1] IN power
NumDigits(n) == Min({d \in 1 .. n + 1 : n < Powers(n + 1)[d]})
Fread(words, i) ==
  IF i > Len(words) THEN [num |-> 0, total |-> 0]
  ELSE LET word   == words[i]
           digits == NumDigits(IF word < 0 THEN -word ELSE word)
       IN IF word >= 0 THEN [num |-> word, total |-> digits]
          ELSE [num |-> (-3) * Powers(digits)[digits] - word, total |-> digits + 1]

(* Slip: the result of reading the length is not looked at. *)
TextLoadAnyLength(words) ==
  LET size == Fread(words, 1).num
  IN [capacity |-> size, length |-> size,
      data |-> [i \in 1 .. size |-> Fread(words, i + 1).num]]

(* pelib_array_loadfilename of an open file: only a length of one          *)
(* character is taken.                                                     *)
TextLoad(words) ==
  LET size == Fread(words, 1)
  IN IF size.total # 1 THEN None
     ELSE [capacity |-> size.num, length |-> size.num,
           data |-> [i \in 1 .. size.num |-> Fread(words, i + 1).num]]

(* Binary: the units of the length and of an element, and what units read  *)
(* as an element give.                                                     *)
Units(kind, num, size) == [k \in 1 .. size |-> <<kind, num, k>>]
Decode(units) ==
  IF \E v \in Values : units = Units("elem", v, width)
  THEN CHOOSE v \in Values : units = Units("elem", v, width)
  ELSE Torn

(* fread of at most ask elements from position from: the whole ones, which *)
(* it counts, and what a part of one leaves behind them.                   *)
Left(units, from) == IF from > Len(units) THEN 0 ELSE Len(units) - from
FreadUnits(units, from, ask) ==
  LET whole == Left(units, from) \div width
  IN [i \in 1 .. (IF ask < whole THEN ask ELSE whole) |->
        Decode(SubSeq(units, from + (i - 1) * width + 1, from + i * width))]
PartRead(units, from, ask) ==
  LET whole == Left(units, from) \div width
  IN IF whole < ask /\ whole * width < Left(units, from) THEN <<Torn>> ELSE <<>>

(* Whether fread finds the length, and the length. *)
HasHeader(units) == Len(units) >= IntSize
Header(units) == units[1][2]

(* The array that calloc made, once fread has put elements and a part of   *)
(* one in its data.                                                        *)
FilledBy(capacity, loaded, part) ==
  LET all == loaded \o part
  IN [capacity |-> capacity, length |-> Len(loaded),
      data |-> [i \in 1 .. (IF Len(all) > capacity THEN Len(all) ELSE capacity) |->
                  IF i <= Len(all) THEN all[i] ELSE 0]]

(* Slip: the length is not skipped. *)
BinaryLoadFromStart(units, offset, length) ==
  LET size == Header(units)
      rest == size - offset
      ask  == IF length > 0 THEN length ELSE rest
  IN IF ~HasHeader(units) \/ rest <= 0 THEN None
     ELSE FilledBy(IF ask < rest THEN ask ELSE rest,
                   FreadUnits(units, width * offset, ask), PartRead(units, width * offset, ask))

(* pelib_array_loadfilenamewindowbinary of an open file, if it finds the   *)
(* length in it: it seeks as if the length took the place of one element,  *)
(* and reads as many elements as it was asked for, or all, to an array     *)
(* that has room for those there.                                          *)
BinaryLoad(units, offset, length) ==
  LET size == Header(units)
      rest == size - offset
      ask  == IF length > 0 THEN length ELSE rest
      from == width * (offset + 1)
  IN IF ~HasHeader(units) \/ rest <= 0 THEN None
     ELSE FilledBy(IF ask < rest THEN ask ELSE rest,
                   FreadUnits(units, from, ask), PartRead(units, from, ask))

(* pelib_array_preloadfilenamebinary of an open file: the length alone. *)
LengthLoad(units) ==
  IF HasHeader(units) THEN [NewArray(0) EXCEPT !.length = Header(units)] ELSE None

Words(a) == <<a.length>> \o Elements(a)
ElementUnits(s) ==
  [k \in 1 .. Len(s) * width |-> <<"elem", s[((k - 1) \div width) + 1], ((k - 1) % width) + 1>>]
UnitsOf(a) == Units("length", a.length, IntSize) \o ElementUnits(Elements(a))

-----------------------------------------------------------------------------
Exists(a) == arrays[a] # None
(* A client gives an array it preloaded a buffer before it uses elements.  *)
HasBuffer(a) == Exists(a) /\ arrays[a].length <= arrays[a].capacity
Set(a, array) == arrays' = [arrays EXCEPT ![a] = array]
FileUnchanged == UNCHANGED <<disk, writing, unsaved, open>>

Alloc(a, capacity) == ~Exists(a) /\ Set(a, NewArray(capacity)) /\ FileUnchanged

(* pelib_init *)
Clear(a) == Exists(a) /\ Set(a, [arrays[a] EXCEPT !.length = 0]) /\ FileUnchanged

(* pelib_set_buffer of an array without one: the client's memory is long   *)
(* enough, and holds anything.                                             *)
SetBuffer(a, size, held) ==
  /\ Exists(a) /\ arrays[a].capacity = 0 /\ size >= arrays[a].length
  /\ Set(a, [arrays[a] EXCEPT !.capacity = size, !.data = [i \in 1 .. size |-> held]])
  /\ FileUnchanged

Write(a, pos, val) == HasBuffer(a) /\ Set(a, Written(arrays[a], pos, val)) /\ FileUnchanged
Add(a, val) == HasBuffer(a) /\ Set(a, Appended(arrays[a], val)) /\ FileUnchanged

Copy(src, dst, held) ==
  HasBuffer(src) /\ Set(dst, CopyOf(arrays[src], held)) /\ FileUnchanged

(* pelib_free *)
Free(a) == Exists(a) /\ Set(a, None) /\ FileUnchanged

(* The program ends and another one starts: the buffers are written, and   *)
(* of two stores to one file the one written last covers the other; what   *)
(* is left behind it is never read, since it is behind the length given.   *)
Ended == arrays' = [a \in Arrays |-> None] /\ writing' = None /\ unsaved' = {} /\ open' = 0
Exit == Ended /\ IF unsaved = {} THEN UNCHANGED disk ELSE disk' \in unsaved

(* The program is killed, maybe while it stores, or ends at a write        *)
(* through NULL.                                                           *)
Killed == Ended /\ UNCHANGED disk

(* pelib_array_storefilename and ..binary do not test what fopen returned. *)
(* Bound: what is stored are values of the client, not misread ones.       *)
StoreText(a) ==
  /\ format = "text" /\ HasBuffer(a) /\ ToSet(Elements(arrays[a])) \subseteq Values
  /\ IF open = MaxOpen THEN Killed
     ELSE /\ disk' = <<>> /\ unsaved' = unsaved \cup {Words(arrays[a])} /\ open' = open + 1
          /\ UNCHANGED <<arrays, writing>>

StoreBinary(a) ==
  /\ format = "binary" /\ HasBuffer(a) /\ ToSet(Elements(arrays[a])) \subseteq Values
  /\ IF open = MaxOpen THEN Killed
     ELSE disk' = <<>> /\ writing' = a /\ UNCHANGED <<arrays, unsaved, open>>

(* More of what the call writes gets to the file; fclose writes the rest,  *)
(* and the call returns.                                                   *)
Flush ==
  /\ \E n \in Len(disk) + 1 .. Len(UnitsOf(arrays[writing])) :
       disk' = SubSeq(UnitsOf(arrays[writing]), 1, n)
  /\ UNCHANGED <<arrays, writing, unsaved, open>>
CloseStore ==
  /\ disk' = UnitsOf(arrays[writing]) /\ writing' = None
  /\ UNCHANGED <<arrays, unsaved, open>>

(* A load returns NULL when the file does not open, or leaves it open when *)
(* it cannot use what it holds.                                            *)
CanOpen == disk # None /\ open < MaxOpen
Returns(a, result) ==
  /\ ~Exists(a)
  /\ Set(a, IF CanOpen THEN result ELSE None)
  /\ open' = IF CanOpen /\ result = None THEN open + 1 ELSE open
  /\ UNCHANGED <<disk, writing, unsaved>>

LoadText(a) == format = "text" /\ Returns(a, IF CanOpen THEN TextLoad(disk) ELSE None)

LoadWindow(a, offset, length) ==
  /\ format = "binary"
  /\ Returns(a, IF CanOpen THEN BinaryLoad(disk, offset, length) ELSE None)

Preload(a) == format = "binary" /\ Returns(a, IF CanOpen THEN LengthLoad(disk) ELSE None)

Call ==
  \E a \in Arrays :
    \/ Clear(a) \/ Free(a) \/ StoreText(a) \/ StoreBinary(a) \/ LoadText(a) \/ Preload(a)
    \/ \E n \in 0 .. MaxLength, m \in 0 .. MaxLength : LoadWindow(a, n, m)
    \/ \E n \in 0 .. MaxLength : Alloc(a, n)
    \/ \E n \in 0 .. MaxLength, v \in Values : Write(a, n, v) \/ SetBuffer(a, n, v)
    \/ \E v \in Values : Add(a, v)
    \/ \E dst \in Arrays \ {a}, v \in Values : Copy(a, dst, v)

(* The program is between two calls, or in one that stores. *)
Next ==
  /\ UNCHANGED <<format, width>>
  /\ \/ writing = None /\ (Call \/ Exit)
     \/ writing # None /\ (Flush \/ CloseStore)
     \/ Killed

Spec == Init /\ [][Next]_vars

-----------------------------------------------------------------------------
(* No operation writes past the memory of an array, and an array holds     *)
(* more elements than its capacity only after a preload: the windowed      *)
(* loader reads as many elements as it was asked for (array.c:288), which  *)
(* may be more than it made room for.                                      *)
TypeOK ==
  /\ \A a \in Arrays :
       Exists(a) => /\ arrays[a] \in ArrayType
                    /\ Len(arrays[a].data) = arrays[a].capacity
                    /\ arrays[a].length > arrays[a].capacity =>
                         format = "binary" /\ arrays[a].capacity = 0
  /\ open \in 0 .. MaxOpen /\ Cardinality(unsaved) <= open
  /\ writing # None => writing \in Arrays /\ HasBuffer(writing) /\ format = "binary"

(* compare of two arrays with different elements has the sign of the       *)
(* comparison of their lengths, or of the first elements that differ,      *)
(* unless the difference of those does not fit in an int: the sign, since  *)
(* it is the difference (integer.c:55) and not -1 or 1, as array.h:97      *)
(* says.  The string of an array shows its elements, with a separator      *)
(* behind all but the last.  Left out are arrays with equal elements,      *)
(* which compare as what lies behind them (array.c:600) and not as 0, and  *)
(* the string of an empty one, which runs over SizeMax elements            *)
(* (array.c:317).                                                          *)
Near(x, y) == 2 * (x - y) < IntModulus /\ 2 * (y - x) < IntModulus
DifferFirstAt(s, t, i) == SubSeq(s, 1, i - 1) = SubSeq(t, 1, i - 1) /\ s[i] # t[i]
ElementsDecide(a1, a2) ==
  LET s == Elements(a1)
      t == Elements(a2)
      c == Compare(a1, a2)
  IN IF Len(s) # Len(t) THEN c < 0 <=> Len(s) < Len(t)
     ELSE \A i \in 1 .. Len(s) : DifferFirstAt(s, t, i) /\ Near(s[i], t[i]) =>
            c # 0 /\ (c < 0 <=> s[i] < t[i])
ObserversAgree ==
  \A a \in Arrays : Exists(a) =>
    /\ \A b \in Arrays : Exists(b) => ElementsDecide(arrays[a], arrays[b])
    /\ arrays[a].length > 0 =>
         Shown(arrays[a]) = [i \in 1 .. arrays[a].length |->
           [elem |-> Elements(arrays[a])[i], separator |-> i < arrays[a].length]]

(* The arrays and their files do what Archive says, of windows with an     *)
(* offset and a length (array.c:257), where array.h:67 has the index of    *)
(* the last element in place of the length: a binary file gives back what  *)
(* was stored last, from every offset and for every length, if its         *)
(* elements are as wide as an int, or the first ones of it when the        *)
(* program was killed as it stored; and a text file gives back the numbers *)
(* that are not negative of one array stored by a program that ended, if   *)
(* their number has one digit.  Everything else that can happen is listed  *)
(* in Archive.                                                             *)
StoredElements ==
  [i \in 1 .. (Len(disk) - IntSize) \div width |->
     Decode(SubSeq(disk, IntSize + (i - 1) * width + 1, IntSize + i * width))]
Content == [a \in Arrays |-> IF Exists(a) THEN Elements(arrays[a]) ELSE None]
File ==
  IF disk = None THEN None
  ELSE IF disk = <<>> \/ (format = "binary" /\ ~HasHeader(disk))
       THEN [length |-> None, elements |-> <<>>]
  ELSE IF format = "text" THEN [length |-> Len(Tail(disk)), elements |-> Tail(disk)]
  ELSE [length |-> Header(disk), elements |-> StoredElements]
Pending == {Tail(words) : words \in unsaved}
Promise == INSTANCE Archive WITH
  Legible <- 0 .. Radix - 1,
  exact   <- width = IntSize,
  content <- Content,
  disk    <- File,
  unsaved <- Pending
ImplementsArchive == Promise!Spec
=============================================================================
