-------------------------------- MODULE Map --------------------------------
(***************************************************************************)
(* The sorted, doubly linked lists of include/pelib/map.c and set.c, which *)
(* are the same code, with the element for a key in a set.  The heap holds *)
(* the iterators, which are the list's cells, and the first and last       *)
(* pointers of each map.  A client also walks a list with begin and next   *)
(* while it goes on inserting.                                             *)
(***************************************************************************)
EXTENDS Integers, Sequences, FiniteSets, SequencesExt

CONSTANTS
  Maps, Keys, Values,
  Kinds,  \* what the client uses: "map", "set"
  Nodes,  \* the cells malloc can return
  IntModulus,  \* arithmetic on int is modulo IntModulus
  NULL

(* No two keys and no two values are so far apart that their difference    *)
(* does not fit in an int.                                                 *)
ASSUME MapAssumption ==
  /\ Keys \subseteq Int /\ Keys # {}
  /\ Values \subseteq Int /\ Values # {}
  /\ Kinds \subseteq {"map", "set"}
  /\ NULL \notin Nodes /\ NULL \notin Int /\ IsFiniteSet(Nodes)
  /\ IntModulus \in Nat \ {0}
  /\ \A a, b \in Keys : 2 * (a - b) < IntModulus
  /\ \A a, b \in Values : 2 * (a - b) < IntModulus

VARIABLES
  kind,    \* what the client uses
  heap,    \* node: the cells; allocated: those in use; list: first and last
  cursor,  \* the client's walk: the map, the cell it is at and, for the
           \* properties, the keys the map had at begin that it did not read
  call     \* the last call that changes a map and what it returned
vars == <<kind, heap, cursor, call>>

NoWalk == [map |-> NULL, at |-> NULL, unread |-> {}]

(* A cell of a set holds an element alone. *)
SetValue == CHOOSE v \in Values : TRUE

(* A cell that is not in use: its pointers lead nowhere useful. *)
Junk(n) == [key |-> CHOOSE k \in Keys : TRUE, value |-> SetValue,
            next |-> n, previous |-> n]

(* pelib_init on every map or set. *)
Init ==
  /\ kind \in Kinds
  /\ heap = [node |-> [n \in Nodes |-> Junk(n)],
             allocated |-> {},
             list |-> [m \in Maps |-> [first |-> NULL, last |-> NULL]]]
  /\ cursor = NoWalk
  /\ call = [asked |-> <<"init">>, ret |-> 0]

-----------------------------------------------------------------------------
(* The cells from p on, following the pointers pt; at most one of each.    *)
Follow(pt) ==
  LET walk[fuel \in 0 .. Cardinality(Nodes)] ==
        [n \in Nodes \cup {NULL} |->
           IF fuel = 0 \/ n = NULL THEN <<>> ELSE <<n>> \o walk[fuel - 1][pt[n]]]
  IN walk
Along(pt, p) == Follow(pt)[Cardinality(Nodes)][p]
Nexts(h) == [n \in Nodes |-> h.node[n].next]
Previouses(h) == [n \in Nodes |-> h.node[n].previous]
Forward(h, m) == Along(Nexts(h), h.list[m].first)
Backward(h, m) == Along(Previouses(h), h.list[m].last)
KeysOf(h, m) == {h.node[n].key : n \in ToSet(Forward(h, m))}

(* pelib_compare of ints: a - b, which wraps around. *)
CompareInt(a, b) == ((a - b + IntModulus \div 2) % IntModulus) - IntModulus \div 2

(* Where pelib_map_insert_element stops: at the first cell whose key is    *)
(* not lower than the one inserted.                                        *)
Position(h, m, key) ==
  LET chain == Forward(h, m)
      j == Min({i \in 1 .. Len(chain) : CompareInt(key, h.node[chain[i]].key) <= 0}
             \cup {Len(chain) + 1})
  IN [current  |-> IF j > Len(chain) THEN NULL ELSE chain[j],
      previous |-> IF j = 1 THEN NULL ELSE chain[j - 1]]

(* Slip: the cell after the new one keeps its old previous pointer. *)
LinkOneWay(h, m, elem, current, previous) ==
  [h EXCEPT
     !.node = [n \in Nodes |-> [h.node[n] EXCEPT
        !.next     = IF n = elem THEN current ELSE IF n = previous THEN elem ELSE @,
        !.previous = IF n = elem THEN previous ELSE @]],
     !.list[m] = [first |-> IF current = @.first THEN elem ELSE @.first,
                  last  |-> IF current = NULL THEN elem ELSE @.last]]

(* Slip: the first pointer is not moved to an element inserted before it.  *)
LinkKeepsFirst(h, m, elem, current, previous) ==
  [h EXCEPT
     !.node = [n \in Nodes |-> [h.node[n] EXCEPT
        !.next     = IF n = elem THEN current ELSE IF n = previous THEN elem ELSE @,
        !.previous = IF n = elem THEN previous ELSE IF n = current THEN elem ELSE @]],
     !.list[m] = [first |-> IF @.first = NULL THEN elem ELSE @.first,
                  last  |-> IF current = NULL THEN elem ELSE @.last]]

(* Slip: an element inserted in the middle drops those after it. *)
LinkDropsTail(h, m, elem, current, previous) ==
  [h EXCEPT
     !.node = [n \in Nodes |-> [h.node[n] EXCEPT
        !.next     = IF n = elem THEN NULL ELSE IF n = previous THEN elem ELSE @,
        !.previous = IF n = elem THEN previous ELSE IF n = current THEN elem ELSE @]],
     !.list[m] = [first |-> IF current = @.first THEN elem ELSE @.first,
                  last  |-> IF current = NULL THEN elem ELSE @.last]]

Link(h, m, elem, current, previous) ==
  [h EXCEPT
     !.node = [n \in Nodes |-> [h.node[n] EXCEPT
        !.next     = IF n = elem THEN current ELSE IF n = previous THEN elem ELSE @,
        !.previous = IF n = elem THEN previous ELSE IF n = current THEN elem ELSE @]],
     !.list[m] = [first |-> IF current = @.first THEN elem ELSE @.first,
                  last  |-> IF current = NULL THEN elem ELSE @.last]]

(* pelib_map_insert_element: refuses a key that is there. *)
InsertElement(h, m, elem) ==
  LET key == h.node[elem].key
      pos == Position(h, m, key)
  IN IF pos.current # NULL /\ CompareInt(key, h.node[pos.current].key) = 0
     THEN [heap |-> h, inserted |-> 0]
     ELSE [heap |-> Link(h, m, elem, pos.current, pos.previous), inserted |-> 1]

(* malloc of a cell and pelib_copy of a pair into it; its pointers keep    *)
(* what the memory held.                                                   *)
NewElement(h, elem, key, value) ==
  [h EXCEPT !.allocated = @ \cup {elem},
            !.node[elem] = [@ EXCEPT !.key = key, !.value = value]]

(* Slip: the cell of a refused key is not freed. *)
InsertResultLeaks(h, m, key, value, elem) ==
  InsertElement(NewElement(h, elem, key, value), m, elem)

(* Slip: the test of the result is inverted. *)
InsertResultFreesKept(h, m, key, value, elem) ==
  LET r == InsertElement(NewElement(h, elem, key, value), m, elem)
  IN IF r.inserted = 0 THEN r ELSE [r EXCEPT !.heap.allocated = @ \ {elem}]

(* pelib_map_insert: the new cell is initialised, and freed if refused. *)
InsertResult(h, m, key, value, elem) ==
  LET new == [NewElement(h, elem, key, value) EXCEPT
                !.node[elem] = [@ EXCEPT !.next = NULL, !.previous = NULL]]
      r   == InsertElement(new, m, elem)
  IN IF r.inserted = 1 THEN r ELSE [heap |-> h, inserted |-> 0]

(* pelib_copy of a map: the pairs from the last to the first, each in a    *)
(* new cell, whether the destination takes it or not.                      *)
CopyResult(h, src, dst, cells) ==
  LET elem == Backward(h, src)
      copied[i \in 0 .. Len(cells)] ==
        IF i = 0 THEN h
        ELSE LET pair == h.node[elem[i]]
                 cpy  == NewElement(copied[i - 1], cells[i], pair.key, pair.value)
             IN InsertElement(cpy, dst, cells[i]).heap
  IN copied[Len(cells)]

(* pelib_free_buffer, then pelib_init by the client. *)
FreeResult(h, m) ==
  [h EXCEPT !.allocated = @ \ ToSet(Forward(h, m)),
            !.node = [n \in Nodes |-> IF n \in ToSet(Forward(h, m)) THEN Junk(n) ELSE @[n]],
            !.list[m] = [first |-> NULL, last |-> NULL]]

(* pelib_map_find *)
Find(h, m, key) ==
  LET chain == Forward(h, m)
      found == {i \in 1 .. Len(chain) : CompareInt(key, h.node[chain[i]].key) = 0}
  IN IF found = {} THEN NULL ELSE chain[Min(found)]

(* pelib_compare of two pairs: the values count when the keys compare to 0. *)
ComparePair(p1, p2) ==
  LET a == CompareInt(p1.key, p2.key)
      b == CompareInt(p1.value, p2.value)
  IN IF a = 0 THEN b ELSE a

(* What comparing gives when it reads through NULL. *)
Crash == NULL

(* Slip: a map whose elements run out first is reported the same way in    *)
(* both orders.                                                            *)
CompareOneWay(h, m1, m2) ==
  LET s1 == Forward(h, m1)
      s2 == Forward(h, m2)
      both == Min({Len(s1), Len(s2)})
      differ == {i \in 1 .. both : ComparePair(h.node[s1[i]], h.node[s2[i]]) # 0}
  IN IF differ # {} THEN ComparePair(h.node[s1[Min(differ)]], h.node[s2[Min(differ)]])
     ELSE IF Len(s1) # Len(s2) THEN 1 ELSE Crash

(* pelib_compare of two maps: the first pairs that differ decide; else the *)
(* map that ends first is the greater.  When both end, their cells are     *)
(* read through NULL.                                                      *)
Compare(h, m1, m2) ==
  LET s1 == Forward(h, m1)
      s2 == Forward(h, m2)
      both == Min({Len(s1), Len(s2)})
      differ == {i \in 1 .. both : ComparePair(h.node[s1[i]], h.node[s2[i]]) # 0}
  IN IF differ # {} THEN ComparePair(h.node[s1[Min(differ)]], h.node[s2[Min(differ)]])
     ELSE IF Len(s1) < Len(s2) THEN 1 ELSE IF Len(s1) > Len(s2) THEN -1 ELSE Crash

(* The same of two sets; elements are compared without a value. *)
CompareSets(h, s1, s2) == Compare(h, s1, s2)

(* pelib_pelib_iterator_next, which pelib_map_next is, too. *)
IteratorNext(h, n) == IF n = NULL THEN NULL ELSE h.node[n].next

Forever == -1

(* pelib_pelib_iterator_distance: every round looks at the cell after      *)
(* start again.                                                            *)
Distance(h, start, stop) ==
  LET Same(n) == ComparePair(h.node[n], h.node[stop]) = 0
      second  == IteratorNext(h, start)
  IN IF Same(start) THEN 0
     ELSE IF second = NULL THEN Crash
     ELSE IF Same(second) THEN 1 ELSE Forever

(* pelib_map_size *)
Size(h, m) == Len(Forward(h, m))

-----------------------------------------------------------------------------
(* malloc returns any cell not in use; bound: there are enough of them. *)
Fresh == Nodes \ heap.allocated
FreshCells(num) ==
  {cells \in [1 .. num -> Fresh] : \A i, j \in 1 .. num : cells[i] = cells[j] => i = j}

Returns(asked, ret) == call' = [asked |-> asked, ret |-> ret]
Inserts(m, key, value) ==
  /\ \E elem \in Fresh :
       LET r == InsertResult(heap, m, key, value, elem)
       IN heap' = r.heap /\ Returns(<<"insert", m, key, value>>, r.inserted)
  /\ UNCHANGED cursor
Copies(src, dst) ==
  /\ \E cells \in FreshCells(Len(Backward(heap, src))) :
       heap' = CopyResult(heap, src, dst, cells)
  /\ Returns(<<"copy", src, dst>>, 0)
  /\ UNCHANGED cursor
(* The client drops its walk when it frees what it walks. *)
Frees(m) ==
  /\ heap' = FreeResult(heap, m)
  /\ cursor' = IF cursor.map = m THEN NoWalk ELSE cursor
  /\ Returns(<<"free", m>>, 1)

Insert(m, key, value) == kind = "map" /\ Inserts(m, key, value)
Copy(src, dst) == kind = "map" /\ Copies(src, dst)
Free(m) == kind = "map" /\ Frees(m)

InsertInSet(s, elem) == kind = "set" /\ Inserts(s, elem, SetValue)
CopySet(src, dst) == kind = "set" /\ Copies(src, dst)
FreeSet(s) == kind = "set" /\ Frees(s)

(* pelib_map_begin, or the first of a set, and pelib_map_read of the cell. *)
Unread(keys, n) == IF n = NULL THEN keys ELSE keys \ {heap.node[n].key}
Begin(m) ==
  /\ LET n == heap.list[m].first
     IN cursor' = [map |-> m, at |-> n, unread |-> Unread(KeysOf(heap, m), n)]
  /\ UNCHANGED <<heap, call>>

(* pelib_map_next, unless the walk is at pelib_map_end. *)
Step ==
  /\ cursor.at # NULL
  /\ LET n == IteratorNext(heap, cursor.at)
     IN cursor' = [cursor EXCEPT !.at = n, !.unread = Unread(@, n)]
  /\ UNCHANGED <<heap, call>>

Next ==
  /\ UNCHANGED kind
  /\ \/ \E m \in Maps :
          \/ \E key \in Keys, value \in Values : Insert(m, key, value)
          \/ \E key \in Keys : InsertInSet(m, key)
          \/ \E src \in Maps \ {m} : Copy(src, m) \/ CopySet(src, m)
          \/ Free(m) \/ FreeSet(m)
          \/ Begin(m)
     \/ Step

Spec == Init /\ [][Next]_vars

-----------------------------------------------------------------------------
Cell == [key: Keys, value: Values, next: Nodes \cup {NULL}, previous: Nodes \cup {NULL}]
Pointer == heap.allocated \cup {NULL}
InLists(h) == UNION {ToSet(Forward(h, m)) : m \in Maps}

(* The lists and the walk never hold the address of a freed cell.          *)
TypeOK ==
  /\ kind \in Kinds
  /\ heap \in [node: [Nodes -> Cell], allocated: SUBSET Nodes,
               list: [Maps -> [first: Pointer, last: Pointer]]]
  /\ cursor \in [map: Maps \cup {NULL}, at: Pointer, unread: SUBSET Keys]

(* Each list reads the same from its last cell back, ends where it should, *)
(* and shares no cell with another list: what copy, which walks backwards, *)
(* and free, which walks forwards, rely on.                                *)
ListsWellLinked ==
  /\ \A m \in Maps :
       /\ Backward(heap, m) = Reverse(Forward(heap, m))
       /\ \A n \in ToSet(Forward(heap, m)) : n \in heap.allocated
  /\ \A m1, m2 \in Maps :
       m1 # m2 => ToSet(Forward(heap, m1)) \cap ToSet(Forward(heap, m2)) = {}

(* A copy loses one cell for each key that the destination had already     *)
(* (map.c:181 ignores the refusal), and no other call loses any.           *)
Lost(h) == h.allocated \ InLists(h)
LosesOnlyRefusedCopies ==
  [][LET asked   == call'.asked
         refused == IF asked[1] # "copy" THEN {}
                    ELSE KeysOf(heap, asked[2]) \cap KeysOf(heap, asked[3])
     IN /\ Lost(heap) \subseteq Lost(heap')
        /\ Cardinality(Lost(heap') \ Lost(heap)) = Cardinality(refused)]_<<heap, call>>

(* A client that walks a map while it inserts into it misses no key that   *)
(* was there when it began: those it did not read yet are ahead of it.     *)
WalkMissesNoKey ==
  \A k \in cursor.unread : cursor.at # NULL /\ heap.node[cursor.at].key < k

(* The cells of m1 hold what the first ones of m2 hold, which has more. *)
BeginningOf(h, m1, m2) ==
  LET s1 == Forward(h, m1)
      s2 == Forward(h, m2)
  IN /\ Len(s1) < Len(s2)
     /\ \A i \in 1 .. Len(s1) : /\ h.node[s1[i]].key = h.node[s2[i]].key
                                /\ h.node[s1[i]].value = h.node[s2[i]].value

(* pelib_compare of maps and sets that differ changes its sign when they   *)
(* are swapped; one that is the beginning of another is the greater        *)
(* (map.c:362), although map.h:85 says that the one with less elements is  *)
(* the lower.  No list holds a key twice, so its size is the number of its *)
(* keys.  The distance of two cells of a list is right when there is one:  *)
(* from a cell to itself or to the next one (iterator.c:187).              *)
ObserversAgree ==
  /\ \A m1, m2 \in Maps :
       LET Of(a, b) == IF kind = "set" THEN CompareSets(heap, a, b) ELSE Compare(heap, a, b)
       IN /\ Of(m1, m2) # Crash => Of(m2, m1) # Crash /\ Of(m1, m2) * Of(m2, m1) < 0
          /\ BeginningOf(heap, m1, m2) => Of(m1, m2) = 1
  /\ \A m \in Maps :
       LET chain == Forward(heap, m)
       IN /\ Size(heap, m) = Cardinality(KeysOf(heap, m))
          /\ \A i, j \in 1 .. Len(chain) :
               Distance(heap, chain[i], chain[j]) \in
                 IF j - i \in {0, 1} THEN {j - i} ELSE {Forever, Crash}

(* The lists implement maps: a key is found by find exactly when it was    *)
(* inserted, with its first value, and a copy or a free changes no other   *)
(* map.                                                                    *)
Entries(h, m) ==
  [k \in {key \in Keys : Find(h, m, key) # NULL} |-> h.node[Find(h, m, k)].value]
MapSpec == INSTANCE OrderedMap WITH entries <- [m \in Maps |-> Entries(heap, m)]
ImplementsMap == MapSpec!Spec
=============================================================================
