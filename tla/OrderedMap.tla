----------------------------- MODULE OrderedMap -----------------------------
(***************************************************************************)
(* What the maps of include/pelib/map.h promise: each map is a function    *)
(* from some keys to values; a key once inserted keeps its first value;    *)
(* a copy adds the keys the destination lacks.                             *)
(***************************************************************************)
EXTENDS Integers

CONSTANTS Maps, Keys, Values

VARIABLES
  entries,  \* for each map, a function from its keys to their values
  call      \* the last call that changes a map and what it returned
vars == <<entries, call>>

Empty == [k \in {} |-> 0]
Init == entries = [m \in Maps |-> Empty] /\ call = [asked |-> <<"init">>, ret |-> 0]

(* asked first: TLC finds at once that another call was made. *)
Returns(asked, ret) == call'.asked = asked /\ call' = [asked |-> asked, ret |-> ret]

Insert(m, key, value) ==
  LET keys == DOMAIN entries[m]
  IN \/ /\ Returns(<<"insert", m, key, value>>, 1)
        /\ key \notin keys
        /\ entries' = [entries EXCEPT ![m] =
             [k \in keys \cup {key} |-> IF k = key THEN value ELSE entries[m][k]]]
     \/ /\ Returns(<<"insert", m, key, value>>, 0)
        /\ key \in keys
        /\ UNCHANGED entries

Copy(src, dst) ==
  /\ Returns(<<"copy", src, dst>>, 0)
  /\ entries' = [entries EXCEPT ![dst] =
       [k \in DOMAIN entries[src] \cup DOMAIN entries[dst] |->
          IF k \in DOMAIN entries[dst] THEN entries[dst][k] ELSE entries[src][k]]]

Free(m) == Returns(<<"free", m>>, 1) /\ entries' = [entries EXCEPT ![m] = Empty]

Next ==
  \E m \in Maps :
    \/ \E key \in Keys, value \in Values : Insert(m, key, value)
    \/ \E src \in Maps \ {m} : Copy(src, m)
    \/ Free(m)

Spec == Init /\ [][Next]_vars
=============================================================================
