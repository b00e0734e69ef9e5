----------------------------- MODULE Conversion -----------------------------
(***************************************************************************)
(* What pelib-convert promises to its user: a collection of named values   *)
(* that inputs extend, the first value of a name being the one that stays, *)
(* that each process replaces as a whole, and that outputs show.           *)
(***************************************************************************)
EXTENDS Integers

CONSTANTS Names, Streams, NULL

VARIABLES
  content,  \* the value of each name, <<who made it, its number>>, or NULL
  shown     \* the last output: where it went and the content it showed
vars == <<content, shown>>

Nothing == [n \in Names |-> NULL]

Init == content = Nothing /\ shown = NULL

Parse(n) ==
  /\ content[n] = NULL
  /\ content'[n] \in {"parser"} \X Nat /\ \A m \in Names : content'[n] # content[m]
  /\ content' = [content EXCEPT ![n] = content'[n]]
  /\ UNCHANGED shown

(* Whatever a process makes of the values, it makes new ones. *)
Process ==
  /\ content' \in [Names -> ({"process"} \X Nat) \cup {NULL}]
  /\ \A n, m \in Names : content'[n] # NULL => content'[n] # content[m]
  /\ UNCHANGED shown

Dump(stream) ==
  /\ content # Nothing
  /\ shown' = [stream |-> stream, content |-> content]
  /\ UNCHANGED content

Finish == content' = Nothing /\ UNCHANGED shown

Next ==
  \/ \E n \in Names : Parse(n)
  \/ Process
  \/ \E stream \in Streams : Dump(stream)
  \/ Finish

Spec == Init /\ [][Next]_vars
=============================================================================
