------------------------------ MODULE Archive ------------------------------
(***************************************************************************)
(* What the stores and loads of include/pelib/array.c are good for:        *)
(* bounded sequences that a program stores in a file and loads back, in    *)
(* whole or a number of elements from an offset on, also in a later        *)
(* program, and how far that goes for each format.                         *)
(***************************************************************************)
EXTENDS Integers, Sequences, SequencesExt

CONSTANTS
  Arrays, Values, MaxLength,
  None,     \* no array, or no file
  MaxOpen,  \* the files a program may have open
  Legible   \* the lengths a text file can be loaded with

VARIABLES
  format,   \* "text" or "binary"
  exact,    \* whether the elements are as wide as the length before them
  content,  \* the elements of each array
  disk,     \* the length and the elements the file holds
  writing,  \* the array a call is storing in a binary file, or None
  unsaved,  \* the contents of text stores that are not in the file yet
  open      \* the files the program left open
vars == <<format, exact, content, disk, writing, unsaved, open>>
fileVars == <<disk, writing, unsaved, open>>

(* A file that does not hold even a length, and one that holds all of s. *)
Blank == [length |-> None, elements |-> <<>>]
Whole(s) == [length |-> Len(s), elements |-> s]

Init ==
  /\ content = [a \in Arrays |-> None] /\ disk = None /\ writing = None
  /\ unsaved = {} /\ open = 0

(* The elements from one on, num of them, or all when num is 0. *)
Slice(s, from, num) ==
  SubSeq(s, from + 1, IF num = 0 \/ from + num > Len(s) THEN Len(s) ELSE from + num)

Becomes(a, s) == content' = [content EXCEPT ![a] = s]

New(a) == content'[a] = <<>> /\ Becomes(a, <<>>) /\ UNCHANGED fileVars

Push(a, v) ==
  /\ content[a] # None
  /\ Becomes(a, Append(content[a], v)) \/ UNCHANGED content
  /\ UNCHANGED fileVars

Put(a, i, v) ==
  /\ content[a] # None
  /\ content' = IF i \in DOMAIN content[a] THEN [content EXCEPT ![a][i] = v] ELSE content
  /\ UNCHANGED fileVars

Copy(src, dst) ==
  /\ content[src] # None
  /\ Becomes(dst, content[src]) /\ UNCHANGED fileVars

Drop(a) == Becomes(a, None) /\ UNCHANGED fileVars

(* What the file held is gone.  A text file stays empty until the program  *)
(* ends, and open.                                                         *)
Store(a) ==
  /\ content[a] # None /\ open < MaxOpen /\ disk' = Blank /\ UNCHANGED content
  /\ IF format = "binary"
     THEN writing' = a /\ UNCHANGED <<unsaved, open>>
     ELSE /\ unsaved' = unsaved \cup {content[a]} /\ open' = open + 1
          /\ UNCHANGED writing

(* A binary file gets the length, then the elements, and is complete when  *)
(* the call returns.                                                       *)
Progress ==
  /\ \E n \in Len(disk.elements) .. Len(content[writing]) :
       disk' = [length |-> Len(content[writing]), elements |-> SubSeq(content[writing], 1, n)]
  /\ UNCHANGED <<content, writing, unsaved, open>>
Complete ==
  /\ disk' = Whole(content[writing]) /\ writing' = None
  /\ UNCHANGED <<content, unsaved, open>>

(* Numbers below zero do not survive a text file. *)
Renders(s, loaded) ==
  IF format = "text"
  THEN Len(loaded) = Len(s) /\ \A i \in 1 .. Len(s) : s[i] >= 0 => loaded[i] = s[i]
  ELSE exact => loaded = s

Loadable(from) ==
  /\ disk \notin {None, Blank}
  /\ IF format = "text" THEN Len(disk.elements) \in Legible ELSE from < disk.length

Load(a, from, num) ==
  /\ open < MaxOpen /\ Loadable(from)
  /\ content'[a] # None /\ Renders(Slice(disk.elements, from, num), content'[a])
  /\ Becomes(a, content'[a]) /\ UNCHANGED fileVars

(* The length alone, of a binary file. *)
LoadLength(a) ==
  /\ open < MaxOpen /\ format = "binary" /\ disk \notin {None, Blank}
  /\ content'[a] # None /\ content'[a] = [i \in 1 .. disk.length |-> 0]
  /\ Becomes(a, content'[a]) /\ UNCHANGED fileVars

(* The client gives an array of which it has the length alone a buffer. *)
Attach(a) ==
  /\ content[a] # None /\ \A i \in 1 .. Len(content[a]) : content[a][i] = 0
  /\ content'[a] # None /\ Len(content'[a]) = Len(content[a])
  /\ Becomes(a, content'[a]) /\ UNCHANGED fileVars

(* A load that is refused leaves the file open. *)
Refused(a, from) ==
  /\ \/ (disk = None \/ open = MaxOpen) /\ UNCHANGED open
     \/ disk # None /\ open < MaxOpen /\ ~Loadable(from) /\ open' = open + 1
  /\ Becomes(a, None) /\ UNCHANGED <<disk, writing, unsaved>>

(* The program ends: at its own pace, and one of the text stores decides   *)
(* what the file holds; or at once, maybe while it stores: text stores are *)
(* lost, and a binary file stays as it is.                                 *)
Quit(last) ==
  /\ content' = [a \in Arrays |-> None] /\ writing' = None /\ unsaved' = {} /\ open' = 0
  /\ disk' = last

Exit == \E last \in IF unsaved = {} THEN {disk} ELSE {Whole(s) : s \in unsaved} : Quit(last)
Killed == Quit(disk)

Call ==
  \E a \in Arrays :
    \/ New(a) \/ Drop(a) \/ Store(a) \/ LoadLength(a) \/ Attach(a)
    \/ \E from, num \in 0 .. MaxLength : Load(a, from, num)
    \/ \E from \in 0 .. MaxLength : Refused(a, from)
    \/ \E v \in Values : Push(a, v)
    \/ \E v \in Values, i \in 1 .. MaxLength : Put(a, i, v)
    \/ \E dst \in Arrays : Copy(a, dst)

Next ==
  /\ UNCHANGED <<format, exact>>
  /\ \/ writing = None /\ (Call \/ Exit)
     \/ writing # None /\ (Progress \/ Complete)
     \/ Killed

Spec == Init /\ [][Next]_vars
=============================================================================
