------------------------------- MODULE Driver -------------------------------
(***************************************************************************)
(* pelib-convert: main of src/pelib.cpp, once Arguments has read the       *)
(* command line.  Inputs are parsed into named records by functions of     *)
(* shared libraries, processes replace them all, outputs dump them, and    *)
(* records, libraries and stream descriptors are released.  A record can   *)
(* only be used or deleted while the library that made it is loaded.       *)
(***************************************************************************)
EXTENDS Arguments, FiniteSets

CONSTANTS
  Libraries,  \* the file names libraries are loaded by
  Names,      \* the keys of the map of records
  TypeNames   \* what typeid(*rec).name() gives for an input without a name

ASSUME DriverAssumption ==
  /\ IsFiniteSet(Names) /\ TypeNames \subseteq Names
  /\ NULL \notin Names /\ NULL \notin Libraries
  /\ NULL \notin Nat /\ NULL \notin {"parser", "process"} \X Nat

(* NULL is no word; Names and Libraries hold what a command line can name. *)
ASSUME LineAssumption ==
  /\ NULL \notin STRING
  /\ NULL \notin TakesValue \cup DOMAIN Flags \cup DOMAIN Kinds
                   \cup {"--seed", "--args", "-o", "[", "]"}
  /\ \A l \in CommandLines :
       /\ l.words \in Seq(STRING)
       /\ \A i \in 1 .. Len(l.words) - 1 :
            l.words[i] \in TakesValue /\ ~ IsReserved(l.words[i + 1]) =>
              LET named == SetOption(NewStream, l.words[i], l.words[i + 1])
              IN named.library \in Libraries \cup {NULL} /\ named.name \in Names \cup {NULL}

VARIABLES
  at,          \* the descriptors the loop that runs has passed
  destroyed,   \* the descriptors destroyed: <<kind, position>>
  loaded,      \* how many handles of each library are open
  records,     \* every record made: its library and name, whether a parser or
               \* a process made it, and the libraries told to delete it
  inputs,      \* name -> record (its position in records) or NULL
  freelist,    \* name -> the library whose delete function is listed, or NULL
  parserList,  \* name -> the library to close at the end, or NULL
  process,     \* the libraries of the processes
  dumped       \* the last dump
mainVars == <<at, destroyed, loaded, records, inputs, freelist, parserList, process, dumped>>
vars == <<pc, lineVars, parserVars, memory, mainVars>>

(* What Conversion sees of a record; one that is deleted is no value of it. *)
ValueOf(r) ==
  IF r = NULL THEN NULL
  ELSE <<IF records[r].deletedBy = <<>> THEN records[r].made ELSE "deleted", r>>

Empty == [n \in Names |-> NULL]
KeysOf(map) == {n \in Names : map[n] # NULL}

Init ==
  /\ InitArguments
  /\ at = 0 /\ destroyed = {}
  /\ loaded = [l \in Libraries |-> 0]
  /\ records = <<>> /\ process = <<>> /\ dumped = NULL
  /\ inputs = Empty /\ freelist = Empty /\ parserList = Empty

-----------------------------------------------------------------------------
(* The descriptor the loop of main over one kind is at. *)
AtStream(k) == pc = k /\ at < Len(conversion[k])
Current == conversion[pc][at + 1]
Passed == at' = at + 1

(* The program ends where a library or a function cannot be loaded. *)
CannotLoad ==
  /\ pc \in {"inputs", "process", "outputs"} /\ AtStream(pc)
  /\ pc = "outputs" => inputs # Empty
  /\ pc # "process" => Current.library # NULL
  /\ pc' = "exited"
  /\ UNCHANGED <<lineVars, parserVars, mainVars>>

(* Slip: the library is closed again once the parser, or the process, ran. *)
LoadAndClose == UNCHANGED loaded

(* load_lib, with the functions load_function finds in it. *)
Load == loaded' = [loaded EXCEPT ![Current.library] = @ + 1]

(* destroy_lib of the handles in a list. *)
Close(list, handles) ==
  [l \in Libraries |-> handles[l] - Cardinality({k \in DOMAIN list : list[k] = l})]

NewRecord(name, made) ==
  [name |-> name, library |-> Current.library, made |-> made, deletedBy |-> <<>>]

(* Slip: the newest value of a name replaces the one that was there. *)
InsertNewest(map, name, value) == [map EXCEPT ![name] = value]

(* std::map::insert: the first value of a name stays. *)
Insert(map, name, value) == IF map[name] = NULL THEN [map EXCEPT ![name] = value] ELSE map

(* Slip: the functions of the records that were there stay listed. *)
RelistedOverOld(names, library) ==
  [n \in Names |-> IF freelist[n] # NULL THEN freelist[n]
                   ELSE IF n \in names THEN library ELSE NULL]

(* freelist is cleared, and filled for the records of a process. *)
Relisted(names, library) == [n \in Names |-> IF n \in names THEN library ELSE NULL]

(* Slip: a record that is shadowed is deleted with the one that shadows it *)
(* under the function listed for their name.                               *)
DeletedByName(recs, names) ==
  [r \in DOMAIN recs |->
     [recs[r] EXCEPT !.deletedBy = @ \o
        IF recs[r].name \in names THEN <<freelist[recs[r].name]>> ELSE <<>>]]

(* The functions listed in freelist delete the records of these names. *)
Deleted(recs, names) ==
  [r \in DOMAIN recs |->
     [recs[r] EXCEPT !.deletedBy = @ \o SetToSeq({freelist[n] : n \in {m \in names : inputs[m] = r}})]]

-----------------------------------------------------------------------------
(* Where a name is in a list of names. *)
Place(list, name) == SelectInSeq(list, LAMBDA m : m = name)

(* An input without a library is passed over.                              *)
SkipInput ==
  /\ AtStream("inputs") /\ Current.library = NULL
  /\ Passed
  /\ UNCHANGED <<pc, lineVars, parserVars, destroyed, loaded, records, inputs, freelist,
                 parserList, process, dumped>>

(* An input that yields no record leaves its library loaded: no stream to  *)
(* read, or a parser that returns NULL.                                    *)
ReadNothing ==
  /\ AtStream("inputs") /\ Current.library # NULL
  /\ Load /\ Passed
  /\ UNCHANGED <<pc, lineVars, parserVars, destroyed, records, inputs, freelist,
                 parserList, process, dumped>>

(* A record goes under the name given, or that of its type.  The library   *)
(* is listed to be closed only if it read STDIN.                           *)
ReadRecord ==
  /\ AtStream("inputs") /\ Current.library # NULL
  /\ Current.stream \in {"STDIN", "FILE"}
  /\ \E name \in IF Current.name # NULL THEN {Current.name} ELSE TypeNames :
       /\ records' = Append(records, NewRecord(name, "parser"))
       /\ inputs' = Insert(inputs, name, Len(records) + 1)
       /\ freelist' = Insert(freelist, name, Current.library)
       /\ parserList' = IF Current.stream = "STDIN"
                        THEN Insert(parserList, name, Current.library) ELSE parserList
  /\ Load /\ Passed
  /\ UNCHANGED <<pc, lineVars, parserVars, destroyed, process, dumped>>

(* pelib_process returns new records under any names; then the old ones    *)
(* are deleted and the new ones listed under pelib_delete_process, unless  *)
(* that function cannot be loaded.  Without a library, load_lib(NULL)      *)
(* gives the program itself, which has no pelib_process: CannotLoad.       *)
RunProcess ==
  /\ AtStream("process") /\ Current.library # NULL
  /\ Load /\ Passed
  /\ process' = Append(process, Current.library)
  /\ \E names \in SUBSET Names :
       LET new == SetToSeq(names)
       IN /\ records' = Deleted(records, KeysOf(freelist))
                          \o [i \in DOMAIN new |-> NewRecord(new[i], "process")]
          /\ inputs' = [n \in Names |->
                IF n \in names THEN Len(records) + Place(new, n) ELSE NULL]
          /\ \/ freelist' = Relisted(names, Current.library) /\ UNCHANGED pc
             \/ freelist' = Empty /\ pc' = "exited"
  /\ UNCHANGED <<lineVars, parserVars, destroyed, parserList, dumped>>

(* An output without a library is passed over, with its descriptor. *)
SkipOutput ==
  /\ AtStream("outputs") /\ inputs # Empty /\ Current.library = NULL
  /\ Passed
  /\ UNCHANGED <<pc, lineVars, parserVars, destroyed, loaded, records, inputs, freelist,
                 parserList, process, dumped>>

(* Where an output goes: STDIN is warned about, and dumped to STDOUT. *)
Target(s) == IF s = "STDIN" THEN "STDOUT" ELSE s

(* The library is loaded and closed again, and the descriptor destroyed. *)
WriteOutput ==
  /\ AtStream("outputs") /\ inputs # Empty /\ Current.library # NULL
  /\ dumped' = IF Current.stream = "NOTHING" THEN dumped
               ELSE [stream  |-> Target(Current.stream),
                     content |-> [n \in Names |-> ValueOf(inputs[n])]]
  /\ destroyed' = destroyed \cup {<<pc, at + 1>>}
  /\ memory' = memory \ Released(<<pc, at + 1>>, Current)
  /\ Passed
  /\ UNCHANGED <<pc, lineVars, parserVars, loaded, records, inputs, freelist,
                 parserList, process>>

(* A loop over the descriptors ends: the outputs' also if no record is left. *)
EndLoop ==
  /\ pc \in {"inputs", "process", "outputs"}
  /\ at = Len(conversion[pc]) \/ (pc = "outputs" /\ inputs = Empty)
  /\ pc' = CASE pc = "inputs" -> "process" [] pc = "process" -> "outputs" [] OTHER -> "records"
  /\ at' = 0
  /\ UNCHANGED <<lineVars, parserVars, destroyed, loaded, records, inputs, freelist,
                 parserList, process, dumped>>

-----------------------------------------------------------------------------
(* The end of main. *)
DeleteRecords ==
  /\ pc = "records"
  /\ records' = Deleted(records, KeysOf(inputs))
  /\ pc' = "libraries"
  /\ UNCHANGED <<lineVars, parserVars, at, destroyed, loaded, inputs, freelist,
                 parserList, process, dumped>>

(* The parsers of the list, then the processes. *)
CloseLibraries ==
  /\ pc = "libraries"
  /\ loaded' = Close(process, Close(parserList, loaded))
  /\ pc' = "descriptors"
  /\ UNCHANGED <<lineVars, parserVars, at, destroyed, records, inputs, freelist,
                 parserList, process, dumped>>

DestroyInputs ==
  /\ pc = "descriptors"
  /\ destroyed' = destroyed \cup {<<"inputs", i>> : i \in DOMAIN conversion.inputs}
  /\ memory' = memory \ UNION {Released(<<"inputs", i>>, conversion.inputs[i]) :
                                  i \in DOMAIN conversion.inputs}
  /\ pc' = "returned"
  /\ UNCHANGED <<lineVars, parserVars, at, loaded, records, inputs, freelist,
                 parserList, process, dumped>>

Main ==
  \/ /\ \/ CannotLoad \/ SkipInput \/ ReadNothing \/ ReadRecord \/ RunProcess
        \/ SkipOutput \/ EndLoop \/ DeleteRecords \/ CloseLibraries
     /\ UNCHANGED memory
  \/ WriteOutput \/ DestroyInputs

Next == (Parse /\ UNCHANGED mainVars) \/ Main

(* One thread that does not stop; parsers, processes and dumps return. *)
Spec == Init /\ [][Next]_vars /\ WF_vars(Next)
-----------------------------------------------------------------------------
Running == {"inputs", "process", "outputs", "records"}

TypeOK ==
  /\ pc \in {"main", "stream", "list", "crashed", "exited", "returned"}
           \cup Running \cup {"libraries", "descriptors"}
  /\ argv \in 1 .. Len(line) + 1 /\ here \in 1 .. Len(line) + 1
  /\ depth \in 0 .. Len(line)
  /\ loaded \in [Libraries -> Nat]
  /\ {inputs[n] : n \in KeysOf(inputs)} \subseteq DOMAIN records

(* Whatever inputs share names, files or libraries and whatever processes  *)
(* replaced, the records that processes and outputs are given are not      *)
(* deleted, their code is loaded, and the delete function that is listed   *)
(* for each is that of its own library.                                    *)
RecordsUsable ==
  pc \in Running =>
    /\ KeysOf(inputs) = KeysOf(freelist)
    /\ \A n \in KeysOf(inputs) :
         LET record == records[inputs[n]]
         IN record.deletedBy = <<>> /\ record.library = freelist[n] /\ loaded[record.library] > 0

(* A record is deleted once, by the library that made it, while that       *)
(* library is loaded.                                                      *)
DeletedOnceByOwner ==
  [][\A r \in DOMAIN records :
       records'[r].deletedBy # records[r].deletedBy =>
         /\ records[r].deletedBy = <<>>
         /\ records'[r].deletedBy = <<records[r].library>>
         /\ loaded[records[r].library] > 0]_vars

(* Of the descriptors: what a stream is, and what main leaves of it.  Of   *)
(* one destroyed that is the strings in argv (argument_parsing.cpp:92) and *)
(* the copies that a repeated option replaced (lines 115, 138, 162, 185).  *)
Descriptors == UNION {{<<k, i>> : i \in DOMAIN conversion[k]} : k \in DOMAIN conversion}
StreamOf(d) == conversion[d[1]][d[2]]
Leftovers(d, s) ==
  {<<d, "argument", n>> : n \in 1 .. Len(s.argv)}
    \cup UNION {{<<d, f, n>> : n \in 1 .. s.copies[f] - 1} : f \in Copied}

(* Of records, handles, descriptors and their memory, this is all that     *)
(* main leaves behind when it returns: the records of inputs whose name    *)
(* was taken; a handle of the library of each input but those that gave    *)
(* the first record of a name from STDIN; the descriptors of processes,    *)
(* and of outputs that were passed over, with all they allocated; and the  *)
(* leftovers of the others, which destroy does not free although it "Frees *)
(* all memory" by argument_parsing.hpp:45.                                 *)
LeavesOnly ==
  pc = "returned" =>
    /\ \A r \in DOMAIN records :
         records[r].deletedBy = <<>> <=>
           /\ records[r].made = "parser"
           /\ \E s \in 1 .. r - 1 : records[s].name = records[r].name
    /\ \A l \in Libraries :
         loaded[l] + Cardinality({n \in Names : parserList[n] = l})
           = Cardinality({i \in DOMAIN conversion.inputs : conversion.inputs[i].library = l})
    /\ destroyed = {<<"inputs", i>> : i \in DOMAIN conversion.inputs} \cup
                   {<<"outputs", i>> : i \in {j \in DOMAIN conversion.outputs :
                       inputs # Empty /\ conversion.outputs[j].library # NULL}}
    /\ memory = UNION {IF d \in destroyed THEN Leftovers(d, StreamOf(d))
                       ELSE Allocated(d, StreamOf(d)) : d \in Descriptors}

(* main returns, exits or, for a line that lacks a value, crashes.         *)
ConversionEnds == <>(pc \in {"returned", "exited", "crashed"})

(* The records in inputs are the named values of Conversion.               *)
ConversionSpec == INSTANCE Conversion WITH
  Streams <- {"STDOUT", "STDERR", "FILE"},
  content <- [n \in Names |-> IF pc \in Running THEN ValueOf(inputs[n]) ELSE NULL],
  shown <- dumped
ImplementsConversion == ConversionSpec!Spec
=============================================================================
