------------------------------ MODULE Arguments ------------------------------
(***************************************************************************)
(* The command line of pelib-convert, read word by word: parse_args of     *)
(* src/pelib.cpp finds the streams, pelib_argument_stream_parse of         *)
(* src/argument_parsing.cpp reads the options of one stream and returns    *)
(* how many words it took, which parse_args adds to its own pointer.       *)
(* A step reads one option, or one word of a bracketed list.               *)
(***************************************************************************)
EXTENDS Integers, Sequences, SequencesExt

CONSTANTS
  CommandLines,  \* [words, meant]: a command line, and the streams it means
  NULL           \* the word at the end of argv, and the unset field

VARIABLES
  pc,          \* "main", "stream" or "list" here; the loops of main after that
  line,        \* the words after the program's name
  meant,       \* the streams the line means, for the properties
  argv,        \* the word parse_args is at
  here,        \* the word pelib_argument_stream_parse is at
  parsed,      \* the words it counted
  depth,       \* args_counter: brackets open in a list of arguments
  kind,        \* of the stream it fills
  stream,      \* the stream it fills
  conversion,  \* the streams filled
  memory       \* the blocks allocated for the streams, until they are freed
parserVars == <<argv, here, parsed, depth, kind, stream, conversion>>
lineVars == <<line, meant>>

Kinds == [w \in {"--input", "--process", "--output"} |->
            CASE w = "--input" -> "inputs" [] w = "--process" -> "process"
              [] OTHER -> "outputs"]
Flags == [w \in {"--stdin", "--stdout", "--stderr"} |->
            CASE w = "--stdin" -> "STDIN" [] w = "--stdout" -> "STDOUT" [] OTHER -> "STDERR"]
TakesValue == {"--library", "-l", "--lib", "-m", "--name", "-n", "--file", "-f"}

(* pelib_argument_stream_init.  copies says to which copy of a word the    *)
(* pointers to library, name and filename point: 0 is NULL, and an option  *)
(* that is repeated makes another copy and loses the pointer to the first. *)
Copied == {"library", "name", "filename"}
NewStream == [library |-> NULL, argv |-> <<>>, filename |-> NULL, name |-> NULL,
              stream |-> "NOTHING", copies |-> [f \in Copied |-> 0]]
NoStreams == [inputs |-> <<>>, process |-> <<>>, outputs |-> <<>>]

InitArguments ==
  /\ pc = "main"
  /\ \E l \in CommandLines : line = l.words /\ meant = l.meant
  /\ argv = 1 /\ here = 1 /\ parsed = 0 /\ depth = 0
  /\ kind = NULL /\ stream = NewStream /\ conversion = NoStreams /\ memory = {}

(* The blocks a stream had allocated, d being where it is in conversion:   *)
(* the array argv, the strings in it, and the copies.                      *)
Allocated(d, s) ==
  {<<d, "argv", 1>>} \cup {<<d, "argument", n>> : n \in 1 .. Len(s.argv)}
    \cup UNION {{<<d, f, n>> : n \in 1 .. s.copies[f]} : f \in Copied}
Descriptor(k) == <<k, Len(conversion[k]) + 1>>

(* Slip: the array is not freed. *)
ReleasedButArray(d, s) == {<<d, f, s.copies[f]>> : f \in {g \in Copied : s.copies[g] > 0}}

(* pelib_argument_stream_destroy: the array, and what the pointers to      *)
(* library, name and filename point to.                                    *)
Released(d, s) ==
  {<<d, "argv", 1>>} \cup {<<d, f, s.copies[f]>> : f \in {g \in Copied : s.copies[g] > 0}}

-----------------------------------------------------------------------------
Word(i) == IF i <= Len(line) THEN line[i] ELSE NULL

(* Slip: the end of the command line is taken for a value. *)
IsReservedDash(word) == word = "-"

(* A word that cannot be the value of an option: the end, or a dash alone. *)
IsReserved(word) == word \in {NULL, "-"}

Crash == pc' = "crashed" /\ UNCHANGED <<parserVars, lineVars, memory>>

(* parse_args: --input, --process, --output. *)
BeginStream ==
  /\ pc = "main" /\ Word(argv) \in DOMAIN Kinds
  /\ kind' = Kinds[Word(argv)]
  /\ stream' = NewStream
  /\ memory' = memory \cup Allocated(Descriptor(kind'), stream')
  /\ argv' = argv + 1 /\ here' = argv + 1 /\ parsed' = 0
  /\ pc' = "stream"
  /\ UNCHANGED <<depth, conversion, lineVars>>

(* --seed reads the word after it, whatever it is, through NULL if there   *)
(* is none.                                                                *)
Seed ==
  /\ pc = "main" /\ Word(argv) = "--seed"
  /\ IF Word(argv + 1) = NULL THEN Crash
     ELSE /\ argv' = argv + 2
          /\ UNCHANGED <<pc, here, parsed, depth, kind, stream, conversion, lineVars, memory>>

(* --sources runs a command and exits. *)
Sources ==
  /\ pc = "main" /\ Word(argv) = "--sources"
  /\ pc' = "exited"
  /\ UNCHANGED <<parserVars, lineVars, memory>>

Ignore ==
  /\ pc = "main"
  /\ Word(argv) \notin DOMAIN Kinds \cup {"--seed", "--sources", NULL}
  /\ argv' = argv + 1
  /\ UNCHANGED <<pc, here, parsed, depth, kind, stream, conversion, lineVars, memory>>

(* The end of parse_args: main starts with the inputs. *)
EndArguments ==
  /\ pc = "main" /\ Word(argv) = NULL
  /\ pc' = "inputs"
  /\ UNCHANGED <<parserVars, lineVars, memory>>

-----------------------------------------------------------------------------
(* argv = argv + num - 1 and argv++ of the loop. *)
Resume(from, num) == from + num

Return(num) ==
  /\ conversion' = [conversion EXCEPT ![kind] = Append(@, stream)]
  /\ argv' = Resume(argv, num)
  /\ parsed' = num
  /\ pc' = "main"
  /\ UNCHANGED <<here, depth, kind, stream, lineVars, memory>>

(* num words read; the parser goes on with the stream given, for which it  *)
(* allocated what the words were copied to.                                *)
Read(num, filled) ==
  /\ here' = here + num
  /\ parsed' = parsed + num
  /\ stream' = filled
  /\ memory' = memory \cup Allocated(Descriptor(kind), filled)
  /\ UNCHANGED <<argv, kind, conversion, lineVars>>

(* A library's file name is a sequence of parts. *)
SetOption(s, option, value) ==
  CASE option \in {"--library", "-l"} ->
         [s EXCEPT !.library = <<value>>, !.copies.library = @ + 1]
    [] option \in {"--lib", "-m"} ->
         [s EXCEPT !.library = <<"libpelib-", value, ".so">>, !.copies.library = @ + 1]
    [] option \in {"--name", "-n"} -> [s EXCEPT !.name = value, !.copies.name = @ + 1]
    [] option \in {"--file", "-f"} ->
         [s EXCEPT !.filename = value, !.stream = "FILE", !.copies.filename = @ + 1]

AddArgument(s, word) == [s EXCEPT !.argv = Append(@, word)]

Option ==
  /\ pc = "stream" /\ Word(here) \in TakesValue
  /\ IF IsReserved(Word(here + 1)) THEN Return(parsed + 1)
     ELSE /\ Read(2, SetOption(stream, Word(here), Word(here + 1)))
          /\ UNCHANGED <<pc, depth>>

(* Slip: the word of a flag is not passed. *)
FlagNotPassed ==
  /\ pc = "stream" /\ Word(here) \in DOMAIN Flags
  /\ Read(0, [stream EXCEPT !.stream = Flags[Word(here)]])
  /\ UNCHANGED <<pc, depth>>

Flag ==
  /\ pc = "stream" /\ Word(here) \in DOMAIN Flags
  /\ Read(1, [stream EXCEPT !.stream = Flags[Word(here)]])
  /\ UNCHANGED <<pc, depth>>

(* --args takes a list in brackets, or one word; -o takes one word, and    *)
(* reads it through NULL if there is none.                                 *)
Args ==
  /\ pc = "stream" /\ Word(here) = "--args"
  /\ \/ /\ Word(here + 1) = "["
        /\ Read(2, stream)
        /\ depth' = 1 /\ pc' = "list"
     \/ /\ Word(here + 1) \notin {"[", NULL}
        /\ Read(2, AddArgument(stream, Word(here + 1)))
        /\ UNCHANGED <<pc, depth>>
     \/ /\ Word(here + 1) = NULL
        /\ Read(1, stream)
        /\ UNCHANGED <<pc, depth>>

OneArgument ==
  /\ pc = "stream" /\ Word(here) = "-o"
  /\ IF Word(here + 1) = NULL THEN Crash
     ELSE Read(2, AddArgument(stream, Word(here + 1))) /\ UNCHANGED <<pc, depth>>

EndStream ==
  /\ pc = "stream"
  /\ Word(here) \notin TakesValue \cup DOMAIN Flags \cup {"--args", "-o"}
  /\ Return(parsed)

(* Slip: the brackets of a list within the list are not counted. *)
NestingFlat(count, word) == IF word = "]" THEN count - 1 ELSE count

Nesting(count, word) ==
  IF word = "[" THEN count + 1 ELSE IF word = "]" THEN count - 1 ELSE count

(* One word of a list. *)
ListWord ==
  /\ pc = "list" /\ Word(here) # NULL
  /\ Nesting(depth, Word(here)) > 0
  /\ depth' = Nesting(depth, Word(here))
  /\ Read(1, AddArgument(stream, Word(here)))
  /\ UNCHANGED pc

(* The bracket that closes the list, with the next word if it is a closing *)
(* bracket too; or the end of the command line.                            *)
EndList ==
  /\ pc = "list"
  /\ \/ Word(here) = NULL /\ Read(0, stream) /\ UNCHANGED depth
     \/ /\ Word(here) # NULL /\ Nesting(depth, Word(here)) = 0
        /\ Read(IF Word(here + 1) = "]" THEN 2 ELSE 1, stream)
        /\ depth' = 0
  /\ pc' = "stream"

Parse ==
  \/ BeginStream \/ Seed \/ Sources \/ Ignore \/ EndArguments
  \/ Option \/ Flag \/ Args \/ OneArgument \/ EndStream
  \/ ListWord \/ EndList

-----------------------------------------------------------------------------
(* A command line means the streams a user would read in it: options,      *)
(* repeated ones too, words that look like options in a list, and what a   *)
(* stream does not understand, which ends it.  The words that parse_args   *)
(* skips are exactly those that no stream took.                            *)
ReadsAsMeant == pc = "inputs" => conversion = meant
=============================================================================
