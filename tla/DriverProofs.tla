---------------------------- MODULE DriverProofs ----------------------------
(***************************************************************************)
(* Proofs about pelib-convert, for every command line, library and name:   *)
(* the parser stays within the line; records, libraries and descriptors    *)
(* are counted from the inputs that read them to the end of main.          *)
(***************************************************************************)
EXTENDS Driver, FiniteSetTheorems, SequenceTheorems, TLAPS


(* The words of the line, and where the two parsers are in it.  depth      *)
(* counts brackets that were read.                                         *)
StreamType == [library : Libraries \cup {NULL}, argv : Seq(STRING),
               filename : STRING \cup {NULL}, name : Names \cup {NULL},
               stream : {"NOTHING", "STDIN", "STDOUT", "STDERR", "FILE"},
               copies : [Copied -> Nat]]

Reading ==
  /\ \E l \in CommandLines : line = l.words
  /\ argv \in 1 .. Len(line) + 1 /\ here \in 1 .. Len(line) + 1
  /\ parsed \in Nat /\ depth \in Nat /\ depth <= here - 1
  /\ pc = "main" => here <= argv
  /\ pc \in {"stream", "list"} =>
       here = argv + parsed /\ kind \in {"inputs", "process", "outputs"}
  /\ stream \in StreamType
  /\ conversion \in [inputs : Seq(StreamType), process : Seq(StreamType),
                     outputs : Seq(StreamType)]

Parsing == {"main", "stream", "list", "crashed"}
Untouched ==
  /\ at = 0 /\ destroyed = {} /\ records = <<>> /\ process = <<>> /\ dumped = NULL
  /\ inputs = Empty /\ freelist = Empty /\ parserList = Empty
  /\ loaded = [l \in Libraries |-> 0]

(* The descriptors of inputs that main has read. *)
Inputs == IF pc = "inputs" THEN at ELSE Len(conversion.inputs)
InputsOf(l) == {i \in 1 .. Inputs : conversion.inputs[i].library = l}
ListedOf(l) == {n \in Names : parserList[n] = l}
ProcessesOf(l) == {k \in DOMAIN process : process[k] = l}

RecordType == [name : Names, library : Libraries, made : {"parser", "process"},
               deletedBy : Seq(Libraries)]
MainTypes ==
  /\ at \in Nat
  /\ pc \in {"inputs", "process", "outputs"} => at <= Len(conversion[pc])
  /\ loaded \in [Libraries -> Nat]
  /\ records \in Seq(RecordType)
  /\ process \in Seq(Libraries)
  /\ inputs \in [Names -> (1 .. Len(records)) \cup {NULL}]
  /\ freelist \in [Names -> Libraries \cup {NULL}]
  /\ parserList \in [Names -> Libraries \cup {NULL}]

(* The handles of a library: one for each input of the library that was    *)
(* read, and for each process.  Those to close at the end are of inputs.   *)
Handles ==
  pc \in Running \cup {"libraries"} =>
    \A l \in Libraries :
      /\ loaded[l] = Cardinality(InputsOf(l)) + Cardinality(ProcessesOf(l))
      /\ Cardinality(ListedOf(l)) <= Cardinality(InputsOf(l))

(* The records in inputs. *)
Live(r) == inputs[records[r].name] = r
Shadowed(r) ==
  records[r].made = "parser" /\ \E s \in 1 .. r - 1 : records[s].name = records[r].name
Held ==
  pc \in Running =>
    \A n \in Names :
      /\ inputs[n] = NULL <=> freelist[n] = NULL
      /\ inputs[n] # NULL =>
           LET record == records[inputs[n]]
           IN record.name = n /\ record.library = freelist[n] /\ loaded[record.library] > 0

Disposed ==
  /\ pc \in Running =>
       \A r \in DOMAIN records :
         /\ records[r].deletedBy = <<>> <=> Live(r) \/ Shadowed(r)
         /\ ~ (Live(r) /\ Shadowed(r))
  /\ pc \in {"libraries", "descriptors", "returned"} =>
       \A r \in DOMAIN records : records[r].deletedBy = <<>> <=> Shadowed(r)
  /\ pc = "inputs" => \A r \in DOMAIN records : inputs[records[r].name] # NULL

(* The descriptors of outputs destroyed, and of inputs. *)
Outputs == {j \in DOMAIN conversion.outputs : inputs # Empty /\ conversion.outputs[j].library # NULL}
Destroyed ==
  /\ pc \in {"inputs", "process"} => destroyed = {}
  /\ pc = "outputs" =>
       /\ destroyed = {<<"outputs", j>> : j \in {i \in Outputs : i <= at}}
       /\ inputs = Empty => at = 0
  /\ pc \in {"records", "libraries", "descriptors"} =>
       destroyed = {<<"outputs", j>> : j \in Outputs}
  /\ pc = "returned" =>
       destroyed = {<<"inputs", i>> : i \in DOMAIN conversion.inputs}
                     \cup {<<"outputs", j>> : j \in Outputs}
Closed ==
  pc \in {"descriptors", "returned"} =>
    \A l \in Libraries : loaded[l] + Cardinality(ListedOf(l)) = Cardinality(InputsOf(l))

(* The inductive invariant. *)
Inv ==
  /\ pc \in Parsing \cup Running \cup {"exited", "libraries", "descriptors", "returned"}
  /\ Reading /\ (pc \in Parsing => Untouched) /\ MainTypes
  /\ Handles /\ Held /\ Disposed /\ Destroyed /\ Closed

-----------------------------------------------------------------------------
(* The words of the line. *)
LEMMA Words ==
  ASSUME Reading
  PROVE  /\ line \in Seq(STRING) /\ Len(line) \in Nat /\ NULL \notin STRING
         /\ NULL \notin TakesValue \cup DOMAIN Flags \cup DOMAIN Kinds
                          \cup {"--seed", "--args", "-o", "[", "]"}
         /\ \A i \in 1 .. Len(line) : Word(i) = line[i] /\ Word(i) \in STRING
         /\ \A i \in Int : i > Len(line) => Word(i) = NULL
         /\ \A i \in Int : i >= 1 /\ Word(i) # NULL => i <= Len(line)
         /\ \A i \in 1 .. Len(line) - 1 :
              line[i] \in TakesValue /\ ~ IsReserved(line[i + 1]) =>
                /\ SetOption(NewStream, line[i], line[i + 1]).library \in Libraries \cup {NULL}
                /\ SetOption(NewStream, line[i], line[i + 1]).name \in Names \cup {NULL}
<1>1. PICK l \in CommandLines : line = l.words
  BY DEF Reading
<1>2. line \in Seq(STRING) /\ NULL \notin STRING
  BY <1>1, LineAssumption
<1>8. NULL \notin TakesValue \cup DOMAIN Flags \cup DOMAIN Kinds \cup {"--seed", "--args", "-o", "[", "]"}
  BY LineAssumption
<1>3. Len(line) \in Nat
  BY <1>2
<1>4. \A i \in 1 .. Len(line) : Word(i) = line[i] /\ Word(i) \in STRING
  BY <1>2, <1>3 DEF Word
<1>5. \A i \in Int : i > Len(line) => Word(i) = NULL
  BY <1>3 DEF Word
<1>6. \A i \in Int : i >= 1 /\ Word(i) # NULL => i <= Len(line)
  BY <1>3, <1>5
<1>7. \A i \in 1 .. Len(line) - 1 :
        line[i] \in TakesValue /\ ~ IsReserved(line[i + 1]) =>
          /\ SetOption(NewStream, line[i], line[i + 1]).library \in Libraries \cup {NULL}
          /\ SetOption(NewStream, line[i], line[i + 1]).name \in Names \cup {NULL}
  BY <1>1, LineAssumption, Zenon
<1> QED BY <1>2, <1>3, <1>4, <1>5, <1>6, <1>7, <1>8

(* An option fills the stream with what the line may name.                 *)
LEMMA OptionTypes ==
  ASSUME NEW s \in StreamType, NEW option \in TakesValue, NEW value \in STRING,
         SetOption(NewStream, option, value).library \in Libraries \cup {NULL},
         SetOption(NewStream, option, value).name \in Names \cup {NULL}
  PROVE  SetOption(s, option, value) \in StreamType
<1>1. ASSUME NEW f \in Copied PROVE [s.copies EXCEPT ![f] = @ + 1] \in [Copied -> Nat]
  BY DEF StreamType
<1>2. "library" \in Copied /\ "name" \in Copied /\ "filename" \in Copied
  BY DEF Copied
<1>3. ASSUME NEW v, \/ option \in {"--library", "-l"} /\ v = <<value>>
                    \/ option \in {"--lib", "-m"} /\ v = <<"libpelib-", value, ".so">>
      PROVE  SetOption(s, option, value) \in StreamType
  <2>1. SetOption(s, option, value)
          = [s EXCEPT !.library = v, !.copies = [s.copies EXCEPT !["library"] = @ + 1]]
    BY <1>3 DEF SetOption, StreamType
  <2>2. SetOption(NewStream, option, value) = [NewStream EXCEPT !.library = v, !.copies.library = @ + 1]
    BY <1>3 DEF SetOption
  <2>3. v \in Libraries \cup {NULL}
    BY <2>2 DEF NewStream
  <2> DEFINE c == [s.copies EXCEPT !["library"] = @ + 1]
  <2>4. c \in [Copied -> Nat]
    BY <1>1, <1>2
  <2> HIDE DEF c, Copied
  <2>5. [s EXCEPT !.library = v, !.copies = c] \in StreamType
    BY <2>3, <2>4 DEF StreamType
  <2> QED BY <2>1, <2>5 DEF c
<1>4. CASE option \in {"--name", "-n"}
  <2>1. SetOption(s, option, value)
          = [s EXCEPT !.name = value, !.copies = [s.copies EXCEPT !["name"] = @ + 1]]
    BY <1>4 DEF SetOption, StreamType
  <2>2. SetOption(NewStream, option, value) = [NewStream EXCEPT !.name = value, !.copies.name = @ + 1]
    BY <1>4 DEF SetOption
  <2>3. value \in Names \cup {NULL}
    BY <2>2 DEF NewStream
  <2> DEFINE c == [s.copies EXCEPT !["name"] = @ + 1]
  <2>4. c \in [Copied -> Nat]
    BY <1>1, <1>2
  <2> HIDE DEF c, Copied
  <2>5. [s EXCEPT !.name = value, !.copies = c] \in StreamType
    BY <2>3, <2>4 DEF StreamType
  <2> QED BY <2>1, <2>5 DEF c
<1>5. CASE option \in {"--file", "-f"}
  <2>1. SetOption(s, option, value)
          = [s EXCEPT !.filename = value, !.stream = "FILE",
                      !.copies = [s.copies EXCEPT !["filename"] = @ + 1]]
    BY <1>5 DEF SetOption, StreamType
  <2> DEFINE c == [s.copies EXCEPT !["filename"] = @ + 1]
  <2>4. c \in [Copied -> Nat]
    BY <1>1, <1>2
  <2> HIDE DEF c, Copied
  <2>5. [s EXCEPT !.filename = value, !.stream = "FILE", !.copies = c] \in StreamType
    BY <2>4 DEF StreamType
  <2> QED BY <2>1, <2>5 DEF c
<1>6. CASE option \in {"--library", "-l"}
  BY <1>3, <1>6
<1>7. CASE option \in {"--lib", "-m"}
  BY <1>3, <1>7
<1> QED BY <1>4, <1>5, <1>6, <1>7 DEF TakesValue

LEMMA NewStreamType == NewStream \in StreamType
  BY DEF NewStream, StreamType, Copied

-----------------------------------------------------------------------------
(* The parser. *)

(* A step of parse_args, or the parse of a stream that goes on.            *)
LEMMA ReadKeeps ==
  ASSUME Reading, UNCHANGED <<line, argv, kind, conversion>>, NEW num \in 0 .. 2,
         pc \in {"stream", "list"}, pc' \in {"stream", "list"},
         here' = here + num, parsed' = parsed + num, here' <= Len(line) + 1,
         depth' \in Nat, depth' <= here' - 1, stream' \in StreamType
  PROVE  Reading'
<1>1. here' \in 1 .. Len(line) + 1 /\ parsed' \in Nat
  BY Words DEF Reading
<1>2. here' = argv + parsed'
  BY Words DEF Reading
<1> QED BY <1>1, <1>2 DEF Reading

LEMMA ReturnKeeps ==
  ASSUME Reading, pc = "stream", NEW num \in {parsed, parsed + 1}, Return(num),
         argv + num <= Len(line) + 1
  PROVE  Reading' /\ pc' = "main"
<1>0. /\ conversion' = [conversion EXCEPT ![kind] = Append(@, stream)]
      /\ argv' = argv + num /\ parsed' = num /\ pc' = "main"
      /\ UNCHANGED <<here, depth, kind, stream, line>>
  BY DEF Return, Resume, lineVars
<1>1. /\ argv \in Nat /\ argv >= 1 /\ parsed \in Nat /\ here = argv + parsed
      /\ Len(line) \in Nat /\ here \in Nat /\ num \in Nat /\ num >= parsed
  BY Words DEF Reading
<1>2. argv' \in 1 .. Len(line) + 1 /\ here' <= argv' /\ parsed' \in Nat
  BY <1>0, <1>1
<1>3. conversion' \in [inputs : Seq(StreamType), process : Seq(StreamType), outputs : Seq(StreamType)]
  <2>1. /\ conversion \in [inputs : Seq(StreamType), process : Seq(StreamType), outputs : Seq(StreamType)]
        /\ stream \in StreamType /\ kind \in {"inputs", "process", "outputs"}
    BY DEF Reading
  <2>2. \A s \in Seq(StreamType) : Append(s, stream) \in Seq(StreamType)
    BY <2>1
  <2> HIDE DEF StreamType
  <2>3. CASE kind = "inputs"
    BY <1>0, <2>1, <2>2, <2>3
  <2>4. CASE kind = "process"
    BY <1>0, <2>1, <2>2, <2>4
  <2>5. CASE kind = "outputs"
    BY <1>0, <2>1, <2>2, <2>5
  <2> QED BY <2>1, <2>3, <2>4, <2>5
<1> QED BY <1>0, <1>1, <1>2, <1>3 DEF Reading

LEMMA OptionKeeps ==
  ASSUME Reading, Option
  PROVE  Reading' /\ pc' \in {"main", "stream"}
<1>0. pc = "stream" /\ Word(here) \in TakesValue
  BY DEF Option
<1>1. /\ here \in 1 .. Len(line) /\ Len(line) \in Nat /\ here = argv + parsed
      /\ argv \in Nat /\ parsed \in Nat /\ stream \in StreamType
      /\ Word(here) = line[here] /\ depth \in Nat /\ depth <= here - 1
  <2>1. NULL \notin TakesValue
    BY Words
  <2> QED BY <1>0, <2>1, Words DEF Reading
<1>2. CASE IsReserved(Word(here + 1))
  <2>1. Return(parsed + 1)
    BY <1>2 DEF Option
  <2>2. argv + (parsed + 1) <= Len(line) + 1
    BY <1>1
  <2> QED BY <1>0, <2>1, <2>2, ReturnKeeps
<1>3. CASE ~ IsReserved(Word(here + 1))
  <2>1. /\ Read(2, SetOption(stream, Word(here), Word(here + 1)))
        /\ pc' = "stream" /\ depth' = depth
    BY <1>0, <1>3 DEF Option
  <2>2. Word(here + 1) # NULL
    BY <1>3 DEF IsReserved
  <2>3. here + 1 \in 1 .. Len(line) /\ here \in 1 .. Len(line) - 1
    BY <1>1, <2>2, Words
  <2>4. Word(here + 1) = line[here + 1] /\ Word(here + 1) \in STRING
    BY <2>3, Words
  <2>5. SetOption(stream, Word(here), Word(here + 1)) \in StreamType
    BY <1>0, <1>1, <1>3, <2>3, <2>4, Words, OptionTypes
  <2>6. /\ here' = here + 2 /\ parsed' = parsed + 2 /\ stream' \in StreamType
        /\ UNCHANGED <<line, argv, kind, conversion>>
    BY <2>1, <2>5 DEF Read, lineVars
  <2>7. here' <= Len(line) + 1 /\ depth' \in Nat /\ depth' <= here' - 1
    BY <1>1, <2>1, <2>3, <2>6
  <2> QED BY <1>0, <2>1, <2>6, <2>7, ReadKeeps
<1> QED BY <1>2, <1>3

LEMMA ArgumentType ==
  ASSUME NEW s \in StreamType, NEW word \in STRING
  PROVE  AddArgument(s, word) \in StreamType
<1>1. Append(s.argv, word) \in Seq(STRING)
  BY DEF StreamType
<1> QED BY <1>1 DEF AddArgument, StreamType

LEMMA StreamWordKeeps ==
  ASSUME Reading, Flag \/ Args \/ OneArgument
  PROVE  Reading' /\ pc' \in {"stream", "list", "crashed"}
<1>0. pc = "stream" /\ Word(here) \in DOMAIN Flags \cup {"--args", "-o"}
  BY DEF Flag, Args, OneArgument
<1>1. /\ here \in 1 .. Len(line) /\ Len(line) \in Nat /\ here \in Nat
      /\ stream \in StreamType /\ depth \in Nat /\ depth <= here - 1
  <2>1. NULL \notin DOMAIN Flags \cup {"--args", "-o"}
    BY Words
  <2> QED BY <1>0, <2>1, Words DEF Reading
<1>2. Word(here + 1) # NULL => here + 1 <= Len(line) /\ Word(here + 1) \in STRING
  BY <1>1, Words
<1>3. CASE Flag
  <2>1. /\ here' = here + 1 /\ parsed' = parsed + 1 /\ pc' = "stream" /\ depth' = depth
        /\ stream' = [stream EXCEPT !.stream = Flags[Word(here)]]
        /\ UNCHANGED <<line, argv, kind, conversion>>
    BY <1>3 DEF Flag, Read, lineVars
  <2>2. Flags[Word(here)] \in {"STDIN", "STDOUT", "STDERR"}
    BY <1>3 DEF Flag, Flags
  <2>3. stream' \in StreamType
    BY <1>1, <2>1, <2>2 DEF StreamType
  <2>4. here' <= Len(line) + 1 /\ depth' \in Nat /\ depth' <= here' - 1
    BY <1>1, <2>1
  <2> QED BY <1>0, <2>1, <2>3, <2>4, ReadKeeps
<1>4. CASE Args
  <2>1. CASE /\ Word(here + 1) = "[" /\ Read(2, stream) /\ depth' = 1 /\ pc' = "list"
    <3>1. /\ here' = here + 2 /\ parsed' = parsed + 2 /\ stream' \in StreamType
          /\ UNCHANGED <<line, argv, kind, conversion>>
      BY <1>1, <2>1 DEF Read, lineVars
    <3>2. here' <= Len(line) + 1 /\ depth' \in Nat /\ depth' <= here' - 1
      BY <1>1, <1>2, <2>1, <3>1, Words
    <3> QED BY <1>0, <2>1, <3>1, <3>2, ReadKeeps
  <2>2. CASE /\ Word(here + 1) \notin {"[", NULL}
             /\ Read(2, AddArgument(stream, Word(here + 1)))
             /\ UNCHANGED <<pc, depth>>
    <3>1. /\ here' = here + 2 /\ parsed' = parsed + 2 /\ stream' \in StreamType
          /\ UNCHANGED <<line, argv, kind, conversion>>
      BY <1>1, <1>2, <2>2, ArgumentType DEF Read, lineVars
    <3>2. here' <= Len(line) + 1 /\ depth' \in Nat /\ depth' <= here' - 1
      BY <1>1, <1>2, <2>2, <3>1
    <3> QED BY <1>0, <2>2, <3>1, <3>2, ReadKeeps
  <2>3. CASE Word(here + 1) = NULL /\ Read(1, stream) /\ UNCHANGED <<pc, depth>>
    <3>1. /\ here' = here + 1 /\ parsed' = parsed + 1 /\ stream' \in StreamType
          /\ UNCHANGED <<line, argv, kind, conversion>>
      BY <1>1, <2>3 DEF Read, lineVars
    <3>2. here' <= Len(line) + 1 /\ depth' \in Nat /\ depth' <= here' - 1
      BY <1>1, <2>3, <3>1
    <3> QED BY <1>0, <2>3, <3>1, <3>2, ReadKeeps
  <2> QED BY <1>4, <2>1, <2>2, <2>3 DEF Args
<1>5. CASE OneArgument
  <2>1. CASE Word(here + 1) = NULL
    <3>1. pc' = "crashed" /\ UNCHANGED <<line, argv, here, parsed, depth, kind, stream, conversion>>
      BY <1>5, <2>1 DEF OneArgument, Crash, parserVars, lineVars
    <3> QED BY <3>1 DEF Reading
  <2>2. CASE Word(here + 1) # NULL
    <3>1. /\ here' = here + 2 /\ parsed' = parsed + 2 /\ stream' \in StreamType
          /\ UNCHANGED <<line, argv, kind, conversion, pc, depth>>
      BY <1>1, <1>2, <1>5, <2>2, ArgumentType DEF OneArgument, Read, lineVars
    <3>2. here' <= Len(line) + 1 /\ depth' \in Nat /\ depth' <= here' - 1
      BY <1>1, <1>2, <2>2, <3>1
    <3> QED BY <1>0, <3>1, <3>2, ReadKeeps
  <2> QED BY <2>1, <2>2
<1> QED BY <1>3, <1>4, <1>5

LEMMA LineWordKeeps ==
  ASSUME Reading, BeginStream \/ Seed \/ Ignore
  PROVE  Reading' /\ pc' \in {"main", "stream", "crashed"}
<1>0. /\ pc = "main" /\ argv \in Nat /\ argv >= 1 /\ here <= argv /\ here \in 1 .. Len(line) + 1
      /\ Len(line) \in Nat /\ depth \in Nat /\ depth <= here - 1
  BY Words DEF Reading, BeginStream, Seed, Ignore
<1>1. CASE BeginStream
  <2>1. argv <= Len(line)
    BY <1>0, <1>1, Words DEF BeginStream
  <2>2. kind' \in {"inputs", "process", "outputs"}
    BY <1>1 DEF BeginStream, Kinds
  <2>3. /\ argv' = argv + 1 /\ here' = argv + 1 /\ parsed' = 0 /\ pc' = "stream"
        /\ stream' = NewStream /\ UNCHANGED <<depth, conversion, line>>
    BY <1>1 DEF BeginStream, lineVars
  <2>4. argv' \in 1 .. Len(line') + 1 /\ here' \in 1 .. Len(line') + 1 /\ here' = argv' + parsed'
    BY <1>0, <2>1, <2>3
  <2>5. parsed' \in Nat /\ depth' \in Nat /\ depth' <= here' - 1
    BY <1>0, <2>1, <2>3
  <2>6. stream' \in StreamType
    BY <2>3, NewStreamType
  <2> QED BY <2>2, <2>3, <2>4, <2>5, <2>6 DEF Reading
<1>2. CASE Seed
  <2>1. CASE Word(argv + 1) = NULL
    <3>1. pc' = "crashed" /\ UNCHANGED <<line, argv, here, parsed, depth, kind, stream, conversion>>
      BY <1>2, <2>1 DEF Seed, Crash, parserVars, lineVars
    <3> QED BY <3>1 DEF Reading
  <2>2. CASE Word(argv + 1) # NULL
    <3>1. argv' = argv + 2 /\ UNCHANGED <<line, here, parsed, depth, kind, stream, conversion, pc>>
      BY <1>2, <2>2 DEF Seed, lineVars
    <3>2. argv + 1 <= Len(line)
      BY <1>0, <2>2, Words
    <3>3. argv' \in 1 .. Len(line') + 1 /\ here' <= argv'
      BY <1>0, <3>1, <3>2
    <3> QED BY <1>0, <3>1, <3>3 DEF Reading
  <2> QED BY <2>1, <2>2
<1>3. CASE Ignore
  <2>1. argv' = argv + 1 /\ UNCHANGED <<line, here, parsed, depth, kind, stream, conversion, pc>>
    BY <1>3 DEF Ignore, lineVars
  <2>2. argv <= Len(line)
    BY <1>0, <1>3, Words DEF Ignore
  <2>3. argv' \in 1 .. Len(line') + 1 /\ here' <= argv'
    BY <1>0, <2>1, <2>2
  <2> QED BY <1>0, <2>1, <2>3 DEF Reading
<1> QED BY <1>1, <1>2, <1>3

LEMMA ListKeeps ==
  ASSUME Reading, ListWord \/ EndList
  PROVE  Reading' /\ pc' \in {"stream", "list"}
<1>0. /\ pc = "list" /\ here \in Nat /\ here >= 1 /\ here <= Len(line) + 1 /\ Len(line) \in Nat
      /\ depth \in Nat /\ depth <= here - 1 /\ stream \in StreamType
  BY Words DEF Reading, ListWord, EndList
<1>1. Word(here) # NULL => here <= Len(line) /\ Word(here) \in STRING
  BY <1>0, Words
<1>2. CASE ListWord
  <2>1. /\ here' = here + 1 /\ parsed' = parsed + 1 /\ stream' \in StreamType
        /\ UNCHANGED <<line, argv, kind, conversion, pc>>
    BY <1>0, <1>1, <1>2, ArgumentType DEF ListWord, Read, lineVars
  <2>2. depth' \in {depth, depth + 1, depth - 1} /\ depth' > 0
    BY <1>2 DEF ListWord, Nesting
  <2>3. here' <= Len(line) + 1 /\ depth' \in Nat /\ depth' <= here' - 1
    BY <1>0, <1>1, <1>2, <2>1, <2>2 DEF ListWord
  <2> QED BY <1>0, <2>1, <2>3, ReadKeeps
<1>3. CASE EndList
  <2>0. pc' = "stream"
    BY <1>3 DEF EndList
  <2>1. CASE Word(here) = NULL /\ Read(0, stream) /\ UNCHANGED depth
    <3>1. /\ here' = here + 0 /\ parsed' = parsed + 0 /\ stream' \in StreamType
          /\ UNCHANGED <<line, argv, kind, conversion>>
      BY <1>0, <2>1 DEF Read, lineVars
    <3>2. here' <= Len(line) + 1 /\ depth' \in Nat /\ depth' <= here' - 1
      BY <1>0, <2>1, <3>1
    <3> QED BY <1>0, <2>0, <3>1, <3>2, ReadKeeps
  <2>2. CASE /\ Word(here) # NULL /\ depth' = 0
             /\ Read(IF Word(here + 1) = "]" THEN 2 ELSE 1, stream)
    <3> DEFINE num == IF Word(here + 1) = "]" THEN 2 ELSE 1
    <3>1. /\ here' = here + num /\ parsed' = parsed + num /\ stream' \in StreamType
          /\ UNCHANGED <<line, argv, kind, conversion>>
      BY <1>0, <2>2 DEF Read, lineVars
    <3>2. num \in 0 .. 2 /\ here + num <= Len(line) + 1 /\ num >= 1
      BY <1>0, <1>1, <2>2, Words
    <3> HIDE DEF num
    <3>3. here' <= Len(line) + 1 /\ depth' \in Nat /\ depth' <= here' - 1
      BY <1>0, <2>2, <3>1, <3>2
    <3> QED BY <1>0, <2>0, <3>1, <3>2, <3>3, ReadKeeps
  <2> QED BY <1>3, <2>1, <2>2 DEF EndList
<1> QED BY <1>2, <1>3

(* Each step of the parser; only the end of the arguments leaves it. *)
LEMMA ParseKeeps ==
  ASSUME Reading, Parse
  PROVE  /\ Reading' /\ pc \in Parsing
         /\ pc' \in Parsing \cup {"exited"} \/ (pc' = "inputs" /\ UNCHANGED conversion)
<1>1. CASE BeginStream \/ Seed \/ Ignore
  BY <1>1, LineWordKeeps DEF BeginStream, Seed, Ignore, Parsing
<1>2. CASE Sources \/ EndArguments
  <2>1. /\ pc = "main" /\ pc' \in {"exited", "inputs"}
        /\ UNCHANGED <<line, argv, here, parsed, depth, kind, stream, conversion>>
    BY <1>2 DEF Sources, EndArguments, parserVars, lineVars
  <2>2. Reading'
    BY <2>1 DEF Reading
  <2> QED BY <2>1, <2>2 DEF Parsing
<1>3. CASE Option
  BY <1>3, OptionKeeps DEF Option, Parsing
<1>4. CASE Flag \/ Args \/ OneArgument
  BY <1>4, StreamWordKeeps DEF Flag, Args, OneArgument, Parsing
<1>5. CASE EndStream
  <2>1. pc = "stream" /\ Return(parsed)
    BY <1>5 DEF EndStream
  <2>2. argv + parsed <= Len(line) + 1
    BY <2>1, Words DEF Reading
  <2>3. Reading' /\ pc' = "main"
    BY <2>1, <2>2, ReturnKeeps
  <2> QED BY <2>1, <2>3 DEF Parsing
<1>6. CASE ListWord \/ EndList
  BY <1>6, ListKeeps DEF ListWord, EndList, Parsing
<1> QED BY <1>1, <1>2, <1>3, <1>4, <1>5, <1>6 DEF Parse

-----------------------------------------------------------------------------
(* SetToSeq lists every element of a finite set once. *)
LEMMA Listing ==
  ASSUME NEW S, IsFiniteSet(S)
  PROVE  /\ SetToSeq(S) \in Seq(S)
         /\ Len(SetToSeq(S)) \in Nat /\ Len(SetToSeq(S)) = Cardinality(S)
         /\ \A x \in S : \E i \in 1 .. Len(SetToSeq(S)) : SetToSeq(S)[i] = x
         /\ \A i, j \in 1 .. Len(SetToSeq(S)) : SetToSeq(S)[i] = SetToSeq(S)[j] => i = j
<1> DEFINE n == Cardinality(S)
           f == SetToSeq(S)
<1>1. n \in Nat /\ ExistsBijection(1 .. n, S)
  BY FS_CardinalityType
<1>2. \E g \in [1 .. n -> S] : IsInjective(g)
  BY <1>1 DEF ExistsBijection, Bijection, Injection
<1>3. f \in [1 .. n -> S] /\ IsInjective(f)
  BY <1>2 DEF SetToSeq
<1>4. f \in Injection(1 .. n, S)
  BY <1>3 DEF Injection
<1>5. Cardinality(1 .. n) = n
  BY <1>1, FS_Interval
<1>6. f \in Surjection(1 .. n, S)
  BY <1>4, <1>5, FS_Injection
<1>7. f \in Seq(S) /\ Len(f) = n
  BY <1>1, <1>3
<1> QED BY <1>1, <1>3, <1>6, <1>7 DEF Surjection, IsInjective

LEMMA ListingOfOne ==
  ASSUME NEW x
  PROVE  SetToSeq({x}) = <<x>>
<1>1. IsFiniteSet({x}) /\ Cardinality({x}) = 1
  BY FS_Singleton
<1>2. SetToSeq({x}) \in Seq({x}) /\ Len(SetToSeq({x})) = 1
  BY <1>1, Listing
<1> QED BY <1>2

LEMMA ListingOfNone == SetToSeq({}) = <<>>
<1>1. SetToSeq({}) \in Seq({}) /\ Len(SetToSeq({})) = 0
  BY FS_EmptySet, Listing
<1> QED BY <1>1

(* Where a name of names is in their list. *)
LEMMA Position ==
  ASSUME NEW S, IsFiniteSet(S), NEW x \in S
  PROVE  /\ Place(SetToSeq(S), x) \in 1 .. Len(SetToSeq(S))
         /\ SetToSeq(S)[Place(SetToSeq(S), x)] = x
<1> DEFINE s == SetToSeq(S)
           I == {i \in 1 .. Len(s) : s[i] = x}
<1>1. s \in Seq(S) /\ Len(s) \in Nat /\ (\E i \in 1 .. Len(s) : s[i] = x)
      /\ \A i, j \in 1 .. Len(s) : s[i] = s[j] => i = j
  BY Listing
<1> HIDE DEF s
<1>2. PICK i \in 1 .. Len(s) : I = {i}
  BY <1>1
<1>3. Place(s, x) = Min(I)
  BY <1>2 DEF Place, SelectInSeq
<1>4. Min(I) = i
  BY <1>2 DEF Min
<1>5. s[i] = x
  BY <1>2
<1> QED BY <1>2, <1>3, <1>4, <1>5 DEF s

-----------------------------------------------------------------------------
(* What the steps of main have in common. *)
LEMMA MainReads ==
  ASSUME Reading, UNCHANGED <<lineVars, parserVars>>, pc' \notin Parsing
  PROVE  Reading'
<1>1. UNCHANGED <<line, argv, here, parsed, depth, kind, stream, conversion>>
  BY DEF lineVars, parserVars
<1>2. pc' \notin {"main", "stream", "list"}
  BY DEF Parsing
<1> QED BY <1>1, <1>2 DEF Reading

LEMMA AtCurrent ==
  ASSUME Inv, NEW k \in {"inputs", "process", "outputs"}, AtStream(k)
  PROVE  /\ at \in Nat /\ at + 1 \in 1 .. Len(conversion[k]) /\ Len(conversion[k]) \in Nat
         /\ pc = k /\ Current = conversion[k][at + 1] /\ Current \in StreamType
         /\ Current.library \in Libraries \cup {NULL} /\ Current.name \in Names \cup {NULL}
<1>1. conversion[k] \in Seq(StreamType)
  BY DEF Inv, Reading
<1>2. at \in Nat /\ pc = k /\ at < Len(conversion[k]) /\ Len(conversion[k]) \in Nat
  BY <1>1 DEF Inv, MainTypes, AtStream
<1>3. at + 1 \in 1 .. Len(conversion[k])
  BY <1>2
<1>4. Current \in StreamType
  BY <1>1, <1>2, <1>3 DEF Current
<1> QED BY <1>2, <1>3, <1>4 DEF Current, StreamType

LEMMA Counts ==
  ASSUME Inv, NEW l \in Libraries
  PROVE  /\ IsFiniteSet(InputsOf(l)) /\ Cardinality(InputsOf(l)) \in Nat
         /\ IsFiniteSet(ProcessesOf(l)) /\ Cardinality(ProcessesOf(l)) \in Nat
         /\ IsFiniteSet(ListedOf(l)) /\ Cardinality(ListedOf(l)) \in Nat
         /\ Inputs \in Nat /\ Inputs <= Len(conversion.inputs)
<1>1. Inputs \in Nat /\ Inputs <= Len(conversion.inputs)
  BY DEF Inputs, Inv, Reading, MainTypes
<1>2. IsFiniteSet(1 .. Inputs) /\ InputsOf(l) \subseteq 1 .. Inputs
  <2>1. IsFiniteSet(1 .. Inputs)
    BY <1>1, FS_Interval
  <2> QED BY <2>1 DEF InputsOf
<1>3. process \in Seq(Libraries) /\ Len(process) \in Nat /\ DOMAIN process = 1 .. Len(process)
  BY DEF Inv, MainTypes
<1>4. IsFiniteSet(DOMAIN process) /\ ProcessesOf(l) \subseteq DOMAIN process
  BY <1>3, FS_Interval DEF ProcessesOf
<1>5. IsFiniteSet(Names) /\ ListedOf(l) \subseteq Names
  BY DriverAssumption DEF ListedOf
<1> QED BY <1>1, <1>2, <1>4, <1>5, FS_Subset, FS_CardinalityType

LEMMA RecordsStay ==
  ASSUME Inv, pc \in Running, pc' \in Running, pc' = "inputs" => pc = "inputs",
         UNCHANGED <<records, inputs, freelist>>, loaded' \in [Libraries -> Nat],
         \A l \in Libraries : loaded'[l] >= loaded[l]
  PROVE  Held' /\ Disposed'
<1>1. Held'
  <2> SUFFICES ASSUME NEW n \in Names, inputs'[n] # NULL
               PROVE  loaded'[records'[inputs'[n]].library] > 0
    BY DEF Inv, Held
  <2>1. inputs[n] \in 1 .. Len(records) /\ records[inputs[n]] \in RecordType
    BY DEF Inv, MainTypes
  <2>2. records[inputs[n]].library \in Libraries
    BY <2>1 DEF RecordType
  <2>3. loaded[records[inputs[n]].library] > 0
    BY DEF Inv, Held
  <2>4. /\ loaded[records[inputs[n]].library] \in Nat
        /\ loaded'[records[inputs[n]].library] \in Nat
    BY <2>2 DEF Inv, MainTypes
  <2> QED BY <2>2, <2>3, <2>4
<1>2. Disposed'
  BY DEF Inv, Disposed, Running, Live, Shadowed
<1> QED BY <1>1, <1>2

-----------------------------------------------------------------------------
(* The inputs. *)
LEMMA InputCounted ==
  ASSUME Inv, AtStream("inputs"), Passed, UNCHANGED <<pc, conversion>>, NEW l \in Libraries
  PROVE  /\ Inputs' = at + 1 /\ Inputs = at
         /\ IsFiniteSet(InputsOf(l)) /\ Cardinality(InputsOf(l)) \in Nat
         /\ Current.library = l => Cardinality(InputsOf(l)') = Cardinality(InputsOf(l)) + 1
         /\ Current.library # l => InputsOf(l)' = InputsOf(l)
<1>1. Inputs' = at + 1 /\ Inputs = at /\ at \in Nat
  BY AtCurrent DEF Inputs, Passed
<1>2. Current = conversion.inputs[at + 1]
  BY AtCurrent
<1>3. InputsOf(l)' = {i \in 1 .. at + 1 : conversion.inputs[i].library = l}
  BY <1>1 DEF InputsOf
<1>4. InputsOf(l) = {i \in 1 .. at : conversion.inputs[i].library = l}
  BY <1>1 DEF InputsOf
<1>5. Current.library = l => InputsOf(l)' = InputsOf(l) \cup {at + 1}
  BY <1>1, <1>2, <1>3, <1>4
<1>6. Current.library # l => InputsOf(l)' = InputsOf(l)
  BY <1>1, <1>2, <1>3, <1>4
<1>7. at + 1 \notin InputsOf(l)
  BY <1>1, <1>4
<1> QED BY <1>1, <1>5, <1>6, <1>7, Counts, FS_AddElement

(* The steps of the loop that leave the records. *)
LEMMA InputHandled ==
  ASSUME Inv, AtStream("inputs"), Passed,
         UNCHANGED <<pc, lineVars, parserVars, destroyed, process>>,
         \/ Current.library = NULL /\ UNCHANGED <<loaded, parserList>>
         \/ /\ Current.library # NULL /\ Load
            /\ \/ UNCHANGED parserList
               \/ \E name \in Names : parserList' = [parserList EXCEPT ![name] = Current.library]
  PROVE  /\ Reading' /\ Handles' /\ Destroyed' /\ Closed' /\ pc = "inputs"
         /\ at' \in Nat /\ at' <= Len(conversion'[pc'])
         /\ loaded' \in [Libraries -> Nat] /\ parserList' \in [Names -> Libraries \cup {NULL}]
         /\ \A l \in Libraries : loaded'[l] >= loaded[l]
         /\ Current.library # NULL => loaded'[Current.library] > 0
<1>1. /\ pc = "inputs" /\ pc' = "inputs" /\ at \in Nat /\ at + 1 \in 1 .. Len(conversion.inputs)
      /\ Current.library \in Libraries \cup {NULL}
  BY AtCurrent
<1>2. UNCHANGED <<conversion, line, argv, here, parsed, depth, kind, stream>>
  BY DEF parserVars, lineVars
<1>3. Reading'
  BY <1>1, MainReads DEF Inv, Parsing
<1>4. at' \in Nat /\ at' <= Len(conversion'[pc'])
  BY <1>1, <1>2, AtCurrent DEF Passed
<1>5. /\ loaded \in [Libraries -> Nat] /\ parserList \in [Names -> Libraries \cup {NULL}]
      /\ NULL \notin Libraries /\ NULL \notin Names
  BY DriverAssumption DEF Inv, MainTypes
<1>6. /\ loaded' \in [Libraries -> Nat] /\ \A l \in Libraries : loaded'[l] >= loaded[l]
      /\ Current.library # NULL => loaded'[Current.library] > 0
      /\ \A l \in Libraries : loaded'[l] = IF Current.library = l THEN loaded[l] + 1 ELSE loaded[l]
  BY <1>1, <1>5 DEF Load
<1>7. parserList' \in [Names -> Libraries \cup {NULL}]
  BY <1>1, <1>5
<1>8. Handles'
  <2> SUFFICES ASSUME NEW l \in Libraries
               PROVE  /\ loaded'[l] = Cardinality(InputsOf(l)') + Cardinality(ProcessesOf(l)')
                      /\ Cardinality(ListedOf(l)') <= Cardinality(InputsOf(l)')
    BY DEF Handles
  <2>1. /\ loaded[l] = Cardinality(InputsOf(l)) + Cardinality(ProcessesOf(l))
        /\ Cardinality(ListedOf(l)) <= Cardinality(InputsOf(l))
    BY <1>1 DEF Inv, Handles, Running
  <2>2. ProcessesOf(l)' = ProcessesOf(l)
    BY DEF ProcessesOf
  <2>3. /\ Cardinality(InputsOf(l)) \in Nat /\ Cardinality(ProcessesOf(l)) \in Nat
        /\ Cardinality(ListedOf(l)) \in Nat /\ IsFiniteSet(ListedOf(l))
    BY Counts
  <2>4. Cardinality(InputsOf(l)') =
          IF Current.library = l THEN Cardinality(InputsOf(l)) + 1 ELSE Cardinality(InputsOf(l))
    BY <1>2, InputCounted
  <2>5. Cardinality(ListedOf(l)') <=
          IF Current.library = l THEN Cardinality(ListedOf(l)) + 1 ELSE Cardinality(ListedOf(l))
    <3>1. CASE UNCHANGED parserList
      <4>1. ListedOf(l)' = ListedOf(l)
        BY <3>1 DEF ListedOf
      <4> QED BY <4>1, <2>3
    <3>2. CASE \E name \in Names : parserList' = [parserList EXCEPT ![name] = Current.library]
      <4>1. PICK name \in Names : parserList' = [parserList EXCEPT ![name] = Current.library]
        BY <3>2
      <4>2. CASE Current.library = l
        <5>1. ListedOf(l)' = ListedOf(l) \cup {name}
          BY <1>5, <4>1, <4>2 DEF ListedOf
        <5>2. Cardinality(ListedOf(l)') \in {Cardinality(ListedOf(l)), Cardinality(ListedOf(l)) + 1}
          BY <2>3, <5>1, FS_AddElement
        <5> QED BY <2>3, <4>2, <5>2
      <4>3. CASE Current.library # l
        <5>1. ListedOf(l)' \in SUBSET ListedOf(l)
          BY <1>5, <4>1, <4>3 DEF ListedOf
        <5> QED BY <2>3, <4>3, <5>1, FS_Subset
      <4> QED BY <4>2, <4>3
    <3> QED BY <3>1, <3>2
  <2>6. Cardinality(ListedOf(l)') \in Nat
    <3>1. IsFiniteSet(Names) /\ ListedOf(l)' \in SUBSET Names
      BY DriverAssumption DEF ListedOf
    <3> QED BY <3>1, FS_Subset, FS_CardinalityType
  <2>7. loaded'[l] = IF Current.library = l THEN loaded[l] + 1 ELSE loaded[l]
    BY <1>6
  <2>8. CASE Current.library = l
    BY <2>1, <2>2, <2>3, <2>4, <2>5, <2>6, <2>7, <2>8
  <2>9. CASE Current.library # l
    BY <2>1, <2>2, <2>3, <2>4, <2>5, <2>6, <2>7, <2>9
  <2> QED BY <2>8, <2>9
<1>9. Destroyed' /\ Closed'
  BY <1>1 DEF Inv, Destroyed, Closed
<1> QED BY <1>1, <1>3, <1>4, <1>6, <1>7, <1>8, <1>9

LEMMA SkipInputKeeps ==
  ASSUME Inv, SkipInput \/ ReadNothing
  PROVE  Inv'
<1>1. /\ AtStream("inputs") /\ Passed
      /\ UNCHANGED <<pc, lineVars, parserVars, destroyed, records, inputs, freelist,
                     parserList, process, dumped>>
      /\ \/ Current.library = NULL /\ UNCHANGED loaded
         \/ Current.library # NULL /\ Load
  BY DEF SkipInput, ReadNothing
<1>2. /\ Reading' /\ Handles' /\ Destroyed' /\ Closed' /\ pc = "inputs"
      /\ at' \in Nat /\ at' <= Len(conversion'[pc'])
      /\ loaded' \in [Libraries -> Nat] /\ parserList' \in [Names -> Libraries \cup {NULL}]
      /\ \A l \in Libraries : loaded'[l] >= loaded[l]
  BY <1>1, InputHandled
<1>3. Held' /\ Disposed'
  BY <1>1, <1>2, RecordsStay DEF Running
<1>4. MainTypes'
  BY <1>1, <1>2 DEF Inv, MainTypes
<1> QED BY <1>1, <1>2, <1>3, <1>4 DEF Inv, Running, Parsing

(* A record that an input gave, with the library that made it.             *)
LEMMA RecordTaken ==
  ASSUME Inv, pc = "inputs", pc' = "inputs", NEW name \in Names, NEW library \in Libraries,
         records' = Append(records, [name |-> name, library |-> library, made |-> "parser",
                                     deletedBy |-> <<>>]),
         inputs' = Insert(inputs, name, Len(records) + 1),
         freelist' = Insert(freelist, name, library),
         loaded' \in [Libraries -> Nat], \A l \in Libraries : loaded'[l] >= loaded[l],
         loaded'[library] > 0
  PROVE  /\ Held' /\ Disposed' /\ records' \in Seq(RecordType)
         /\ inputs' \in [Names -> (1 .. Len(records')) \cup {NULL}]
         /\ freelist' \in [Names -> Libraries \cup {NULL}]
<1> DEFINE new == [name |-> name, library |-> library, made |-> "parser", deletedBy |-> <<>>]
           size == Len(records)
<1>1. /\ records \in Seq(RecordType) /\ size \in Nat /\ new \in RecordType
      /\ inputs \in [Names -> (1 .. size) \cup {NULL}] /\ NULL \notin Nat /\ NULL \notin Libraries
      /\ freelist \in [Names -> Libraries \cup {NULL}] /\ loaded \in [Libraries -> Nat]
  BY DriverAssumption DEF Inv, MainTypes, RecordType
<1>2. /\ records' \in Seq(RecordType) /\ Len(records') = size + 1 /\ records'[size + 1] = new
      /\ \A r \in 1 .. size : records'[r] = records[r]
      /\ DOMAIN records' = 1 .. size + 1 /\ DOMAIN records = 1 .. size
  <2> HIDE DEF new
  <2>1. records' = Append(records, new)
    BY DEF new
  <2> QED BY <1>1, <2>1
<1>3. /\ inputs' \in [Names -> (1 .. Len(records')) \cup {NULL}]
      /\ freelist' \in [Names -> Libraries \cup {NULL}]
  BY <1>1, <1>2 DEF Insert
<1>4. /\ \A n \in Names : inputs[n] = NULL <=> freelist[n] = NULL
      /\ \A n \in Names : inputs[n] # NULL =>
           /\ records[inputs[n]].name = n /\ records[inputs[n]].library = freelist[n]
           /\ loaded[records[inputs[n]].library] > 0
  BY DEF Inv, Held, Running
<1>5. \A r \in 1 .. size :
        /\ records[r].deletedBy = <<>> <=> Live(r) \/ Shadowed(r)
        /\ ~ (Live(r) /\ Shadowed(r)) /\ inputs[records[r].name] # NULL
        /\ records[r] \in RecordType
  BY <1>1, <1>2 DEF Inv, Disposed, Running
<1>6. \A n \in Names : n # name => inputs'[n] = inputs[n] /\ freelist'[n] = freelist[n]
  BY <1>1 DEF Insert
<1>7. CASE inputs[name] = NULL
  <2>1. inputs'[name] = size + 1 /\ freelist'[name] = library
    BY <1>1, <1>4, <1>7 DEF Insert
  <2>2. \A r \in 1 .. size : records[r].name # name
    BY <1>5, <1>7
  <2>3. Held'
    <3> SUFFICES ASSUME NEW n \in Names
                 PROVE  /\ inputs'[n] = NULL <=> freelist'[n] = NULL
                        /\ inputs'[n] # NULL =>
                             /\ records'[inputs'[n]].name = n
                             /\ records'[inputs'[n]].library = freelist'[n]
                             /\ loaded'[records'[inputs'[n]].library] > 0
      BY DEF Held
    <3>1. CASE n = name
      BY <1>1, <1>2, <2>1, <3>1
    <3>2. CASE n # name
      <4>1. inputs'[n] = inputs[n] /\ freelist'[n] = freelist[n]
        BY <1>6, <3>2
      <4>2. inputs[n] # NULL => inputs[n] \in 1 .. size /\ records'[inputs[n]] = records[inputs[n]]
                                 /\ records[inputs[n]].library \in Libraries
        BY <1>1, <1>2, <1>5 DEF RecordType
      <4>3. ASSUME inputs[n] # NULL PROVE loaded'[records[inputs[n]].library] > 0
        BY <1>1, <1>4, <4>2, <4>3
      <4> QED BY <1>4, <4>1, <4>2, <4>3
    <3> QED BY <3>1, <3>2
  <2>4. ASSUME NEW r \in 1 .. size
        PROVE  /\ Live(r)' <=> Live(r)
               /\ Shadowed(r)' <=> Shadowed(r)
               /\ inputs'[records'[r].name] # NULL
    <3>1. /\ records'[r] = records[r] /\ records[r].name \in Names /\ records[r].name # name
          /\ \A s \in 1 .. r - 1 : records'[s] = records[s]
      BY <1>1, <1>2, <1>5, <2>2 DEF RecordType
    <3>2. inputs'[records[r].name] = inputs[records[r].name]
      BY <1>6, <3>1
    <3>3. inputs[records[r].name] # NULL
      BY <1>5
    <3> QED BY <3>1, <3>2, <3>3 DEF Live, Shadowed
  <2>5. ASSUME NEW r \in Nat, r = size + 1
        PROVE  Live(r)' /\ ~ Shadowed(r)'
    <3>1. \A s \in 1 .. r - 1 : records'[s].name # name
      BY <1>1, <1>2, <2>2, <2>5
    <3> QED BY <1>2, <2>1, <2>5, <3>1 DEF Live, Shadowed
  <2>7. Disposed'
    <3> SUFFICES ASSUME NEW r \in 1 .. size + 1
                 PROVE  /\ records'[r].deletedBy = <<>> <=> Live(r)' \/ Shadowed(r)'
                        /\ ~ (Live(r)' /\ Shadowed(r)')
                        /\ inputs'[records'[r].name] # NULL
      BY <1>2 DEF Disposed, Running
    <3>1. CASE r \in 1 .. size
      BY <1>2, <1>5, <2>4, <3>1
    <3>2. CASE r = size + 1
      BY <1>1, <1>2, <2>1, <2>5, <3>2
    <3> QED BY <1>1, <3>1, <3>2
  <2> QED BY <1>2, <1>3, <2>3, <2>7
<1>8. CASE inputs[name] # NULL
  <2>1. inputs' = inputs /\ freelist' = freelist
    BY <1>1, <1>4, <1>8 DEF Insert
  <2>2. inputs[name] \in 1 .. size /\ records[inputs[name]].name = name
    BY <1>1, <1>4, <1>8
  <2>3. Held'
    <3> SUFFICES ASSUME NEW n \in Names
                 PROVE  /\ inputs'[n] = NULL <=> freelist'[n] = NULL
                        /\ inputs'[n] # NULL =>
                             /\ records'[inputs'[n]].name = n
                             /\ records'[inputs'[n]].library = freelist'[n]
                             /\ loaded'[records'[inputs'[n]].library] > 0
      BY DEF Held
    <3>1. inputs[n] # NULL => inputs[n] \in 1 .. size /\ records'[inputs[n]] = records[inputs[n]]
                               /\ records[inputs[n]].library \in Libraries
      BY <1>1, <1>2, <1>5 DEF RecordType
    <3>2. ASSUME inputs[n] # NULL PROVE loaded'[records[inputs[n]].library] > 0
      BY <1>1, <1>4, <3>1, <3>2
    <3> QED BY <1>4, <2>1, <3>1, <3>2
  <2>4. ASSUME NEW r \in 1 .. size
        PROVE  (Live(r)' <=> Live(r)) /\ (Shadowed(r)' <=> Shadowed(r))
    <3>1. records'[r] = records[r] /\ \A s \in 1 .. r - 1 : records'[s] = records[s]
      BY <1>1, <1>2
    <3> QED BY <2>1, <3>1 DEF Live, Shadowed
  <2>5. ASSUME NEW r \in Nat, r = size + 1
        PROVE  ~ Live(r)' /\ Shadowed(r)'
    <3>1. inputs'[name] # r
      BY <1>1, <1>2, <2>1, <2>2, <2>5
    <3>2. inputs[name] \in 1 .. r - 1 /\ records'[inputs[name]].name = name
      BY <1>1, <1>2, <2>2, <2>5
    <3>3. records'[r].name = name /\ records'[r].made = "parser" /\ inputs'[name] # r
      BY <1>1, <1>2, <2>5, <3>1
    <3>4. ~ Live(r)'
      BY <3>3 DEF Live
    <3>5. \E s \in 1 .. r - 1 : records'[s].name = records'[r].name
      BY <3>2, <3>3, Zenon
    <3> QED BY <3>3, <3>4, <3>5 DEF Shadowed
  <2>7. Disposed'
    <3> SUFFICES ASSUME NEW r \in 1 .. size + 1
                 PROVE  /\ records'[r].deletedBy = <<>> <=> Live(r)' \/ Shadowed(r)'
                        /\ ~ (Live(r)' /\ Shadowed(r)')
                        /\ inputs'[records'[r].name] # NULL
      BY <1>2 DEF Disposed, Running
    <3>1. CASE r \in 1 .. size
      BY <1>2, <1>5, <2>1, <2>4, <3>1
    <3>2. CASE r = size + 1
      BY <1>1, <1>2, <1>8, <2>1, <2>5, <3>2
    <3> QED BY <1>1, <3>1, <3>2
  <2> QED BY <1>2, <1>3, <2>3, <2>7
<1> QED BY <1>7, <1>8

LEMMA ReadRecordKeeps ==
  ASSUME Inv, ReadRecord
  PROVE  Inv'
<1>1. /\ AtStream("inputs") /\ Passed /\ Current.library # NULL /\ Load
      /\ UNCHANGED <<pc, lineVars, parserVars, destroyed, process, dumped>>
  BY DEF ReadRecord
<1>2. pc = "inputs" /\ Current.library \in Libraries /\ Current.name \in Names \cup {NULL}
  BY <1>1, AtCurrent
<1>3. PICK name \in Names :
        /\ records' = Append(records, NewRecord(name, "parser"))
        /\ inputs' = Insert(inputs, name, Len(records) + 1)
        /\ freelist' = Insert(freelist, name, Current.library)
        /\ parserList' = IF Current.stream = "STDIN"
                         THEN Insert(parserList, name, Current.library) ELSE parserList
  BY <1>2, DriverAssumption DEF ReadRecord
<1>4. UNCHANGED parserList
      \/ \E n \in Names : parserList' = [parserList EXCEPT ![n] = Current.library]
  BY <1>3 DEF Insert
<1>5. /\ Reading' /\ Handles' /\ Destroyed' /\ Closed'
      /\ at' \in Nat /\ at' <= Len(conversion'[pc'])
      /\ loaded' \in [Libraries -> Nat] /\ parserList' \in [Names -> Libraries \cup {NULL}]
      /\ \A l \in Libraries : loaded'[l] >= loaded[l]
      /\ loaded'[Current.library] > 0
  BY <1>1, <1>4, InputHandled
<1>6. /\ Held' /\ Disposed' /\ records' \in Seq(RecordType)
      /\ inputs' \in [Names -> (1 .. Len(records')) \cup {NULL}]
      /\ freelist' \in [Names -> Libraries \cup {NULL}]
  BY <1>1, <1>2, <1>3, <1>5, RecordTaken DEF NewRecord
<1>7. MainTypes'
  BY <1>1, <1>5, <1>6 DEF Inv, MainTypes
<1> QED BY <1>1, <1>2, <1>5, <1>6, <1>7 DEF Inv, Running, Parsing

-----------------------------------------------------------------------------
(* The functions in freelist delete exactly the records in inputs, each by *)
(* the library that made it.                                               *)
LEMMA DeletedLive ==
  ASSUME Inv, pc \in Running, NEW names, names = KeysOf(inputs) \/ names = KeysOf(freelist)
  PROVE  /\ Deleted(records, names) \in Seq(RecordType)
         /\ Len(Deleted(records, names)) = Len(records)
         /\ \A r \in 1 .. Len(records) :
              /\ Live(r) => Deleted(records, names)[r]
                              = [records[r] EXCEPT !.deletedBy = <<records[r].library>>]
              /\ ~ Live(r) => Deleted(records, names)[r] = records[r]
<1> DEFINE size == Len(records)
           after == Deleted(records, names)
<1>1. /\ records \in Seq(RecordType) /\ size \in Nat /\ DOMAIN records = 1 .. size
      /\ inputs \in [Names -> (1 .. size) \cup {NULL}]
      /\ NULL \notin Nat /\ NULL \notin Libraries
      /\ \A r \in 1 .. size : records[r] \in RecordType
  BY DriverAssumption DEF Inv, MainTypes
<1>2. names = KeysOf(inputs)
  BY DEF Inv, Held, KeysOf
<1>3. \A r \in 1 .. size : Live(r) => records[r].deletedBy = <<>>
  BY <1>1 DEF Inv, Disposed
<1>4. \A n \in Names : inputs[n] # NULL =>
        records[inputs[n]].name = n /\ records[inputs[n]].library = freelist[n]
  BY DEF Inv, Held
<1>5. DOMAIN after = 1 .. size
  BY <1>1 DEF Deleted
<1>6. \A r \in 1 .. size :
        after[r] = [records[r] EXCEPT !.deletedBy = @ \o
                      SetToSeq({freelist[n] : n \in {m \in names : inputs[m] = r}})]
  BY <1>1 DEF Deleted
<1>7. ASSUME NEW r \in 1 .. size
      PROVE  /\ after[r] \in RecordType
             /\ Live(r) => after[r] = [records[r] EXCEPT !.deletedBy = <<records[r].library>>]
             /\ ~ Live(r) => after[r] = records[r]
  <2> DEFINE called == {freelist[n] : n \in {m \in names : inputs[m] = r}}
  <2>1. /\ records[r] \in RecordType /\ records[r].name \in Names /\ records[r].library \in Libraries
        /\ records[r].deletedBy \in Seq(Libraries) /\ r \in Nat
    BY <1>1 DEF RecordType
  <2>2. after[r] = [records[r] EXCEPT !.deletedBy = records[r].deletedBy \o SetToSeq(called)]
    BY <1>6
  <2>3. CASE Live(r)
    <3>1. inputs[records[r].name] = r /\ records[r].name \in names
      BY <1>1, <1>2, <2>1, <2>3 DEF Live, KeysOf
    <3>2. {m \in names : inputs[m] = r} = {records[r].name}
      BY <1>1, <1>2, <1>4, <2>1, <3>1 DEF KeysOf
    <3>3. freelist[records[r].name] = records[r].library
      BY <1>1, <1>4, <2>1, <3>1
    <3>4. called = {records[r].library}
      BY <3>2, <3>3
    <3>5. SetToSeq(called) = <<records[r].library>>
      BY <3>4, ListingOfOne
    <3>6. records[r].deletedBy = <<>>
      BY <1>3, <2>3
    <3>7. records[r].deletedBy \o SetToSeq(called) = <<records[r].library>>
      <4>1. <<records[r].library>> \in Seq(Libraries)
        BY <2>1
      <4> QED BY <3>5, <3>6, <4>1, ConcatEmptySeq
    <3>8. after[r] = [records[r] EXCEPT !.deletedBy = <<records[r].library>>]
      BY <2>2, <3>7
    <3>9. <<records[r].library>> \in Seq(Libraries)
      BY <2>1
    <3>10. after[r] \in RecordType
      BY <2>1, <3>8, <3>9 DEF RecordType
    <3> QED BY <2>3, <3>8, <3>10
  <2>4. CASE ~ Live(r)
    <3>1. {m \in names : inputs[m] = r} = {}
      BY <1>1, <1>2, <1>4, <2>1, <2>4 DEF KeysOf, Live
    <3>2. called = {}
      BY <3>1
    <3>3. SetToSeq(called) = <<>>
      BY <3>2, ListingOfNone
    <3>4. records[r].deletedBy \o SetToSeq(called) = records[r].deletedBy
      BY <2>1, <3>3, ConcatEmptySeq
    <3>5. after[r] = records[r]
      BY <2>1, <2>2, <3>4 DEF RecordType
    <3> QED BY <2>1, <2>4, <3>5
  <2> QED BY <2>3, <2>4
<1>8. after \in Seq(RecordType) /\ Len(after) = size
  <2>1. after = [r \in 1 .. size |-> after[r]]
    BY <1>1 DEF Deleted
  <2> HIDE DEF after
  <2> QED BY <1>1, <1>5, <1>7, <2>1
<1> QED BY <1>7, <1>8

-----------------------------------------------------------------------------
(* A process: its records come after those there were. *)
Processed(library, name) ==
  [name |-> name, library |-> library, made |-> "process", deletedBy |-> <<>>]

LEMMA ProcessedType ==
  ASSUME NEW library \in Libraries, NEW name \in Names
  PROVE  /\ Processed(library, name) \in RecordType
         /\ Processed(library, name).name = name /\ Processed(library, name).library = library
         /\ Processed(library, name).made = "process" /\ Processed(library, name).deletedBy = <<>>
  BY DEF Processed, RecordType

Replacing(library, names) ==
  /\ records' = Deleted(records, KeysOf(freelist))
                  \o [i \in DOMAIN SetToSeq(names) |-> Processed(library, SetToSeq(names)[i])]
  /\ inputs' = [n \in Names |->
                 IF n \in names THEN Len(records) + Place(SetToSeq(names), n) ELSE NULL]

LEMMA Replaced ==
  ASSUME Inv, pc \in Running, NEW library \in Libraries, NEW names \in SUBSET Names,
         Replacing(library, names)
  PROVE  /\ records' \in Seq(RecordType) /\ Len(records) \in Nat /\ Len(records') \in Nat
         /\ Len(records') >= Len(records)
         /\ inputs' \in [Names -> (1 .. Len(records')) \cup {NULL}]
         /\ \A n \in Names \ names : inputs'[n] = NULL
         /\ \A n \in names :
              /\ inputs'[n] # NULL /\ inputs'[n] \in Len(records) + 1 .. Len(records')
              /\ records'[inputs'[n]].name = n /\ records'[inputs'[n]].library = library
         /\ \A r \in 1 .. Len(records) :
              /\ Live(r) => records'[r] = [records[r] EXCEPT !.deletedBy = <<records[r].library>>]
              /\ ~ Live(r) => records'[r] = records[r]
         /\ \A r \in Len(records) + 1 .. Len(records') :
              /\ records'[r].made = "process" /\ records'[r].deletedBy = <<>>
              /\ inputs'[records'[r].name] = r
<1> DEFINE size == Len(records)
           after == Deleted(records, KeysOf(freelist))
           new == SetToSeq(names)
           made == [i \in DOMAIN new |-> Processed(library, new[i])]
<1>1. size \in Nat /\ NULL \notin Nat
  BY DriverAssumption DEF Inv, MainTypes
<1>2. /\ after \in Seq(RecordType) /\ Len(after) = size
      /\ \A r \in 1 .. size :
           /\ Live(r) => after[r] = [records[r] EXCEPT !.deletedBy = <<records[r].library>>]
           /\ ~ Live(r) => after[r] = records[r]
  BY DeletedLive
<1>3. IsFiniteSet(names)
  BY DriverAssumption, FS_Subset
<1>4. /\ new \in Seq(names) /\ Len(new) \in Nat
      /\ \A i, j \in 1 .. Len(new) : new[i] = new[j] => i = j
  BY <1>3, Listing
<1>5. \A n \in names : Place(new, n) \in 1 .. Len(new) /\ new[Place(new, n)] = n
  BY <1>3, Position
<1>6. records' = after \o made
  BY DEF Replacing
<1>7. inputs' = [n \in Names |-> IF n \in names THEN size + Place(new, n) ELSE NULL]
  BY DEF Replacing
<1> HIDE DEF after, new
<1>8. /\ made \in Seq(RecordType) /\ Len(made) = Len(new)
      /\ \A i \in 1 .. Len(new) : made[i] = Processed(library, new[i])
  <2>1. \A i \in 1 .. Len(new) : new[i] \in Names
    BY <1>4
  <2>2. \A i \in 1 .. Len(new) : Processed(library, new[i]) \in RecordType
    BY <2>1, ProcessedType
  <2> QED BY <1>4, <2>2
<1> HIDE DEF made
<1>9. \A i \in 1 .. Len(new) : /\ made[i].name = new[i] /\ made[i].library = library
                               /\ made[i].made = "process" /\ made[i].deletedBy = <<>>
  BY <1>4, <1>8, ProcessedType
<1> HIDE DEF size
<1>21. after \in Seq(RecordType) /\ Len(after) = size
  BY <1>2
<1>22. made \in Seq(RecordType) /\ Len(made) = Len(new)
  BY <1>8
<1>10. records' \in Seq(RecordType)
  BY <1>6, <1>21, <1>22, ConcatProperties
<1>11. Len(records') = size + Len(new)
  <2>1. Len(after \o made) = Len(after) + Len(made)
    BY <1>21, <1>22, ConcatProperties
  <2> QED BY <1>6, <1>21, <1>22, <2>1
<1>12. \A r \in 1 .. size + Len(new) : records'[r] = IF r <= size THEN after[r] ELSE made[r - size]
  <2>1. \A r \in 1 .. Len(after) + Len(made) :
          (after \o made)[r] = IF r <= Len(after) THEN after[r] ELSE made[r - Len(after)]
    BY <1>21, <1>22, ConcatProperties
  <2> QED BY <1>6, <1>21, <1>22, <2>1
<1>13. \A r \in 1 .. size : records'[r] = after[r]
  BY <1>1, <1>4, <1>12
<1>14. \A i \in 1 .. Len(new) : records'[size + i] = made[i]
  <2> TAKE i \in 1 .. Len(new)
  <2>1. size + i \in 1 .. size + Len(new) /\ ~ (size + i <= size) /\ (size + i) - size = i
    BY <1>1, <1>4
  <2> QED BY <1>12, <2>1
<1>15. \A n \in names : inputs'[n] = size + Place(new, n)
  BY <1>7
<1>16. \A n \in names : /\ inputs'[n] # NULL /\ inputs'[n] \in size + 1 .. size + Len(new)
                        /\ records'[inputs'[n]].name = n
                        /\ records'[inputs'[n]].library = library
  <2> TAKE n \in names
  <2>1. inputs'[n] = size + Place(new, n) /\ Place(new, n) \in 1 .. Len(new)
    BY <1>5, <1>15
  <2>2. records'[size + Place(new, n)] = made[Place(new, n)]
    BY <1>14, <2>1
  <2>3. made[Place(new, n)].name = n /\ made[Place(new, n)].library = library
    BY <1>5, <1>9, <2>1
  <2> QED BY <1>1, <1>4, <2>1, <2>2, <2>3
<1>17. inputs' \in [Names -> (1 .. Len(records')) \cup {NULL}]
  <2>1. \A n \in Names : inputs'[n] \in (1 .. Len(records')) \cup {NULL}
    <3> TAKE n \in Names
    <3>1. CASE n \in names
      BY <1>1, <1>4, <1>11, <1>16, <3>1
    <3>2. CASE n \notin names
      BY <1>7, <3>2
    <3> QED BY <3>1, <3>2
  <2> QED BY <1>7, <2>1
<1>18. ASSUME NEW r \in size + 1 .. size + Len(new)
       PROVE  /\ records'[r].made = "process" /\ records'[r].deletedBy = <<>>
              /\ inputs'[records'[r].name] = r
  <2>1. PICK i \in 1 .. Len(new) : r = size + i
    BY <1>1, <1>4
  <2>2. records'[r] = made[i] /\ made[i].name = new[i] /\ new[i] \in names
    BY <1>4, <1>9, <1>14, <2>1
  <2>3. Place(new, new[i]) = i
    BY <1>4, <1>5, <2>2
  <2> QED BY <1>9, <1>15, <2>1, <2>2, <2>3
<1>19. \A n \in Names \ names : inputs'[n] = NULL
  BY <1>7
<1>20. Len(records') \in Nat /\ Len(records') >= size
  BY <1>1, <1>4, <1>11
<1>23. \A r \in 1 .. size :
         /\ Live(r) => records'[r] = [records[r] EXCEPT !.deletedBy = <<records[r].library>>]
         /\ ~ Live(r) => records'[r] = records[r]
  <2> TAKE r \in 1 .. size
  <2>1. records'[r] = after[r]
    BY <1>13
  <2> QED BY <1>2, <2>1
<1> QED BY <1>1, <1>10, <1>11, <1>16, <1>17, <1>18, <1>19, <1>20, <1>23 DEF size

LEMMA ProcessHandled ==
  ASSUME Inv, RunProcess
  PROVE  /\ Handles' /\ process' \in Seq(Libraries) /\ loaded' \in [Libraries -> Nat]
         /\ loaded'[Current.library] > 0
<1>1. /\ AtStream("process") /\ Load /\ Current.library # NULL
      /\ process' = Append(process, Current.library)
      /\ pc' \in {"process", "exited"} /\ UNCHANGED <<conversion, parserList>>
  BY DEF RunProcess, AtStream, parserVars
<1>2. pc = "process" /\ Current.library \in Libraries
  BY <1>1, AtCurrent
<1>3. process \in Seq(Libraries) /\ loaded \in [Libraries -> Nat]
  BY DEF Inv, MainTypes
<1>4. loaded' \in [Libraries -> Nat] /\ loaded'[Current.library] > 0
  BY <1>1, <1>2, <1>3 DEF Load
<1>5. process' \in Seq(Libraries)
  BY <1>1, <1>2, <1>3
<1>6. ASSUME NEW l \in Libraries, pc' = "process"
      PROVE  /\ loaded'[l] = Cardinality(InputsOf(l)') + Cardinality(ProcessesOf(l)')
             /\ Cardinality(ListedOf(l)') <= Cardinality(InputsOf(l)')
  <2>1. InputsOf(l)' = InputsOf(l) /\ ListedOf(l)' = ListedOf(l)
    BY <1>1, <1>2, <1>6 DEF InputsOf, ListedOf, Inputs
  <2>2. /\ loaded[l] = Cardinality(InputsOf(l)) + Cardinality(ProcessesOf(l))
        /\ Cardinality(ListedOf(l)) <= Cardinality(InputsOf(l))
    BY <1>2 DEF Inv, Handles, Running
  <2>3. /\ Cardinality(InputsOf(l)) \in Nat /\ Cardinality(ProcessesOf(l)) \in Nat
        /\ IsFiniteSet(ProcessesOf(l))
    BY Counts
  <2>4. /\ DOMAIN process' = 1 .. Len(process) + 1 /\ DOMAIN process = 1 .. Len(process)
        /\ Len(process) \in Nat /\ process'[Len(process) + 1] = Current.library
        /\ \A k \in 1 .. Len(process) : process'[k] = process[k]
    BY <1>1, <1>2, <1>3
  <2>5. CASE Current.library = l
    <3>1. ProcessesOf(l)' = ProcessesOf(l) \cup {Len(process) + 1}
      BY <2>4, <2>5 DEF ProcessesOf
    <3>2. Len(process) + 1 \notin ProcessesOf(l)
      BY <2>4 DEF ProcessesOf
    <3>3. Cardinality(ProcessesOf(l)') = Cardinality(ProcessesOf(l)) + 1
      BY <2>3, <3>1, <3>2, FS_AddElement
    <3>4. loaded'[l] = loaded[l] + 1
      BY <1>1, <1>3, <2>5 DEF Load
    <3> QED BY <2>1, <2>2, <2>3, <3>3, <3>4
  <2>6. CASE Current.library # l
    <3>1. ProcessesOf(l)' = ProcessesOf(l)
      BY <2>4, <2>6 DEF ProcessesOf
    <3>2. loaded'[l] = loaded[l]
      BY <1>1, <1>3, <2>6 DEF Load
    <3> QED BY <2>1, <2>2, <3>1, <3>2
  <2> QED BY <2>5, <2>6
<1>7. Handles'
  BY <1>1, <1>6 DEF Handles, Running
<1> QED BY <1>4, <1>5, <1>7

LEMMA RunProcessKeeps ==
  ASSUME Inv, RunProcess
  PROVE  Inv'
<1>1. /\ AtStream("process") /\ Passed /\ Current.library # NULL
      /\ UNCHANGED <<lineVars, parserVars, destroyed, parserList>>
  BY DEF RunProcess
<1>2. pc = "process" /\ at \in Nat /\ at + 1 <= Len(conversion.process) /\ Current.library \in Libraries
  BY <1>1, AtCurrent
<1>3. PICK names \in SUBSET Names :
        /\ Replacing(Current.library, names)
        /\ \/ freelist' = Relisted(names, Current.library) /\ pc' = "process"
           \/ freelist' = Empty /\ pc' = "exited"
  BY <1>2 DEF RunProcess, Replacing, Processed, NewRecord
<1>4. /\ records' \in Seq(RecordType) /\ Len(records) \in Nat /\ Len(records') \in Nat
      /\ Len(records') >= Len(records)
      /\ inputs' \in [Names -> (1 .. Len(records')) \cup {NULL}]
      /\ \A n \in Names \ names : inputs'[n] = NULL
      /\ \A n \in names :
           /\ inputs'[n] # NULL /\ inputs'[n] \in Len(records) + 1 .. Len(records')
           /\ records'[inputs'[n]].name = n /\ records'[inputs'[n]].library = Current.library
      /\ \A r \in 1 .. Len(records) :
           /\ Live(r) => records'[r] = [records[r] EXCEPT !.deletedBy = <<records[r].library>>]
           /\ ~ Live(r) => records'[r] = records[r]
      /\ \A r \in Len(records) + 1 .. Len(records') :
           /\ records'[r].made = "process" /\ records'[r].deletedBy = <<>>
           /\ inputs'[records'[r].name] = r
  BY <1>2, <1>3, Replaced DEF Running
<1>5. Reading'
  BY <1>1, <1>3, MainReads DEF Inv, Parsing
<1>6. /\ Handles' /\ process' \in Seq(Libraries) /\ loaded' \in [Libraries -> Nat]
      /\ loaded'[Current.library] > 0
  BY ProcessHandled
<1>7. conversion' = conversion /\ at' = at + 1
  BY <1>1 DEF parserVars, Passed
<1>8. freelist' \in [Names -> Libraries \cup {NULL}]
  BY <1>2, <1>3 DEF Relisted, Empty
<1>9. MainTypes'
  BY <1>1, <1>2, <1>3, <1>4, <1>6, <1>7, <1>8 DEF Inv, MainTypes
<1>10. Held'
  <2> SUFFICES ASSUME pc' \in Running, NEW n \in Names
               PROVE  /\ inputs'[n] = NULL <=> freelist'[n] = NULL
                      /\ inputs'[n] # NULL =>
                           /\ records'[inputs'[n]].name = n
                           /\ records'[inputs'[n]].library = freelist'[n]
                           /\ loaded'[records'[inputs'[n]].library] > 0
    BY DEF Held
  <2>1. freelist'[n] = IF n \in names THEN Current.library ELSE NULL
    BY <1>3 DEF Relisted, Running
  <2> QED BY <1>1, <1>4, <1>6, <2>1
<1>11. ASSUME NEW r \in 1 .. Len(records)
       PROVE  /\ ~ Live(r)' /\ (Shadowed(r)' <=> Shadowed(r))
              /\ records'[r].deletedBy = <<>> <=> Shadowed(r)
  <2>1. records[r] \in RecordType
    BY DEF Inv, MainTypes
  <2>2. \A s \in 1 .. Len(records) :
          records'[s].name = records[s].name /\ records'[s].made = records[s].made
    <3> TAKE s \in 1 .. Len(records)
    <3>1. records[s] \in RecordType
      BY DEF Inv, MainTypes
    <3>2. CASE Live(s)
      <4>1. records'[s] = [records[s] EXCEPT !.deletedBy = <<records[s].library>>]
        BY <1>4, <3>2
      <4> QED BY <3>1, <4>1 DEF RecordType
    <3>3. CASE ~ Live(s)
      BY <1>4, <3>3
    <3> QED BY <3>2, <3>3
  <2>3. Shadowed(r)' <=> Shadowed(r)
    BY <1>4, <2>2 DEF Shadowed
  <2>4. ~ Live(r)'
    <3>1. records'[r].name \in Names
      BY <2>1, <2>2 DEF RecordType
    <3> QED BY <1>4, <3>1, DriverAssumption DEF Live
  <2>5. /\ records[r].deletedBy = <<>> <=> Live(r) \/ Shadowed(r)
        /\ ~ (Live(r) /\ Shadowed(r))
    BY <1>2, <1>4 DEF Inv, MainTypes, Disposed, Running
  <2>6. CASE Live(r)
    <3>1. records'[r].deletedBy = <<records[r].library>>
      <4>1. records'[r] = [records[r] EXCEPT !.deletedBy = <<records[r].library>>]
        BY <1>4, <2>6
      <4> QED BY <2>1, <4>1 DEF RecordType
    <3> QED BY <2>3, <2>4, <2>5, <2>6, <3>1
  <2>7. CASE ~ Live(r)
    <3>1. records'[r] = records[r]
      BY <1>4, <2>7
    <3> QED BY <2>3, <2>4, <2>5, <2>7, <3>1
  <2> QED BY <2>6, <2>7
<1>12. Disposed'
  <2> SUFFICES ASSUME NEW r \in 1 .. Len(records')
               PROVE  /\ records'[r].deletedBy = <<>> <=> Live(r)' \/ Shadowed(r)'
                      /\ ~ (Live(r)' /\ Shadowed(r)')
    BY <1>3, <1>4 DEF Disposed, Running
  <2>1. CASE r \in 1 .. Len(records)
    BY <1>11, <2>1
  <2>2. CASE r \in Len(records) + 1 .. Len(records')
    BY <1>4, <2>2 DEF Live, Shadowed
  <2> QED BY <1>4, <2>1, <2>2
<1>13. Destroyed' /\ Closed'
  BY <1>1, <1>2, <1>3 DEF Inv, Destroyed, Closed
<1> QED BY <1>3, <1>5, <1>6, <1>9, <1>10, <1>12, <1>13 DEF Inv, Running, Parsing

-----------------------------------------------------------------------------
(* The outputs, and the ends of the loops. *)
LEMMA SameHandles ==
  ASSUME Inv, pc \in Running, pc' \in Running \cup {"libraries"}, pc = "inputs" => pc' = "inputs",
         pc' = "inputs" => pc = "inputs" /\ at' = at,
         UNCHANGED <<loaded, process, parserList, conversion>>
  PROVE  Handles'
<1>1. Inputs' = Inputs
  BY DEF Inputs
<1>2. \A l \in Libraries : /\ InputsOf(l)' = InputsOf(l) /\ ListedOf(l)' = ListedOf(l)
                           /\ ProcessesOf(l)' = ProcessesOf(l)
  BY <1>1 DEF InputsOf, ListedOf, ProcessesOf
<1> QED BY <1>2 DEF Inv, Handles

LEMMA OutputKeeps ==
  ASSUME Inv, SkipOutput \/ WriteOutput
  PROVE  Inv'
<1>1. /\ AtStream("outputs") /\ inputs # Empty /\ Passed
      /\ UNCHANGED <<pc, lineVars, parserVars, loaded, records, inputs, freelist, parserList, process>>
      /\ \/ Current.library = NULL /\ destroyed' = destroyed
         \/ Current.library # NULL /\ destroyed' = destroyed \cup {<<pc, at + 1>>}
  BY DEF SkipOutput, WriteOutput
<1>2. /\ pc = "outputs" /\ pc' = "outputs" /\ at \in Nat /\ at + 1 \in 1 .. Len(conversion.outputs)
      /\ Current = conversion.outputs[at + 1] /\ at' = at + 1 /\ conversion' = conversion
      /\ conversion.outputs \in Seq(StreamType)
  BY <1>1, AtCurrent DEF Passed, parserVars, Inv, Reading
<1>3. Reading'
  BY <1>1, <1>2, MainReads DEF Inv, Parsing
<1>4. MainTypes'
  BY <1>1, <1>2 DEF Inv, MainTypes
<1>5. Held' /\ Disposed'
  BY <1>1, <1>2, RecordsStay DEF Running, Inv, MainTypes
<1>6. Handles'
  BY <1>1, <1>2, SameHandles DEF Running
<1>7. Destroyed'
  <2>1. Outputs' = Outputs
    BY <1>1, <1>2 DEF Outputs
  <2>2. destroyed = {<<"outputs", j>> : j \in {i \in Outputs : i <= at}}
    BY <1>2 DEF Inv, Destroyed
  <2>3. Outputs = {j \in 1 .. Len(conversion.outputs) : conversion.outputs[j].library # NULL}
    BY <1>1, <1>2 DEF Outputs
  <2>4. CASE Current.library = NULL
    <3>1. {i \in Outputs : i <= at + 1} = {i \in Outputs : i <= at}
      BY <1>2, <2>3, <2>4
    <3>2. destroyed' = destroyed
      BY <1>1, <2>4
    <3> QED BY <1>1, <1>2, <2>1, <2>2, <3>1, <3>2 DEF Destroyed
  <2>5. CASE Current.library # NULL
    <3>1. {i \in Outputs : i <= at + 1} = {i \in Outputs : i <= at} \cup {at + 1}
      BY <1>2, <2>3, <2>5
    <3>2. destroyed' = destroyed \cup {<<"outputs", at + 1>>}
      BY <1>1, <1>2, <2>5
    <3>3. destroyed' = {<<"outputs", j>> : j \in {i \in Outputs : i <= at + 1}}
      BY <2>2, <3>1, <3>2
    <3> QED BY <1>1, <1>2, <2>1, <3>3 DEF Destroyed
  <2> QED BY <2>4, <2>5
<1>8. Closed'
  BY <1>2 DEF Closed
<1> QED BY <1>2, <1>3, <1>4, <1>5, <1>6, <1>7, <1>8 DEF Inv, Running, Parsing

LEMMA EndLoopKeeps ==
  ASSUME Inv, EndLoop
  PROVE  Inv'
<1>1. /\ pc \in {"inputs", "process", "outputs"}
      /\ at = Len(conversion[pc]) \/ (pc = "outputs" /\ inputs = Empty)
      /\ pc' = CASE pc = "inputs" -> "process" [] pc = "process" -> "outputs" [] OTHER -> "records"
      /\ at' = 0
      /\ UNCHANGED <<lineVars, parserVars, destroyed, loaded, records, inputs, freelist,
                     parserList, process>>
  BY DEF EndLoop
<1>2. /\ conversion' = conversion
      /\ \/ pc = "inputs" /\ pc' = "process" /\ at = Len(conversion.inputs)
         \/ pc = "process" /\ pc' = "outputs"
         \/ pc = "outputs" /\ pc' = "records"
              /\ (at = Len(conversion.outputs) \/ inputs = Empty)
  BY <1>1 DEF parserVars
<1>3. conversion' \in [inputs : Seq(StreamType), process : Seq(StreamType), outputs : Seq(StreamType)]
  BY <1>2 DEF Inv, Reading
<1>4. Reading'
  BY <1>1, <1>2, MainReads DEF Inv, Parsing
<1>5. MainTypes'
  <2>1. at' \in Nat /\ (pc' \in {"inputs", "process", "outputs"} => at' <= Len(conversion'[pc']))
    <3>1. CASE pc' = "process"
      BY <1>1, <1>3, <3>1
    <3>2. CASE pc' = "outputs"
      BY <1>1, <1>3, <3>2
    <3>3. CASE pc' = "records"
      BY <1>1, <3>3
    <3> QED BY <1>2, <3>1, <3>2, <3>3
  <2> QED BY <1>1, <2>1 DEF Inv, MainTypes
<1>6. Held' /\ Disposed'
  BY <1>1, <1>2, RecordsStay DEF Running, Inv, MainTypes
<1>7. Handles'
  <2>1. Inputs' = Inputs
    BY <1>2 DEF Inputs
  <2>2. \A l \in Libraries : /\ InputsOf(l)' = InputsOf(l) /\ ListedOf(l)' = ListedOf(l)
                             /\ ProcessesOf(l)' = ProcessesOf(l)
    BY <1>1, <1>2, <2>1 DEF InputsOf, ListedOf, ProcessesOf
  <2> QED BY <1>1, <2>2 DEF Inv, Handles, Running
<1>8. Destroyed'
  <2>1. Outputs' = Outputs
    BY <1>1, <1>2 DEF Outputs
  <2>2. CASE pc = "inputs" \/ pc = "process"
    <3>1. destroyed' = {}
      BY <1>1, <2>2 DEF Inv, Destroyed
    <3>2. {i \in Outputs : i <= 0} = {}
      BY <1>3, <1>2 DEF Outputs
    <3>3. destroyed' = {<<"outputs", j>> : j \in {i \in Outputs : i <= 0}}
      BY <3>1, <3>2
    <3> QED BY <1>1, <1>2, <2>1, <2>2, <3>1, <3>3 DEF Destroyed
  <2>3. CASE pc = "outputs"
    <3>1. destroyed = {<<"outputs", j>> : j \in {i \in Outputs : i <= at}}
      BY <2>3 DEF Inv, Destroyed
    <3>2. {i \in Outputs : i <= at} = Outputs
      <4>1. CASE at = Len(conversion.outputs)
        BY <1>2, <1>3, <4>1 DEF Outputs
      <4>2. CASE inputs = Empty
        BY <4>2 DEF Outputs
      <4> QED BY <1>2, <2>3, <4>1, <4>2
    <3> QED BY <1>1, <1>2, <2>1, <2>3, <3>1, <3>2 DEF Destroyed
  <2> QED BY <1>1, <2>2, <2>3
<1>9. Closed'
  BY <1>2 DEF Closed
<1> QED BY <1>2, <1>4, <1>5, <1>6, <1>7, <1>8, <1>9 DEF Inv, Running, Parsing

LEMMA CannotLoadKeeps ==
  ASSUME Inv, CannotLoad
  PROVE  Inv'
<1>1. /\ pc' = "exited"
      /\ UNCHANGED <<lineVars, parserVars, at, destroyed, loaded, records, inputs, freelist,
                     parserList, process>>
  BY DEF CannotLoad, mainVars
<1>2. Reading'
  BY <1>1, MainReads DEF Inv, Parsing
<1>3. MainTypes'
  BY <1>1 DEF Inv, MainTypes
<1>4. Handles' /\ Held' /\ Disposed' /\ Destroyed' /\ Closed'
  BY <1>1 DEF Handles, Held, Disposed, Destroyed, Closed, Running
<1> QED BY <1>1, <1>2, <1>3, <1>4 DEF Inv, Parsing

-----------------------------------------------------------------------------
(* The end of main. *)
LEMMA DeleteRecordsKeeps ==
  ASSUME Inv, DeleteRecords
  PROVE  Inv'
<1>1. /\ pc = "records" /\ pc' = "libraries" /\ records' = Deleted(records, KeysOf(inputs))
      /\ UNCHANGED <<lineVars, parserVars, at, destroyed, loaded, inputs, freelist, parserList, process>>
  BY DEF DeleteRecords
<1>2. /\ records' \in Seq(RecordType) /\ Len(records') = Len(records)
      /\ \A r \in 1 .. Len(records) :
           /\ Live(r) => records'[r] = [records[r] EXCEPT !.deletedBy = <<records[r].library>>]
           /\ ~ Live(r) => records'[r] = records[r]
  BY <1>1, DeletedLive DEF Running
<1>3. records \in Seq(RecordType) /\ Len(records) \in Nat
  BY DEF Inv, MainTypes
<1>4. Reading'
  BY <1>1, MainReads DEF Inv, Parsing
<1>5. MainTypes'
  BY <1>1, <1>2 DEF Inv, MainTypes
<1>6. Handles'
  BY <1>1, SameHandles DEF Running, parserVars
<1>7. ASSUME NEW r \in 1 .. Len(records)
      PROVE  records'[r].name = records[r].name /\ records'[r].made = records[r].made
  <2>1. records[r] \in RecordType
    BY <1>3
  <2>2. CASE Live(r)
    <3>1. records'[r] = [records[r] EXCEPT !.deletedBy = <<records[r].library>>]
      BY <1>2, <2>2
    <3> QED BY <2>1, <3>1 DEF RecordType
  <2>3. CASE ~ Live(r)
    BY <1>2, <2>3
  <2> QED BY <2>2, <2>3
<1>8. Disposed'
  <2> SUFFICES ASSUME NEW r \in 1 .. Len(records)
               PROVE  records'[r].deletedBy = <<>> <=> Shadowed(r)'
    BY <1>1, <1>2 DEF Disposed, Running
  <2>1. Shadowed(r)' <=> Shadowed(r)
    BY <1>3, <1>7 DEF Shadowed
  <2>2. /\ records[r].deletedBy = <<>> <=> Live(r) \/ Shadowed(r)
        /\ ~ (Live(r) /\ Shadowed(r)) /\ records[r] \in RecordType
    BY <1>1, <1>3 DEF Inv, Disposed, Running
  <2>3. CASE Live(r)
    <3>1. records'[r] = [records[r] EXCEPT !.deletedBy = <<records[r].library>>]
      BY <1>2, <2>3
    <3>2. records'[r].deletedBy = <<records[r].library>>
      BY <2>2, <3>1 DEF RecordType
    <3> QED BY <2>1, <2>2, <2>3, <3>2
  <2>4. CASE ~ Live(r)
    <3>1. records'[r] = records[r]
      BY <1>2, <2>4
    <3> QED BY <2>1, <2>2, <2>4, <3>1
  <2> QED BY <2>3, <2>4
<1>9. Destroyed'
  <2>1. Outputs' = Outputs
    BY <1>1 DEF Outputs, parserVars
  <2> QED BY <1>1, <2>1 DEF Inv, Destroyed
<1>10. Held' /\ Closed'
  BY <1>1 DEF Held, Closed, Running
<1> QED BY <1>1, <1>4, <1>5, <1>6, <1>8, <1>9, <1>10 DEF Inv, Parsing

LEMMA CloseLibrariesKeeps ==
  ASSUME Inv, CloseLibraries
  PROVE  Inv'
<1>1. /\ pc = "libraries" /\ pc' = "descriptors"
      /\ loaded' = Close(process, Close(parserList, loaded))
      /\ UNCHANGED <<lineVars, parserVars, at, destroyed, records, inputs, freelist, parserList, process>>
  BY DEF CloseLibraries
<1>2. /\ parserList \in [Names -> Libraries \cup {NULL}] /\ loaded \in [Libraries -> Nat]
      /\ DOMAIN parserList = Names
  BY DEF Inv, MainTypes
<1>3. conversion' = conversion
  BY <1>1 DEF parserVars
<1>4. ASSUME NEW l \in Libraries
      PROVE  /\ loaded'[l] = loaded[l] - Cardinality(ListedOf(l)) - Cardinality(ProcessesOf(l))
             /\ loaded'[l] + Cardinality(ListedOf(l)) = Cardinality(InputsOf(l))
             /\ loaded'[l] \in Nat
  <2>1. Close(parserList, loaded)[l] = loaded[l] - Cardinality(ListedOf(l))
    BY <1>2 DEF Close, ListedOf
  <2>2. loaded'[l] = Close(parserList, loaded)[l] - Cardinality(ProcessesOf(l))
    BY <1>1 DEF Close, ProcessesOf
  <2>3. /\ Cardinality(InputsOf(l)) \in Nat /\ Cardinality(ProcessesOf(l)) \in Nat
        /\ Cardinality(ListedOf(l)) \in Nat
    BY Counts
  <2>4. /\ loaded[l] = Cardinality(InputsOf(l)) + Cardinality(ProcessesOf(l))
        /\ Cardinality(ListedOf(l)) <= Cardinality(InputsOf(l))
    BY <1>1 DEF Inv, Handles
  <2> QED BY <2>1, <2>2, <2>3, <2>4
<1>5. loaded' \in [Libraries -> Nat]
  <2>1. loaded' = [l \in Libraries |-> loaded'[l]]
    BY <1>1 DEF Close
  <2> QED BY <1>4, <2>1
<1>6. Reading'
  BY <1>1, MainReads DEF Inv, Parsing
<1>7. MainTypes'
  BY <1>1, <1>5 DEF Inv, MainTypes
<1>8. Closed'
  <2> SUFFICES ASSUME NEW l \in Libraries
               PROVE  loaded'[l] + Cardinality(ListedOf(l)') = Cardinality(InputsOf(l)')
    BY DEF Closed
  <2>1. InputsOf(l)' = InputsOf(l) /\ ListedOf(l)' = ListedOf(l)
    BY <1>1, <1>3 DEF InputsOf, ListedOf, Inputs
  <2> QED BY <1>4, <2>1
<1>9. Disposed'
  BY <1>1 DEF Inv, Disposed, Running, Shadowed
<1>10. Destroyed'
  <2>1. Outputs' = Outputs
    BY <1>1, <1>3 DEF Outputs
  <2> QED BY <1>1, <2>1 DEF Inv, Destroyed
<1>11. Held' /\ Handles'
  BY <1>1 DEF Held, Handles, Running
<1> QED BY <1>1, <1>6, <1>7, <1>8, <1>9, <1>10, <1>11 DEF Inv, Parsing

LEMMA DestroyInputsKeeps ==
  ASSUME Inv, DestroyInputs
  PROVE  Inv'
<1>1. /\ pc = "descriptors" /\ pc' = "returned"
      /\ destroyed' = destroyed \cup {<<"inputs", i>> : i \in DOMAIN conversion.inputs}
      /\ UNCHANGED <<lineVars, parserVars, at, loaded, records, inputs, freelist, parserList, process>>
  BY DEF DestroyInputs
<1>2. conversion' = conversion
  BY <1>1 DEF parserVars
<1>3. Reading'
  BY <1>1, MainReads DEF Inv, Parsing
<1>4. MainTypes'
  BY <1>1 DEF Inv, MainTypes
<1>5. Closed'
  <2>1. \A l \in Libraries : InputsOf(l)' = InputsOf(l) /\ ListedOf(l)' = ListedOf(l)
    BY <1>1, <1>2 DEF InputsOf, ListedOf, Inputs
  <2> QED BY <1>1, <2>1 DEF Inv, Closed
<1>6. Destroyed'
  <2>1. Outputs' = Outputs
    BY <1>1, <1>2 DEF Outputs
  <2> QED BY <1>1, <1>2, <2>1 DEF Inv, Destroyed
<1>7. Disposed'
  BY <1>1 DEF Inv, Disposed, Running, Shadowed
<1>8. Held' /\ Handles'
  BY <1>1 DEF Held, Handles, Running
<1> QED BY <1>1, <1>3, <1>4, <1>5, <1>6, <1>7, <1>8 DEF Inv, Parsing

(* The steps of the parser leave main as it started. *)
LEMMA ParserKeeps ==
  ASSUME Inv, Parse, UNCHANGED mainVars
  PROVE  Inv'
<1>1. /\ Reading' /\ pc \in Parsing
      /\ pc' \in Parsing \cup {"exited"} \/ (pc' = "inputs" /\ UNCHANGED conversion)
  BY ParseKeeps DEF Inv
<1>2. /\ Untouched /\ MainTypes
      /\ UNCHANGED <<at, destroyed, loaded, records, inputs, freelist, parserList, process, dumped>>
  BY <1>1 DEF Inv, mainVars
<1>3. Untouched'
  BY <1>2 DEF Untouched
<1>4. MainTypes'
  <2>1. pc' \in {"inputs", "process", "outputs"} => pc' = "inputs" /\ at' = 0 /\ conversion'.inputs \in Seq(StreamType)
    BY <1>1, <1>2 DEF Untouched, Parsing, Reading
  <2>2. pc' \in {"inputs", "process", "outputs"} => at' <= Len(conversion'[pc'])
    BY <2>1
  <2> QED BY <1>2, <2>2 DEF MainTypes
<1>5. CASE pc' \in Parsing \cup {"exited"}
  <2>1. Handles' /\ Held' /\ Disposed' /\ Destroyed' /\ Closed'
    BY <1>5 DEF Parsing, Handles, Held, Disposed, Destroyed, Closed, Running
  <2> QED BY <1>1, <1>3, <1>4, <1>5, <2>1 DEF Inv
<1>6. CASE pc' = "inputs"
  <2>1. /\ at' = 0 /\ destroyed' = {} /\ records' = <<>> /\ process' = <<>>
        /\ inputs' = Empty /\ freelist' = Empty /\ parserList' = Empty
        /\ loaded' = [l \in Libraries |-> 0]
    BY <1>3 DEF Untouched
  <2>2. Handles'
    <3> SUFFICES ASSUME NEW l \in Libraries
                 PROVE  /\ loaded'[l] = Cardinality(InputsOf(l)') + Cardinality(ProcessesOf(l)')
                        /\ Cardinality(ListedOf(l)') <= Cardinality(InputsOf(l)')
      BY DEF Handles
    <3>1. InputsOf(l)' = {}
      BY <1>6, <2>1 DEF InputsOf, Inputs
    <3>2. ProcessesOf(l)' = {}
      BY <2>1 DEF ProcessesOf
    <3>3. ListedOf(l)' = {}
      BY <2>1, DriverAssumption DEF ListedOf, Empty
    <3>4. loaded'[l] = 0
      BY <2>1
    <3> QED BY <3>1, <3>2, <3>3, <3>4, FS_EmptySet
  <2>3. Held'
    BY <2>1 DEF Held, Empty
  <2>4. Disposed'
    BY <1>6, <2>1 DEF Disposed, Running
  <2>5. Destroyed' /\ Closed'
    BY <1>6, <2>1 DEF Destroyed, Closed
  <2> QED BY <1>1, <1>4, <1>6, <2>2, <2>3, <2>4, <2>5 DEF Inv, Running, Parsing
<1> QED BY <1>1, <1>5, <1>6

-----------------------------------------------------------------------------
LEMMA InitInv ==
  ASSUME Init
  PROVE  Inv
<1>1. /\ pc = "main" /\ argv = 1 /\ here = 1 /\ parsed = 0 /\ depth = 0 /\ kind = NULL
      /\ stream = NewStream /\ conversion = NoStreams /\ \E l \in CommandLines : line = l.words
  BY DEF Init, InitArguments
<1>2. line \in Seq(STRING) /\ Len(line) \in Nat
  BY <1>1, LineAssumption
<1>3. conversion \in [inputs : Seq(StreamType), process : Seq(StreamType), outputs : Seq(StreamType)]
  BY <1>1 DEF NoStreams
<1>4. Reading
  BY <1>1, <1>2, <1>3, NewStreamType DEF Reading
<1>5. Untouched /\ MainTypes
  BY <1>1 DEF Init, Untouched, MainTypes, Empty
<1>6. Handles /\ Held /\ Disposed /\ Destroyed /\ Closed
  BY <1>1 DEF Handles, Held, Disposed, Destroyed, Closed, Running
<1> QED BY <1>1, <1>4, <1>5, <1>6 DEF Inv, Parsing

LEMMA NextInv ==
  ASSUME Inv, [Next]_vars
  PROVE  Inv'
<1>1. CASE Parse /\ UNCHANGED mainVars
  BY <1>1, ParserKeeps
<1>2. CASE CannotLoad
  BY <1>2, CannotLoadKeeps
<1>3. CASE SkipInput \/ ReadNothing
  BY <1>3, SkipInputKeeps
<1>4. CASE ReadRecord
  BY <1>4, ReadRecordKeeps
<1>5. CASE RunProcess
  BY <1>5, RunProcessKeeps
<1>6. CASE SkipOutput \/ WriteOutput
  BY <1>6, OutputKeeps
<1>7. CASE EndLoop
  BY <1>7, EndLoopKeeps
<1>8. CASE DeleteRecords
  BY <1>8, DeleteRecordsKeeps
<1>9. CASE CloseLibraries
  BY <1>9, CloseLibrariesKeeps
<1>10. CASE DestroyInputs
  BY <1>10, DestroyInputsKeeps
<1>11. CASE UNCHANGED vars
  <2>1. UNCHANGED <<pc, line, argv, here, parsed, depth, kind, stream, conversion, at, destroyed,
                    loaded, records, inputs, freelist, parserList, process, dumped>>
    BY <1>11 DEF vars, lineVars, parserVars, mainVars
  <2>2. Reading' /\ Untouched' = Untouched /\ MainTypes'
    BY <2>1 DEF Inv, Reading, Untouched, MainTypes
  <2>3. \A l \in Libraries : /\ InputsOf(l)' = InputsOf(l) /\ ListedOf(l)' = ListedOf(l)
                             /\ ProcessesOf(l)' = ProcessesOf(l)
    BY <2>1 DEF InputsOf, ListedOf, ProcessesOf, Inputs
  <2>4. Handles' /\ Closed'
    BY <2>1, <2>3 DEF Inv, Handles, Closed
  <2>5. Outputs' = Outputs
    BY <2>1 DEF Outputs
  <2>6. Held' /\ Disposed' /\ Destroyed'
    BY <2>1, <2>5 DEF Inv, Held, Disposed, Destroyed, Live, Shadowed
  <2> QED BY <2>1, <2>2, <2>4, <2>6 DEF Inv
<1> QED BY <1>1, <1>2, <1>3, <1>4, <1>5, <1>6, <1>7, <1>8, <1>9, <1>10, <1>11 DEF Next, Main

THEOREM Invariance == Spec => []Inv
<1> QED BY InitInv, NextInv, PTL DEF Spec

-----------------------------------------------------------------------------
(* The memory of the descriptors: what each has or leaves, and, while the  *)
(* parser is in a stream, what that one has.                               *)
Part(d) == IF d \in destroyed THEN Leftovers(d, StreamOf(d)) ELSE Allocated(d, StreamOf(d))
Kept == UNION {Part(d) : d \in Descriptors}
MemoryOK ==
  /\ pc \in {"stream", "list"} => memory = Kept \cup Allocated(Descriptor(kind), stream)
  /\ pc \notin {"stream", "list", "crashed", "exited"} => memory = Kept

LEMMA BlocksAre ==
  ASSUME NEW d, NEW s \in StreamType
  PROVE  /\ \A b \in Allocated(d, s) : b[1] = d
         /\ \A b \in Released(d, s) : b[1] = d
         /\ \A b \in Leftovers(d, s) : b[1] = d
         /\ Leftovers(d, s) = Allocated(d, s) \ Released(d, s)
<1>1. s.copies \in [Copied -> Nat] /\ Copied = {"library", "name", "filename"}
  BY DEF StreamType, Copied
<1>2. \A b \in Allocated(d, s) : b[1] = d
  BY DEF Allocated
<1>3. \A b \in Released(d, s) : b[1] = d
  BY DEF Released
<1>4. \A b \in Leftovers(d, s) : b[1] = d
  BY DEF Leftovers
<1>5. ASSUME NEW b PROVE b \in Leftovers(d, s) <=> b \in Allocated(d, s) /\ b \notin Released(d, s)
  <2>1. CASE \E n \in 1 .. Len(s.argv) : b = <<d, "argument", n>>
    BY <1>1, <2>1 DEF Leftovers, Allocated, Released
  <2>2. CASE b = <<d, "argv", 1>>
    BY <1>1, <2>2 DEF Leftovers, Allocated, Released
  <2>3. ASSUME NEW f \in Copied, NEW n \in Nat, b = <<d, f, n>>
        PROVE  b \in Leftovers(d, s) <=> b \in Allocated(d, s) /\ b \notin Released(d, s)
    <3>1. f # "argv" /\ f # "argument" /\ s.copies[f] \in Nat
      BY <1>1
    <3>2. b \in Leftovers(d, s) <=> n \in 1 .. s.copies[f] - 1
      BY <2>3, <3>1 DEF Leftovers
    <3>3. b \in Allocated(d, s) <=> n \in 1 .. s.copies[f]
      BY <2>3, <3>1 DEF Allocated
    <3>4. b \in Released(d, s) <=> s.copies[f] > 0 /\ n = s.copies[f]
      BY <2>3, <3>1 DEF Released
    <3> QED BY <3>1, <3>2, <3>3, <3>4
  <2>4. CASE /\ ~ \E n \in 1 .. Len(s.argv) : b = <<d, "argument", n>>
             /\ b # <<d, "argv", 1>>
             /\ ~ \E f \in Copied : \E n \in Nat : b = <<d, f, n>>
    <3>1. \A f \in Copied : \A n \in 1 .. s.copies[f] : n \in Nat
      BY <1>1
    <3>2. b \notin Allocated(d, s)
      BY <2>4, <3>1 DEF Allocated
    <3>3. \A f \in Copied : \A n \in 1 .. s.copies[f] - 1 : n \in Nat
      BY <1>1
    <3>4. b \notin Leftovers(d, s)
      BY <2>4, <3>3 DEF Leftovers
    <3> QED BY <3>2, <3>4
  <2> QED BY <2>1, <2>2, <2>3, <2>4
<1>6. Leftovers(d, s) = Allocated(d, s) \ Released(d, s)
  BY <1>5
<1> QED BY <1>2, <1>3, <1>4, <1>6

(* A stream only allocates more while it is parsed. *)
LEMMA AllocatesMore ==
  ASSUME NEW d, NEW s \in StreamType, NEW t \in StreamType,
         Len(s.argv) <= Len(t.argv), \A f \in Copied : s.copies[f] <= t.copies[f]
  PROVE  Allocated(d, s) \subseteq Allocated(d, t)
<1>1. /\ s.copies \in [Copied -> Nat] /\ t.copies \in [Copied -> Nat]
      /\ Len(s.argv) \in Nat /\ Len(t.argv) \in Nat
  BY DEF StreamType
<1>2. 1 .. Len(s.argv) \subseteq 1 .. Len(t.argv)
  BY <1>1
<1>3. \A f \in Copied : 1 .. s.copies[f] \subseteq 1 .. t.copies[f]
  BY <1>1
<1> QED BY <1>2, <1>3 DEF Allocated

LEMMA OptionAllocates ==
  ASSUME NEW d, NEW s \in StreamType, NEW option \in TakesValue, NEW value,
         SetOption(s, option, value) \in StreamType
  PROVE  Allocated(d, s) \subseteq Allocated(d, SetOption(s, option, value))
<1> DEFINE t == SetOption(s, option, value)
<1>1. s.copies \in [Copied -> Nat] /\ Copied = {"library", "name", "filename"} /\ Len(s.argv) \in Nat
  BY DEF StreamType, Copied
<1>2. \E g \in Copied : t.argv = s.argv /\ t.copies = [s.copies EXCEPT ![g] = @ + 1]
  <2>1. CASE option \in {"--library", "-l"}
    <3>1. t = [s EXCEPT !.library = <<value>>, !.copies.library = @ + 1]
      BY <2>1 DEF SetOption
    <3> QED BY <1>1, <3>1 DEF StreamType
  <2>2. CASE option \in {"--lib", "-m"}
    <3>1. t = [s EXCEPT !.library = <<"libpelib-", value, ".so">>, !.copies.library = @ + 1]
      BY <2>2 DEF SetOption
    <3> QED BY <1>1, <3>1 DEF StreamType
  <2>3. CASE option \in {"--name", "-n"}
    <3>1. t = [s EXCEPT !.name = value, !.copies.name = @ + 1]
      BY <2>3 DEF SetOption
    <3> QED BY <1>1, <3>1 DEF StreamType
  <2>4. CASE option \in {"--file", "-f"}
    <3>1. t = [s EXCEPT !.filename = value, !.stream = "FILE", !.copies.filename = @ + 1]
      BY <2>4 DEF SetOption
    <3> QED BY <1>1, <3>1 DEF StreamType
  <2> QED BY <2>1, <2>2, <2>3, <2>4 DEF TakesValue
<1> HIDE DEF t
<1>3. Len(s.argv) <= Len(t.argv) /\ \A f \in Copied : s.copies[f] <= t.copies[f]
  BY <1>1, <1>2
<1>4. t \in StreamType
  BY DEF t
<1> QED BY <1>3, <1>4, AllocatesMore DEF t

LEMMA ArgumentAllocates ==
  ASSUME NEW d, NEW s \in StreamType, NEW word \in STRING
  PROVE  Allocated(d, s) \subseteq Allocated(d, AddArgument(s, word))
<1> DEFINE t == AddArgument(s, word)
<1>1. t \in StreamType
  BY ArgumentType
<1>2. t.argv = Append(s.argv, word) /\ t.copies = s.copies /\ s.argv \in Seq(STRING)
  BY DEF AddArgument, StreamType
<1>3. Len(t.argv) = Len(s.argv) + 1 /\ Len(s.argv) \in Nat
  BY <1>2
<1>4. s.copies \in [Copied -> Nat]
  BY DEF StreamType
<1> HIDE DEF t
<1>5. Len(s.argv) <= Len(t.argv) /\ \A f \in Copied : s.copies[f] <= t.copies[f]
  BY <1>2, <1>3, <1>4
<1> QED BY <1>1, <1>5, AllocatesMore DEF t

(* While main has destroyed nothing, and reads no further stream. *)
LEMMA KeptStays ==
  ASSUME UNCHANGED <<conversion, destroyed>>
  PROVE  Kept' = Kept
  BY DEF Kept, Part, Descriptors, StreamOf

LEMMA StreamAdded ==
  ASSUME Reading, destroyed = {}, destroyed' = {}, kind \in {"inputs", "process", "outputs"},
         conversion' = [conversion EXCEPT ![kind] = Append(@, stream)]
  PROVE  Kept' = Kept \cup Allocated(Descriptor(kind), stream)
<1> DEFINE size == Len(conversion[kind])
<1>0. PICK new : new = <<kind, size + 1>>
  OBVIOUS
<1>1. /\ conversion \in [inputs : Seq(StreamType), process : Seq(StreamType), outputs : Seq(StreamType)]
      /\ stream \in StreamType
  BY DEF Reading
<1>2. /\ conversion[kind] \in Seq(StreamType) /\ size \in Nat
      /\ DOMAIN conversion = {"inputs", "process", "outputs"} /\ DOMAIN conversion' = DOMAIN conversion
      /\ \A k \in DOMAIN conversion : DOMAIN conversion[k] = 1 .. Len(conversion[k])
  BY <1>1
<1>3. /\ \A k \in DOMAIN conversion : k # kind => conversion'[k] = conversion[k]
      /\ conversion'[kind] = Append(conversion[kind], stream)
  BY <1>2
<1>4. DOMAIN conversion'[kind] = 1 .. size + 1 /\ conversion'[kind][size + 1] = stream
      /\ \A i \in 1 .. size : conversion'[kind][i] = conversion[kind][i]
  BY <1>2, <1>3
<1>5. ASSUME NEW k, NEW i PROVE <<k, i>> \in Descriptors' <=> <<k, i>> \in Descriptors \/ <<k, i>> = new
  <2>1. <<k, i>> \in Descriptors <=> k \in DOMAIN conversion /\ i \in DOMAIN conversion[k]
    BY DEF Descriptors
  <2>2. <<k, i>> \in Descriptors' <=> k \in DOMAIN conversion' /\ i \in DOMAIN conversion'[k]
    BY DEF Descriptors
  <2>3. CASE k = kind
    BY <1>0, <1>2, <1>4, <2>1, <2>2, <2>3
  <2>4. CASE k # kind
    BY <1>0, <1>2, <1>3, <2>1, <2>2, <2>4
  <2> QED BY <2>3, <2>4
<1>6. Descriptors' = Descriptors \cup {new}
  <2>1. \A d \in Descriptors : d = <<d[1], d[2]>>
    BY DEF Descriptors
  <2>2. \A d \in Descriptors' : d = <<d[1], d[2]>>
    BY DEF Descriptors
  <2>3. \A d \in Descriptors' : d \in Descriptors \/ d = new
    BY <1>5, <2>2
  <2>4. \A d \in Descriptors : d \in Descriptors'
    BY <1>5, <2>1
  <2>5. new \in Descriptors'
    BY <1>0, <1>5
  <2> QED BY <2>3, <2>4, <2>5
<1>7. Part(new)' = Allocated(new, stream)
  BY <1>0, <1>4 DEF Part, StreamOf
<1>8. ASSUME NEW d \in Descriptors PROVE Part(d)' = Part(d)
  <2>1. d[1] \in DOMAIN conversion /\ d[2] \in DOMAIN conversion[d[1]]
    BY DEF Descriptors
  <2>2. conversion'[d[1]][d[2]] = conversion[d[1]][d[2]]
    BY <1>2, <1>3, <1>4, <2>1
  <2>3. Part(d) = Allocated(d, conversion[d[1]][d[2]])
    BY DEF Part, StreamOf
  <2>4. Part(d)' = Allocated(d, conversion'[d[1]][d[2]])
    BY DEF Part, StreamOf
  <2> QED BY <2>2, <2>3, <2>4, Zenon
<1> QED BY <1>0, <1>6, <1>7, <1>8 DEF Kept, Descriptor

(* Main destroys descriptors that it had not destroyed. *)
LEMMA DestroyedNow ==
  ASSUME Inv, UNCHANGED conversion, NEW D \in SUBSET Descriptors, destroyed' = destroyed \cup D,
         D \cap destroyed = {}, memory = Kept,
         memory' = memory \ UNION {Released(d, StreamOf(d)) : d \in D}
  PROVE  memory' = Kept'
<1>1. Descriptors' = Descriptors /\ \A d : StreamOf(d)' = StreamOf(d)
  BY DEF Descriptors, StreamOf
<1>2. \A d \in Descriptors : StreamOf(d) \in StreamType
  <2>1. conversion \in [inputs : Seq(StreamType), process : Seq(StreamType), outputs : Seq(StreamType)]
    BY DEF Inv, Reading
  <2>2. \A k \in DOMAIN conversion : conversion[k] \in Seq(StreamType)
    BY <2>1
  <2>3. \A k \in DOMAIN conversion : \A i \in DOMAIN conversion[k] : conversion[k][i] \in StreamType
    BY <2>2
  <2> QED BY <2>3 DEF Descriptors, StreamOf
<1>3. ASSUME NEW d \in Descriptors
      PROVE  Part(d)' = IF d \in D THEN Part(d) \ Released(d, StreamOf(d)) ELSE Part(d)
  BY <1>1, <1>2, BlocksAre DEF Part
<1>4. /\ \A d \in Descriptors : \A b \in Part(d) : b[1] = d
      /\ \A d \in D : \A b \in Released(d, StreamOf(d)) : b[1] = d
  BY <1>2, BlocksAre DEF Part
<1>5. ASSUME NEW b PROVE b \in memory' <=> b \in Kept'
  <2>1. b \in Kept' <=> \E d \in Descriptors : b \in Part(d)'
    BY <1>1 DEF Kept
  <2>2. b \in memory' <=> /\ \E d \in Descriptors : b \in Part(d)
                          /\ \A d \in D : b \notin Released(d, StreamOf(d))
    BY DEF Kept
  <2>3. ASSUME NEW d \in Descriptors, b \in Part(d)'
        PROVE  b \in memory'
    <3>1. b \in Part(d) /\ (d \in D => b \notin Released(d, StreamOf(d)))
      BY <1>3, <2>3
    <3>2. \A e \in D : b \in Released(e, StreamOf(e)) => e = d
      BY <1>4, <3>1
    <3> QED BY <2>2, <3>1, <3>2
  <2>4. ASSUME NEW d \in Descriptors, b \in Part(d), b \in memory'
        PROVE  b \in Part(d)'
    BY <1>3, <2>2, <2>4
  <2> QED BY <2>1, <2>2, <2>3, <2>4
<1> QED BY <1>5

(* The steps of the parser that read words of a stream. *)
LEMMA ReadMemory ==
  ASSUME Reading, MemoryOK, pc \in {"stream", "list"}, pc' \in {"stream", "list"},
         NEW num, NEW filled, Read(num, filled), UNCHANGED destroyed,
         Allocated(Descriptor(kind), stream) \subseteq Allocated(Descriptor(kind), filled)
  PROVE  MemoryOK'
<1>1. /\ stream' = filled /\ memory' = memory \cup Allocated(Descriptor(kind), filled)
      /\ UNCHANGED <<kind, conversion>>
  BY DEF Read
<1>2. Kept' = Kept /\ Descriptor(kind)' = Descriptor(kind)
  BY <1>1, KeptStays DEF Descriptor
<1>3. Allocated(Descriptor(kind), stream)' = Allocated(Descriptor(kind), filled)
  BY <1>1, <1>2 DEF Allocated
<1>4. memory = Kept \cup Allocated(Descriptor(kind), stream)
  BY DEF MemoryOK
<1>5. memory' = Kept' \cup Allocated(Descriptor(kind), stream)'
  BY <1>1, <1>2, <1>3, <1>4
<1> QED BY <1>5 DEF MemoryOK

LEMMA ReturnMemory ==
  ASSUME Reading, MemoryOK, pc = "stream", NEW num, Return(num), destroyed = {}, UNCHANGED destroyed
  PROVE  MemoryOK'
<1>1. /\ conversion' = [conversion EXCEPT ![kind] = Append(@, stream)]
      /\ pc' = "main" /\ UNCHANGED memory
  BY DEF Return
<1>2. Kept' = Kept \cup Allocated(Descriptor(kind), stream)
  BY <1>1, StreamAdded DEF Reading
<1> QED BY <1>1, <1>2 DEF MemoryOK

LEMMA ParserMemory ==
  ASSUME Inv, MemoryOK, Parse, UNCHANGED mainVars
  PROVE  MemoryOK'
<1>0. Reading /\ destroyed = {} /\ UNCHANGED destroyed /\ Reading'
  BY ParseKeeps DEF Inv, Untouched, mainVars
<1>1. CASE BeginStream
  <2>1. /\ pc = "main" /\ pc' = "stream" /\ UNCHANGED conversion
        /\ memory' = memory \cup Allocated(Descriptor(kind'), stream')
    BY <1>1 DEF BeginStream
  <2>2. Kept' = Kept /\ Descriptor(kind)' = Descriptor(kind')
    BY <1>0, <2>1, KeptStays DEF Descriptor
  <2>3. Allocated(Descriptor(kind), stream)' = Allocated(Descriptor(kind'), stream')
    BY <2>2 DEF Allocated
  <2> QED BY <2>1, <2>2, <2>3 DEF MemoryOK
<1>2. CASE Seed \/ Sources \/ Ignore \/ EndArguments
  <2>1. pc = "main" /\ pc' \notin {"stream", "list"} /\ UNCHANGED <<conversion, memory>>
    BY <1>2 DEF Seed, Sources, Ignore, EndArguments, Crash, parserVars
  <2> QED BY <1>0, <2>1, KeptStays DEF MemoryOK
<1>3. CASE Option
  <2>1. pc = "stream" /\ Word(here) \in TakesValue
    BY <1>3 DEF Option
  <2>2. CASE IsReserved(Word(here + 1))
    <3>1. Return(parsed + 1)
      BY <1>3, <2>2 DEF Option
    <3> QED BY <1>0, <2>1, <3>1, ReturnMemory
  <2>3. CASE ~ IsReserved(Word(here + 1))
    <3> DEFINE filled == SetOption(stream, Word(here), Word(here + 1))
    <3>1. Read(2, filled) /\ pc' = "stream"
      BY <1>3, <2>1, <2>3 DEF Option
    <3>2. filled \in StreamType /\ stream \in StreamType
      BY <1>0, <3>1 DEF Reading, Read
    <3>3. Allocated(Descriptor(kind), stream) \subseteq Allocated(Descriptor(kind), filled)
      BY <2>1, <3>2, OptionAllocates
    <3> HIDE DEF filled
    <3> QED BY <1>0, <2>1, <3>1, <3>3, ReadMemory
  <2> QED BY <2>2, <2>3
<1>4. ASSUME NEW num, NEW filled, Read(num, filled), pc \in {"stream", "list"}, pc' \in {"stream", "list"},
             filled.argv = stream.argv, filled.copies = stream.copies
      PROVE  MemoryOK'
  <2>1. Allocated(Descriptor(kind), stream) \subseteq Allocated(Descriptor(kind), filled)
    BY <1>4 DEF Allocated
  <2> QED BY <1>0, <1>4, <2>1, ReadMemory
<1>5. ASSUME NEW num, NEW word, Read(num, AddArgument(stream, word)), word \in STRING,
             pc \in {"stream", "list"}, pc' \in {"stream", "list"}
      PROVE  MemoryOK'
  <2>1. stream \in StreamType
    BY <1>0 DEF Reading
  <2>2. Allocated(Descriptor(kind), stream) \subseteq Allocated(Descriptor(kind), AddArgument(stream, word))
    BY <1>5, <2>1, ArgumentAllocates
  <2> QED BY <1>0, <1>5, <2>2, ReadMemory
<1>6. \A i \in Nat \ {0} : Word(i) # NULL => Word(i) \in STRING
  BY <1>0, Words
<1>7. here \in Nat \ {0} /\ here + 1 \in Nat \ {0} /\ stream \in StreamType
  BY <1>0, Words DEF Reading
<1>8. CASE Flag
  <2>1. /\ pc = "stream" /\ pc' = "stream"
        /\ Read(1, [stream EXCEPT !.stream = Flags[Word(here)]])
    BY <1>8 DEF Flag
  <2> DEFINE filled == [stream EXCEPT !.stream = Flags[Word(here)]]
  <2>2. filled.argv = stream.argv /\ filled.copies = stream.copies
    BY <1>7 DEF StreamType
  <2> HIDE DEF filled
  <2>3. Read(1, filled)
    BY <2>1 DEF filled
  <2> QED BY <1>4, <2>1, <2>2, <2>3
<1>9. CASE Args
  <2>1. /\ pc = "stream" /\ pc' \in {"stream", "list"}
        /\ \/ Read(2, stream) \/ Read(1, stream)
           \/ Word(here + 1) # NULL /\ Read(2, AddArgument(stream, Word(here + 1)))
    BY <1>9 DEF Args
  <2> QED BY <1>4, <1>5, <1>6, <1>7, <2>1
<1>10. CASE OneArgument
  <2>1. pc = "stream"
    BY <1>10 DEF OneArgument
  <2>2. CASE Word(here + 1) = NULL
    <3>1. pc' = "crashed"
      BY <1>10, <2>2 DEF OneArgument, Crash
    <3> QED BY <3>1 DEF MemoryOK
  <2>3. CASE Word(here + 1) # NULL
    <3>1. pc' = "stream" /\ Read(2, AddArgument(stream, Word(here + 1)))
      BY <1>10, <2>1, <2>3 DEF OneArgument
    <3> QED BY <1>5, <1>6, <1>7, <2>1, <2>3, <3>1
  <2> QED BY <2>2, <2>3
<1>11. CASE EndStream
  BY <1>0, <1>11, ReturnMemory DEF EndStream
<1>12. CASE ListWord
  <2>1. /\ pc = "list" /\ pc' = "list" /\ Word(here) # NULL
        /\ Read(1, AddArgument(stream, Word(here)))
    BY <1>12 DEF ListWord
  <2> QED BY <1>5, <1>6, <1>7, <2>1
<1>13. CASE EndList
  <2>1. /\ pc = "list" /\ pc' = "stream"
        /\ \/ Read(0, stream) \/ Read(IF Word(here + 1) = "]" THEN 2 ELSE 1, stream)
    BY <1>13 DEF EndList
  <2> QED BY <1>4, <2>1
<1> QED BY <1>1, <1>2, <1>3, <1>8, <1>9, <1>10, <1>11, <1>12, <1>13 DEF Parse

(* The steps of main: only two free memory. *)
LEMMA MainMemory ==
  ASSUME Inv, MemoryOK, Main
  PROVE  MemoryOK'
<1>1. CASE WriteOutput
  <2> DEFINE d == <<"outputs", at + 1>>
  <2>1. /\ AtStream("outputs") /\ inputs # Empty /\ Current.library # NULL /\ UNCHANGED <<pc, conversion>>
        /\ destroyed' = destroyed \cup {<<pc, at + 1>>}
        /\ memory' = memory \ Released(<<pc, at + 1>>, Current)
    BY <1>1 DEF WriteOutput, parserVars
  <2>2. /\ pc = "outputs" /\ at \in Nat /\ at + 1 \in 1 .. Len(conversion.outputs)
        /\ Current = conversion.outputs[at + 1]
    BY <2>1, AtCurrent
  <2>3. d \in Descriptors /\ StreamOf(d) = Current
    <3>1. /\ DOMAIN conversion = {"inputs", "process", "outputs"}
          /\ DOMAIN conversion.outputs = 1 .. Len(conversion.outputs)
      BY DEF Inv, Reading
    <3> QED BY <2>2, <3>1 DEF Descriptors, StreamOf
  <2>4. d \notin destroyed
    <3>1. destroyed = {<<"outputs", j>> : j \in {i \in Outputs : i <= at}}
      BY <2>2 DEF Inv, Destroyed
    <3>2. ~(at + 1 <= at)
      BY <2>2
    <3> QED BY <3>1, <3>2
  <2>5. memory = Kept
    BY <2>2 DEF MemoryOK
  <2>6. /\ {d} \in SUBSET Descriptors /\ destroyed' = destroyed \cup {d} /\ {d} \cap destroyed = {}
        /\ memory' = memory \ UNION {Released(e, StreamOf(e)) : e \in {d}}
    BY <2>1, <2>2, <2>3, <2>4
  <2> HIDE DEF d
  <2>7. memory' = Kept'
    BY <2>1, <2>5, <2>6, DestroyedNow
  <2> QED BY <2>1, <2>2, <2>7 DEF MemoryOK
<1>2. CASE DestroyInputs
  <2> DEFINE D == {<<"inputs", i>> : i \in DOMAIN conversion.inputs}
  <2>1. /\ pc = "descriptors" /\ pc' = "returned" /\ UNCHANGED conversion
        /\ destroyed' = destroyed \cup D
        /\ memory' = memory \ UNION {Released(<<"inputs", i>>, conversion.inputs[i]) :
                                       i \in DOMAIN conversion.inputs}
    BY <1>2 DEF DestroyInputs, parserVars
  <2>2. D \in SUBSET Descriptors
    <3>1. DOMAIN conversion = {"inputs", "process", "outputs"}
      BY DEF Inv, Reading
    <3> QED BY <3>1 DEF Descriptors
  <2>3. D \cap destroyed = {}
    BY <2>1 DEF Inv, Destroyed
  <2>4. UNION {Released(<<"inputs", i>>, conversion.inputs[i]) : i \in DOMAIN conversion.inputs}
          = UNION {Released(e, StreamOf(e)) : e \in D}
    <3>1. \A i \in DOMAIN conversion.inputs : StreamOf(<<"inputs", i>>) = conversion.inputs[i]
      BY DEF StreamOf
    <3>2. D = {<<"inputs", i>> : i \in DOMAIN conversion.inputs}
      OBVIOUS
    <3> QED BY <3>1, <3>2
  <2>5. memory = Kept
    BY <2>1 DEF MemoryOK
  <2> HIDE DEF D
  <2>6. memory' = Kept'
    BY <2>1, <2>2, <2>3, <2>4, <2>5, DestroyedNow
  <2> QED BY <2>1, <2>6 DEF MemoryOK
<1>3. CASE UNCHANGED <<memory, conversion, destroyed>> /\ pc \in Running \cup {"libraries", "descriptors"}
           /\ pc' \notin {"stream", "list"}
  <2>1. memory = Kept /\ Kept' = Kept
    BY <1>3, KeptStays DEF MemoryOK, Running
  <2> QED BY <1>3, <2>1 DEF MemoryOK
<1>4. CASE /\ \/ CannotLoad \/ SkipInput \/ ReadNothing \/ ReadRecord \/ RunProcess
              \/ SkipOutput \/ EndLoop \/ DeleteRecords \/ CloseLibraries
           /\ UNCHANGED memory
  <2>1. UNCHANGED <<conversion, destroyed>>
    BY <1>4 DEF CannotLoad, SkipInput, ReadNothing, ReadRecord, RunProcess, SkipOutput, EndLoop,
                DeleteRecords, CloseLibraries, parserVars, mainVars
  <2>2. pc \in Running \cup {"libraries", "descriptors"} /\ pc' \notin {"stream", "list"}
    BY <1>4 DEF CannotLoad, SkipInput, ReadNothing, ReadRecord, RunProcess, SkipOutput, EndLoop,
                DeleteRecords, CloseLibraries, AtStream, Running
  <2> QED BY <1>3, <1>4, <2>1, <2>2
<1> QED BY <1>1, <1>2, <1>4 DEF Main

THEOREM MemoryInvariance == Spec => []MemoryOK
<1>1. Init => MemoryOK
  <2> SUFFICES ASSUME Init PROVE MemoryOK
    OBVIOUS
  <2>1. pc = "main" /\ conversion = NoStreams /\ memory = {}
    BY DEF Init, InitArguments
  <2>2. Descriptors = {}
    BY <2>1 DEF Descriptors, NoStreams
  <2> QED BY <2>1, <2>2 DEF MemoryOK, Kept
<1>2. Inv /\ MemoryOK /\ [Next]_vars => MemoryOK'
  <2> SUFFICES ASSUME Inv, MemoryOK, [Next]_vars PROVE MemoryOK'
    OBVIOUS
  <2>1. CASE UNCHANGED vars
    <3>1. UNCHANGED <<pc, kind, stream, conversion, destroyed, memory>>
      BY <2>1 DEF vars, parserVars, mainVars
    <3>2. Kept' = Kept /\ Allocated(Descriptor(kind), stream)' = Allocated(Descriptor(kind), stream)
      BY <3>1, KeptStays DEF Allocated, Descriptor
    <3> QED BY <3>1, <3>2 DEF MemoryOK
  <2> QED BY <2>1, ParserMemory, MainMemory DEF Next
<1> QED BY <1>1, <1>2, Invariance, PTL DEF Spec

-----------------------------------------------------------------------------
(* What the invariant says of main. *)
LEMMA InvType ==
  ASSUME Inv
  PROVE  TypeOK
<1>1. pc \in {"main", "stream", "list", "crashed", "exited", "returned"}
               \cup Running \cup {"libraries", "descriptors"}
  BY DEF Inv, Parsing
<1>2. Len(line) \in Nat
  BY Words DEF Inv
<1>3. argv \in 1 .. Len(line) + 1 /\ here \in 1 .. Len(line) + 1 /\ depth \in 0 .. Len(line)
  BY <1>2 DEF Inv, Reading
<1>4. loaded \in [Libraries -> Nat] /\ {inputs[n] : n \in KeysOf(inputs)} \subseteq DOMAIN records
  BY DEF Inv, MainTypes, KeysOf
<1> QED BY <1>1, <1>3, <1>4 DEF TypeOK

LEMMA InvUsable ==
  ASSUME Inv
  PROVE  RecordsUsable
<1> SUFFICES ASSUME pc \in Running PROVE RecordsUsable!2
  BY DEF RecordsUsable
<1>1. KeysOf(inputs) = KeysOf(freelist)
  BY DEF Inv, Held, KeysOf
<1>2. ASSUME NEW n \in KeysOf(inputs)
      PROVE  /\ records[inputs[n]].deletedBy = <<>>
             /\ records[inputs[n]].library = freelist[n]
             /\ loaded[records[inputs[n]].library] > 0
  <2>1. n \in Names /\ inputs[n] # NULL /\ inputs[n] \in DOMAIN records
    BY DEF KeysOf, Inv, MainTypes
  <2>2. /\ records[inputs[n]].name = n /\ records[inputs[n]].library = freelist[n]
        /\ loaded[records[inputs[n]].library] > 0
    BY <2>1 DEF Inv, Held
  <2>3. Live(inputs[n])
    BY <2>2 DEF Live
  <2>4. records[inputs[n]].deletedBy = <<>>
    BY <2>1, <2>3 DEF Inv, Disposed
  <2> QED BY <2>2, <2>4
<1> QED BY <1>1, <1>2

LEMMA InvLeaves ==
  ASSUME Inv, MemoryOK
  PROVE  LeavesOnly
<1> SUFFICES ASSUME pc = "returned" PROVE LeavesOnly
  BY DEF LeavesOnly
<1>1. \A r \in DOMAIN records : records[r].deletedBy = <<>> <=> Shadowed(r)
  BY DEF Inv, Disposed
<1>2. \A l \in Libraries : loaded[l] + Cardinality(ListedOf(l)) = Cardinality(InputsOf(l))
  BY DEF Inv, Closed
<1>3. \A l \in Libraries :
        InputsOf(l) = {i \in DOMAIN conversion.inputs : conversion.inputs[i].library = l}
  <2>1. conversion.inputs \in Seq(StreamType)
    BY DEF Inv, Reading
  <2>2. DOMAIN conversion.inputs = 1 .. Len(conversion.inputs)
    BY <2>1
  <2> QED BY <2>2 DEF InputsOf, Inputs
<1>4. destroyed = {<<"inputs", i>> : i \in DOMAIN conversion.inputs}
                    \cup {<<"outputs", j>> : j \in Outputs}
  BY DEF Inv, Destroyed
<1>5. memory = UNION {IF d \in destroyed THEN Leftovers(d, StreamOf(d))
                      ELSE Allocated(d, StreamOf(d)) : d \in Descriptors}
  BY DEF MemoryOK, Parsing, Kept, Part
<1> QED BY <1>1, <1>2, <1>3, <1>4, <1>5 DEF LeavesOnly, Shadowed, ListedOf, Outputs

(* Whatever the command line, the libraries and the names: the parser      *)
(* stays within the line and main within its records.                      *)
THEOREM DriverTypeCorrect == Spec => []TypeOK
  BY Invariance, InvType, PTL

(* The records main hands to processes and outputs are not deleted, their  *)
(* library is loaded, and its delete function is the one listed for them.  *)
THEOREM RecordsStayUsable == Spec => []RecordsUsable
  BY Invariance, InvUsable, PTL

(* What main leaves behind of records, handles, descriptors and the memory *)
(* of these when it returns: of a descriptor it destroyed the strings in   *)
(* argv, and the copies that a repeated option replaced.                   *)
THEOREM LeavesOnlyThese == Spec => []LeavesOnly
  BY Invariance, MemoryInvariance, InvLeaves, PTL

-----------------------------------------------------------------------------
(* Deletion. *)
Deletes ==
  \A r \in DOMAIN records :
    records'[r].deletedBy # records[r].deletedBy =>
      /\ records[r].deletedBy = <<>>
      /\ records'[r].deletedBy = <<records[r].library>>
      /\ loaded[records[r].library] > 0

LEMMA LiveDeletes ==
  ASSUME Inv, pc \in Running,
         \A r \in 1 .. Len(records) :
           /\ Live(r) => records'[r] = [records[r] EXCEPT !.deletedBy = <<records[r].library>>]
           /\ ~ Live(r) => records'[r] = records[r]
  PROVE  Deletes
<1> SUFFICES ASSUME NEW r \in 1 .. Len(records), records'[r].deletedBy # records[r].deletedBy
             PROVE  /\ records[r].deletedBy = <<>>
                    /\ records'[r].deletedBy = <<records[r].library>>
                    /\ loaded[records[r].library] > 0
  BY DEF Inv, MainTypes, Deletes
<1>0. records \in Seq(RecordType) /\ Len(records) \in Nat /\ records[r] \in RecordType
  BY DEF Inv, MainTypes
<1>1. records[r].name \in Names /\ NULL \notin Nat /\ r \in Nat
  BY <1>0, DriverAssumption DEF RecordType
<1>2. Live(r)
  OBVIOUS
<1>3. records'[r] = [records[r] EXCEPT !.deletedBy = <<records[r].library>>]
  BY <1>2
<1>4. records'[r].deletedBy = <<records[r].library>>
  BY <1>0, <1>3 DEF RecordType
<1>5. records[r].deletedBy = <<>>
  BY <1>2 DEF Inv, Disposed, MainTypes
<1>6. inputs[records[r].name] = r /\ inputs[records[r].name] # NULL
  BY <1>1, <1>2 DEF Live
<1>7. loaded[records[r].library] > 0
  BY <1>1, <1>6 DEF Inv, Held
<1> QED BY <1>4, <1>5, <1>7

LEMMA NextDeletes ==
  ASSUME Inv, [Next]_vars
  PROVE  Deletes
<1>0. records \in Seq(RecordType) /\ DOMAIN records = 1 .. Len(records) /\ Len(records) \in Nat
  BY DEF Inv, MainTypes
<1>1. CASE UNCHANGED records
  BY <1>1 DEF Deletes
<1>2. CASE ReadRecord
  <2>1. \E record : records' = Append(records, record)
    BY <1>2, Zenon DEF ReadRecord
  <2>2. \A r \in DOMAIN records : records'[r] = records[r]
    BY <1>0, <2>1
  <2> QED BY <2>2 DEF Deletes
<1>3. CASE RunProcess
  <2>1. AtStream("process") /\ Current.library # NULL
    BY <1>3 DEF RunProcess
  <2>2. pc = "process" /\ Current.library \in Libraries
    BY <2>1, AtCurrent
  <2>3. PICK names \in SUBSET Names : Replacing(Current.library, names)
    BY <1>3 DEF RunProcess, Replacing, Processed, NewRecord
  <2>4. \A r \in 1 .. Len(records) :
          /\ Live(r) => records'[r] = [records[r] EXCEPT !.deletedBy = <<records[r].library>>]
          /\ ~ Live(r) => records'[r] = records[r]
    BY <2>2, <2>3, Replaced DEF Running
  <2> QED BY <2>2, <2>4, LiveDeletes DEF Running
<1>4. CASE DeleteRecords
  <2>1. pc \in Running /\ records' = Deleted(records, KeysOf(inputs))
    BY <1>4 DEF DeleteRecords, Running
  <2> QED BY <2>1, DeletedLive, LiveDeletes
<1> QED BY <1>1, <1>2, <1>3, <1>4
     DEF Next, Main, vars, mainVars, CannotLoad, SkipInput, ReadNothing, SkipOutput, WriteOutput,
         EndLoop, CloseLibraries, DestroyInputs

(* A record is deleted once, by the library that made it, while that       *)
(* library is loaded.                                                      *)
THEOREM RecordsDeletedOnce == Spec => DeletedOnceByOwner
<1>1. Inv /\ [Next]_vars =>
        [\A r \in DOMAIN records :
           records'[r].deletedBy # records[r].deletedBy =>
             /\ records[r].deletedBy = <<>>
             /\ records'[r].deletedBy = <<records[r].library>>
             /\ loaded[records[r].library] > 0]_vars
  BY NextDeletes DEF Deletes
<1> QED BY <1>1, Invariance, PTL DEF Spec, DeletedOnceByOwner

-----------------------------------------------------------------------------
(* The named values, as Conversion sees them. *)
Content == [n \in Names |-> IF pc \in Running THEN ValueOf(inputs[n]) ELSE NULL]

LEMMA ContentTypes ==
  ASSUME Inv
  PROVE  /\ \A n \in Names : pc \notin Running \/ inputs[n] = NULL => Content[n] = NULL
         /\ \A n \in Names : pc \in Running /\ inputs[n] # NULL =>
              /\ inputs[n] \in 1 .. Len(records) /\ records[inputs[n]].deletedBy = <<>>
              /\ records[inputs[n]].made \in {"parser", "process"}
              /\ Content[n] = <<records[inputs[n]].made, inputs[n]>> /\ Content[n] # NULL
         /\ records \in Seq(RecordType) /\ Len(records) \in Nat /\ NULL \notin Nat
<1>0. records \in Seq(RecordType) /\ Len(records) \in Nat /\ NULL \notin Nat
  BY DriverAssumption DEF Inv, MainTypes
<1>1. ASSUME NEW n \in Names, pc \notin Running \/ inputs[n] = NULL
      PROVE  Content[n] = NULL
  BY <1>1 DEF Content, ValueOf
<1>2. ASSUME NEW n \in Names, pc \in Running, inputs[n] # NULL
      PROVE  /\ inputs[n] \in 1 .. Len(records) /\ records[inputs[n]].deletedBy = <<>>
             /\ records[inputs[n]].made \in {"parser", "process"}
             /\ Content[n] = <<records[inputs[n]].made, inputs[n]>> /\ Content[n] # NULL
  <2>1. inputs[n] \in 1 .. Len(records) /\ records[inputs[n]] \in RecordType
    BY <1>0, <1>2 DEF Inv, MainTypes
  <2>2. records[inputs[n]].made \in {"parser", "process"} /\ inputs[n] \in Nat
    BY <1>0, <2>1 DEF RecordType
  <2>3. records[inputs[n]].name = n
    BY <1>2 DEF Inv, Held
  <2>4. records[inputs[n]].deletedBy = <<>>
    <3>1. Live(inputs[n])
      BY <2>3 DEF Live
    <3> QED BY <1>2, <2>1, <3>1 DEF Inv, Disposed, MainTypes
  <2>5. Content[n] = <<records[inputs[n]].made, inputs[n]>>
    BY <1>2, <2>4 DEF Content, ValueOf
  <2>6. <<records[inputs[n]].made, inputs[n]>> \in {"parser", "process"} \X Nat
    BY <2>2
  <2>7. Content[n] # NULL
    BY <2>5, <2>6, DriverAssumption
  <2> QED BY <2>1, <2>2, <2>4, <2>5, <2>7
<1> QED BY <1>0, <1>1, <1>2

LEMMA ContentStays ==
  ASSUME UNCHANGED <<records, inputs>>, pc' \in Running <=> pc \in Running
  PROVE  Content' = Content
  BY DEF Content, ValueOf

LEMMA ReadRecordAdds ==
  ASSUME Inv, Inv', ReadRecord
  PROVE  \/ UNCHANGED <<Content, dumped>>
         \/ \E n \in Names : /\ Content[n] = NULL /\ Content'[n] \in {"parser"} \X Nat
                             /\ \A m \in Names : Content'[n] # Content[m]
                             /\ Content' = [Content EXCEPT ![n] = Content'[n]]
                             /\ UNCHANGED dumped
<1>1. /\ AtStream("inputs") /\ pc' = pc /\ dumped' = dumped /\ Current.library # NULL
  BY DEF ReadRecord
<1>2. pc = "inputs" /\ pc' = "inputs" /\ Current.name \in Names \cup {NULL}
  BY <1>1, AtCurrent
<1>3. PICK name \in Names : /\ records' = Append(records, NewRecord(name, "parser"))
                            /\ inputs' = Insert(inputs, name, Len(records) + 1)
  BY <1>2, DriverAssumption DEF ReadRecord
<1>4. /\ records \in Seq(RecordType) /\ Len(records) \in Nat /\ NULL \notin Nat
      /\ inputs \in [Names -> (1 .. Len(records)) \cup {NULL}]
  BY ContentTypes DEF Inv, MainTypes
<1>5. \A r \in 1 .. Len(records) : records'[r] = records[r]
  BY <1>3, <1>4
<1>6. records'[Len(records) + 1] = NewRecord(name, "parser")
  BY <1>3, <1>4
<1>7. ASSUME NEW n \in Names, inputs'[n] = inputs[n]
      PROVE  Content'[n] = Content[n]
  <2>1. inputs[n] # NULL => records'[inputs[n]] = records[inputs[n]]
    BY <1>4, <1>5
  <2> QED BY <1>2, <1>7, <2>1 DEF Content, ValueOf
<1>8. Content' = [n \in Names |-> Content'[n]] /\ Content = [n \in Names |-> Content[n]]
  BY DEF Content
<1>9. CASE inputs[name] # NULL
  <2>1. inputs' = inputs
    BY <1>3, <1>9 DEF Insert
  <2>2. \A n \in Names : Content'[n] = Content[n]
    BY <1>7, <2>1
  <2> QED BY <1>1, <1>8, <2>2
<1>10. CASE inputs[name] = NULL
  <2>1. inputs' = [inputs EXCEPT ![name] = Len(records) + 1]
    BY <1>3, <1>10 DEF Insert
  <2>2. \A n \in Names : n # name => Content'[n] = Content[n]
    BY <1>4, <1>7, <2>1
  <2>3. Content[name] = NULL
    BY <1>10, ContentTypes
  <2>4. Content'[name] = <<"parser", Len(records) + 1>>
    <3>1. inputs'[name] = Len(records) + 1 /\ inputs'[name] # NULL
      BY <1>4, <2>1
    <3>2. records'[inputs'[name]].made = "parser" /\ records'[inputs'[name]].deletedBy = <<>>
      BY <1>6, <3>1 DEF NewRecord
    <3> QED BY <1>2, <3>1, <3>2 DEF Content, ValueOf, Running
  <2>5. \A m \in Names : Content'[name] # Content[m]
    <3> TAKE m \in Names
    <3>1. CASE inputs[m] = NULL
      <4>1. Content[m] = NULL
        BY <3>1, ContentTypes
      <4>2. <<"parser", Len(records) + 1>> \in {"parser", "process"} \X Nat
        BY <1>4
      <4> QED BY <2>4, <4>1, <4>2, DriverAssumption
    <3>2. CASE inputs[m] # NULL
      <4>1. Content[m] = <<records[inputs[m]].made, inputs[m]>> /\ inputs[m] \in 1 .. Len(records)
        BY <1>2, <3>2, ContentTypes DEF Running
      <4>2. inputs[m] # Len(records) + 1
        BY <1>4, <4>1
      <4> QED BY <2>4, <4>1, <4>2
    <3> QED BY <3>1, <3>2
  <2>6. Content' = [Content EXCEPT ![name] = Content'[name]]
    BY <1>8, <2>2
  <2>7. Content'[name] \in {"parser"} \X Nat
    BY <1>4, <2>4
  <2> QED BY <1>1, <2>3, <2>5, <2>6, <2>7
<1> QED BY <1>9, <1>10

LEMMA RunProcessReplaces ==
  ASSUME Inv, Inv', RunProcess
  PROVE  \/ Content' = [n \in Names |-> NULL]
         \/ /\ Content' \in [Names -> ({"process"} \X Nat) \cup {NULL}]
            /\ \A n, m \in Names : Content'[n] # NULL => Content'[n] # Content[m]
<1>1. AtStream("process") /\ Current.library # NULL /\ pc' \in {pc, "exited"}
  BY DEF RunProcess
<1>2. pc = "process" /\ Current.library \in Libraries
  BY <1>1, AtCurrent
<1>3. PICK names \in SUBSET Names : Replacing(Current.library, names)
  BY DEF RunProcess, Replacing, Processed, NewRecord
<1>4. /\ Len(records) \in Nat /\ Len(records') \in Nat
      /\ \A n \in Names \ names : inputs'[n] = NULL
      /\ \A n \in names :
           inputs'[n] # NULL /\ inputs'[n] \in Len(records) + 1 .. Len(records')
      /\ \A r \in Len(records) + 1 .. Len(records') :
           /\ records'[r].made = "process" /\ records'[r].deletedBy = <<>>
  BY <1>2, <1>3, Replaced DEF Running
<1>7. \A n \in names : inputs'[n] \in Nat /\ inputs'[n] > Len(records)
  <2> TAKE n \in names
  <2>1. inputs'[n] \in Len(records) + 1 .. Len(records')
    BY <1>4
  <2> QED BY <1>4, <2>1
<1>5. CASE pc' = "exited"
  BY <1>5 DEF Content, Running
<1>6. CASE pc' = "process"
  <2>1. ASSUME NEW n \in Names
        PROVE  Content'[n] = IF n \in names THEN <<"process", inputs'[n]>> ELSE NULL
    <3>1. Content'[n] = (IF inputs'[n] = NULL THEN NULL
                         ELSE <<IF records'[inputs'[n]].deletedBy = <<>>
                                  THEN records'[inputs'[n]].made ELSE "deleted", inputs'[n]>>)
      BY <1>6 DEF Content, ValueOf, Running
    <3>2. CASE n \in names
      <4>1. inputs'[n] # NULL /\ inputs'[n] \in Len(records) + 1 .. Len(records')
        BY <1>4, <3>2
      <4>2. records'[inputs'[n]].made = "process" /\ records'[inputs'[n]].deletedBy = <<>>
        BY <1>4, <4>1
      <4> QED BY <3>1, <3>2, <4>1, <4>2
    <3>3. CASE n \notin names
      BY <1>4, <3>1, <3>3
    <3> QED BY <3>2, <3>3
  <2>2. Content' = [n \in Names |-> Content'[n]]
    BY DEF Content
  <2>3. ASSUME NEW n \in Names, NEW m \in Names, n \in names
        PROVE  Content'[n] # Content[m]
    <3>1. Content'[n] = <<"process", inputs'[n]>> /\ inputs'[n] \in Nat /\ inputs'[n] > Len(records)
      BY <1>7, <2>1, <2>3
    <3>2. CASE inputs[m] = NULL
      <4>1. Content[m] = NULL
        BY <3>2, ContentTypes
      <4>2. <<"process", inputs'[n]>> \in {"parser", "process"} \X Nat
        BY <3>1
      <4> QED BY <3>1, <4>1, <4>2, DriverAssumption
    <3>3. CASE inputs[m] # NULL
      <4>1. Content[m] = <<records[inputs[m]].made, inputs[m]>> /\ inputs[m] \in 1 .. Len(records)
        BY <1>2, <3>3, ContentTypes DEF Running
      <4>2. inputs[m] # inputs'[n]
        BY <1>4, <3>1, <4>1
      <4> QED BY <3>1, <4>1, <4>2
    <3> QED BY <3>2, <3>3
  <2>4. \A n \in Names : Content'[n] \in ({"process"} \X Nat) \cup {NULL}
    <3> TAKE n \in Names
    <3>1. CASE n \in names
      <4>1. Content'[n] = <<"process", inputs'[n]>> /\ inputs'[n] \in Nat
        BY <1>7, <2>1, <3>1
      <4> QED BY <4>1
    <3>2. CASE n \notin names
      BY <2>1, <3>2
    <3> QED BY <3>1, <3>2
  <2>5. \A n, m \in Names : Content'[n] # NULL => Content'[n] # Content[m]
    BY <2>1, <2>3
  <2> QED BY <2>2, <2>4, <2>5
<1> QED BY <1>1, <1>2, <1>5, <1>6

LEMMA WriteOutputShows ==
  ASSUME Inv, WriteOutput
  PROVE  /\ Content' = Content
         /\ \/ dumped' = dumped
            \/ /\ Content # [n \in Names |-> NULL]
               /\ \E s \in {"STDOUT", "STDERR", "FILE"} :
                    dumped' = [stream |-> s, content |-> Content]
<1>1. /\ AtStream("outputs") /\ inputs # Empty /\ UNCHANGED <<pc, records, inputs>>
      /\ dumped' = IF Current.stream = "NOTHING" THEN dumped
                   ELSE [stream  |-> Target(Current.stream),
                         content |-> [n \in Names |-> ValueOf(inputs[n])]]
  BY DEF WriteOutput
<1>2. pc = "outputs" /\ Current \in StreamType
  BY <1>1, AtCurrent
<1>3. Current.stream # "NOTHING" => Target(Current.stream) \in {"STDOUT", "STDERR", "FILE"}
  BY <1>2 DEF Target, StreamType
<1>4. [n \in Names |-> ValueOf(inputs[n])] = Content
  BY <1>2 DEF Content, Running
<1>5. PICK n \in Names : inputs[n] # NULL
  BY <1>1 DEF Inv, MainTypes, Empty
<1>6. Content[n] # NULL
  BY <1>2, <1>5, ContentTypes DEF Running
<1>7. Content' = Content
  BY <1>1, ContentStays
<1> QED BY <1>1, <1>3, <1>4, <1>6, <1>7

LEMMA InitRefines ==
  ASSUME Init
  PROVE  Content = [n \in Names |-> NULL] /\ dumped = NULL
  BY DEF Init, InitArguments, Content, Running

LEMMA StepRefines ==
  ASSUME Inv, Inv', [Next]_vars
  PROVE  \/ UNCHANGED <<Content, dumped>>
         \/ \E n \in Names : /\ Content[n] = NULL /\ Content'[n] \in {"parser"} \X Nat
                             /\ \A m \in Names : Content'[n] # Content[m]
                             /\ Content' = [Content EXCEPT ![n] = Content'[n]]
                             /\ UNCHANGED dumped
         \/ /\ Content' \in [Names -> ({"process"} \X Nat) \cup {NULL}]
            /\ \A n, m \in Names : Content'[n] # NULL => Content'[n] # Content[m]
            /\ UNCHANGED dumped
         \/ /\ Content # [n \in Names |-> NULL] /\ Content' = Content
            /\ \E s \in {"STDOUT", "STDERR", "FILE"} : dumped' = [stream |-> s, content |-> Content]
         \/ Content' = [n \in Names |-> NULL] /\ UNCHANGED dumped
<1>1. CASE Parse /\ UNCHANGED mainVars
  <2>1. pc \in Parsing /\ pc' \in Parsing \cup {"exited", "inputs"} /\ Untouched
    BY <1>1, ParseKeeps DEF Inv
  <2>2. inputs' = Empty /\ dumped' = dumped
    BY <1>1, <2>1 DEF Untouched, mainVars
  <2>3. Content' = [n \in Names |-> NULL]
    BY <2>2 DEF Content, ValueOf, Empty
  <2> QED BY <2>2, <2>3
<1>2. CASE CannotLoad \/ DeleteRecords
  <2>1. pc' \in {"exited", "libraries"} /\ dumped' = dumped
    BY <1>2 DEF CannotLoad, DeleteRecords, mainVars
  <2>2. Content' = [n \in Names |-> NULL]
    BY <2>1 DEF Content, Running
  <2> QED BY <2>1, <2>2
<1>3. CASE SkipInput \/ ReadNothing \/ SkipOutput
  BY <1>3, ContentStays DEF SkipInput, ReadNothing, SkipOutput
<1>4. CASE ReadRecord
  BY <1>4, ReadRecordAdds
<1>5. CASE RunProcess
  <2>1. dumped' = dumped
    BY <1>5 DEF RunProcess
  <2> QED BY <1>5, <2>1, RunProcessReplaces
<1>6. CASE WriteOutput
  <2>1. \/ Content' = Content /\ dumped' = dumped
        \/ /\ Content # [n \in Names |-> NULL] /\ Content' = Content
           /\ \E s \in {"STDOUT", "STDERR", "FILE"} : dumped' = [stream |-> s, content |-> Content]
    BY <1>6, WriteOutputShows, Zenon
  <2> QED BY <2>1, Zenon
<1>7. CASE EndLoop
  <2>1. pc \in Running /\ pc' \in Running /\ UNCHANGED <<records, inputs, dumped>>
    BY <1>7 DEF EndLoop, Running
  <2> QED BY <2>1, ContentStays
<1>8. CASE CloseLibraries \/ DestroyInputs
  <2>1. pc \notin Running /\ pc' \notin Running /\ UNCHANGED <<records, inputs, dumped>>
    BY <1>8 DEF CloseLibraries, DestroyInputs, Running
  <2> QED BY <2>1, ContentStays
<1>9. CASE UNCHANGED vars
  BY <1>9, ContentStays DEF vars, mainVars
<1> QED BY <1>1, <1>2, <1>3, <1>4, <1>5, <1>6, <1>7, <1>8, <1>9 DEF Next, Main

(* pelib-convert implements Conversion: inputs add values under fresh      *)
(* names, processes replace the collection by values of their own, outputs *)
(* show it, and no value that was deleted is ever part of it.              *)
THEOREM DriverRefines == Spec => ImplementsConversion
<1>1. Init => ConversionSpec!Init
  BY InitRefines DEF Content, ConversionSpec!Init, ConversionSpec!Nothing
<1>2. Inv /\ Inv' /\ [Next]_vars => [ConversionSpec!Next]_(ConversionSpec!vars)
  <2> SUFFICES ASSUME Inv, Inv', [Next]_vars PROVE [ConversionSpec!Next]_(ConversionSpec!vars)
    OBVIOUS
  <2>1. CASE UNCHANGED <<Content, dumped>>
    BY <2>1 DEF Content, ConversionSpec!vars
  <2>2. CASE \E n \in Names : /\ Content[n] = NULL /\ Content'[n] \in {"parser"} \X Nat
                              /\ \A m \in Names : Content'[n] # Content[m]
                              /\ Content' = [Content EXCEPT ![n] = Content'[n]]
                              /\ UNCHANGED dumped
    <3>1. \E n \in Names : ConversionSpec!Parse(n)
      BY <2>2, Zenon DEF Content, ConversionSpec!Parse
    <3> QED BY <3>1 DEF ConversionSpec!Next
  <2>3. CASE /\ Content' \in [Names -> ({"process"} \X Nat) \cup {NULL}]
             /\ \A n, m \in Names : Content'[n] # NULL => Content'[n] # Content[m]
             /\ UNCHANGED dumped
    <3>1. ConversionSpec!Process
      BY <2>3, Zenon DEF Content, ConversionSpec!Process
    <3> QED BY <3>1 DEF ConversionSpec!Next
  <2>4. CASE /\ Content # [n \in Names |-> NULL] /\ Content' = Content
             /\ \E s \in {"STDOUT", "STDERR", "FILE"} : dumped' = [stream |-> s, content |-> Content]
    <3>1. \E s \in {"STDOUT", "STDERR", "FILE"} : ConversionSpec!Dump(s)
      BY <2>4, Zenon DEF Content, ConversionSpec!Dump, ConversionSpec!Nothing
    <3> QED BY <3>1 DEF ConversionSpec!Next
  <2>5. CASE Content' = [n \in Names |-> NULL] /\ UNCHANGED dumped
    <3>1. ConversionSpec!Finish
      BY <2>5, Zenon DEF Content, ConversionSpec!Finish, ConversionSpec!Nothing
    <3> QED BY <3>1 DEF ConversionSpec!Next
  <2> QED BY StepRefines, <2>1, <2>2, <2>3, <2>4, <2>5
<1> QED BY <1>1, <1>2, Invariance, PTL DEF Spec, ImplementsConversion, ConversionSpec!Spec
=============================================================================
