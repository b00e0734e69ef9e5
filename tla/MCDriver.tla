------------------------------ MODULE MCDriver ------------------------------
(***************************************************************************)
(* pelib-convert for TLC.  Two sets of command lines: short ones of any    *)
(* phrases in any order, which exercise the parser, and the lines of whole *)
(* streams, which exercise main.  Each comes with the streams it means,    *)
(* read off its phrases without a parser.                                  *)
(***************************************************************************)
EXTENDS Driver

MCLibraries == {<<"x">>, <<"y">>, <<"libpelib-", "x", ".so">>}
MCNames == {"x", "T"}
MCTypeNames == {"T"}

-----------------------------------------------------------------------------
(* A phrase: its words, and what they mean: open a stream of a kind, set   *)
(* fields of the open one, give it arguments, or end it.                   *)
Phrase(words, does, with) == [words |-> words, does |-> does, with |-> with]
Opens(word, k) == Phrase(<<word>>, "open", k)
Sets(words, fields) == Phrase(words, "set", fields)
Gives(words, args) == Phrase(words, "give", args)
Ends(words) == Phrase(words, "end", NULL)

Phrases ==
  {Opens("--input", "inputs"), Opens("--process", "process"), Opens("--output", "outputs"),
   Sets(<<"-l", "x">>, [library |-> <<"x">>]),
   Sets(<<"--lib", "x">>, [library |-> <<"libpelib-", "x", ".so">>]),
   Sets(<<"-n", "x">>, [name |-> "x"]),
   Sets(<<"-f", "x">>, [filename |-> "x", stream |-> "FILE"]),
   Sets(<<"-f", "--stdin">>, [filename |-> "--stdin", stream |-> "FILE"]),
   Sets(<<"--stdin">>, [stream |-> "STDIN"]),
   Gives(<<"--args", "-f">>, <<"-f">>),
   Gives(<<"-o", "]">>, <<"]">>),
   Phrase(<<"--args", "[", "[", "-f", "]", "--output", "]">>, "list",
          <<"[", "-f", "]", "--output">>),
   Phrase(<<"]">>, "bracket", NULL),
   Ends(<<"-n", "-">>),
   Ends(<<"--seed", "--input">>)}

(* Those that can only end a line: an option that lacks its value, a list  *)
(* that is not closed, and --sources.                                      *)
LastPhrases ==
  {Ends(<<"-m">>), Gives(<<"--args">>, <<>>), Gives(<<"-o">>, <<>>), Ends(<<"--seed">>),
   Gives(<<"--args", "[", "x", "[">>, <<"x", "[">>), Ends(<<"--sources">>)}

OverlaidWith(s, fields) ==
  [f \in DOMAIN s |->
     IF f = "copies" THEN [c \in Copied |-> s.copies[c] + IF c \in DOMAIN fields THEN 1 ELSE 0]
     ELSE IF f \in DOMAIN fields THEN fields[f] ELSE s[f]]
Extended(m, k, s) == [m EXCEPT !.streams[k] = Append(@, s)]
UpdateOpen(m, s) == [m EXCEPT !.streams[m.open][Len(m.streams[m.open])] = s, !.list = FALSE]
OpenStream(m) == Last(m.streams[m.open])

(* What a phrase adds to the meaning m of those before it: the streams,    *)
(* the kind of the open one or NULL, and whether a list was just closed: a *)
(* bracket after it is ignored, any other ends the stream.  In a list      *)
(* outside a stream --output opens one, which the bracket ends.            *)
Mean(m, p) ==
  CASE p.does = "open" -> [Extended(m, p.with, NewStream) EXCEPT !.open = p.with, !.list = FALSE]
    [] p.does = "end" \/ (p.does = "bracket" /\ ~m.list) -> [m EXCEPT !.open = NULL, !.list = FALSE]
    [] p.does = "bracket" -> [m EXCEPT !.list = FALSE]
    [] p.does = "list" /\ m.open = NULL -> Extended(m, "outputs", NewStream)
    [] p.does = "list" -> [UpdateOpen(m, [OpenStream(m) EXCEPT !.argv = @ \o p.with]) EXCEPT !.list = TRUE]
    [] m.open = NULL -> m
    [] p.does = "set" -> UpdateOpen(m, OverlaidWith(OpenStream(m), p.with))
    [] p.does = "give" -> UpdateOpen(m, [OpenStream(m) EXCEPT !.argv = @ \o p.with])

(* The lines of three phrases, the longer ones that begin with an input,   *)
(* and those that a last phrase ends.                                      *)
Spoken(l, p) == [words |-> l.words \o p.words, means |-> Mean(l.means, p)]
Silence == [words |-> <<>>, means |-> [streams |-> NoStreams, open |-> NULL, list |-> FALSE]]
Longer(lines, phrases) == {Spoken(l, p) : l \in lines, p \in phrases}
ShortLines ==
  LET one   == Longer({Silence}, Phrases)
      two   == Longer(one, Phrases)
      three == Longer(two, Phrases)
      input == Longer({Silence}, {Opens("--input", "inputs")})
      four  == Longer(Longer(Longer(input, Phrases), Phrases), Phrases)
      ended == Longer({Silence} \cup one \cup two, LastPhrases)
  IN {[words |-> l.words, meant |-> l.means.streams] : l \in {Silence} \cup three \cup four \cup ended}

-----------------------------------------------------------------------------
(* Whole streams, and the words that describe them. *)
CopiesOf(fields) == [c \in Copied |-> IF fields[c] = NULL THEN 0 ELSE 1]
Streams(libraries, names, streams) ==
  {[library |-> l, argv |-> <<>>, filename |-> NULL, name |-> n, stream |-> st,
    copies |-> CopiesOf([library |-> l, name |-> n, filename |-> NULL])] :
   l \in libraries, n \in names, st \in streams}

WordsOf(option, s) ==
  <<option>>
  \o (IF s.library = NULL THEN <<>> ELSE <<"--library", s.library[1]>>)
  \o (IF s.name = NULL THEN <<>> ELSE <<"--name", s.name>>)
  \o CASE s.stream = "STDIN" -> <<"--stdin">> [] s.stream = "STDOUT" -> <<"--stdout">>
       [] s.stream = "STDERR" -> <<"--stderr">> [] OTHER -> <<>>
  \o IF s.filename = NULL THEN <<>> ELSE <<"--file", s.filename>>

ToFile(streams) ==
  {[s EXCEPT !.filename = "x", !.stream = "FILE", !.copies.filename = 1] : s \in streams}

InputStreams ==
  LET stdin == Streams({<<"x">>, <<"y">>}, {NULL, "x"}, {"STDIN"})
  IN stdin \cup ToFile({s \in stdin : s.library = <<"y">>})
       \cup Streams({NULL}, {NULL}, {"STDIN"}) \cup Streams({<<"x">>}, {NULL}, {"STDOUT"})
Processes ==
  LET from(library) == [NewStream EXCEPT !.library = library, !.copies.library = 1]
  IN {<<>>, <<from(<<"x">>)>>, <<from(<<"x">>), from(<<"y">>)>>}
OutputStreams ==
  Streams({<<"x">>}, {NULL}, {"NOTHING", "STDERR", "STDIN"}) \cup
  ToFile(Streams({NULL, <<"y">>}, {NULL}, {"NOTHING"}))

UpTo(n, S) == UNION {[1 .. k -> S] : k \in 0 .. n}
Rendered(option, streams) == FlattenSeq([i \in DOMAIN streams |-> WordsOf(option, streams[i])])
WholeLines ==
  {[words |-> Rendered("--input", c.inputs) \o Rendered("--process", c.process)
                \o Rendered("--output", c.outputs),
    meant |-> c] :
   c \in [inputs : UpTo(2, InputStreams), process : Processes,
          outputs : UpTo(1, OutputStreams)]}

MCCommandLines == ShortLines \cup WholeLines
=============================================================================
