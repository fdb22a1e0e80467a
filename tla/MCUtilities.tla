------------------------------ MODULE MCUtilities ------------------------------
(***************************************************************************)
(* Instances, for TLC, of the parts that work on text and files.  They     *)
(* share nothing, so that a behaviour is one of one of them, the others    *)
(* staying in some initial state of theirs.                                *)
(***************************************************************************)
EXTENDS ReadLine, FileTree, JvmOptions, SessionText, ArgumentText, TLC

VARIABLE part

-----------------------------------------------------------------------------
MCTexts == UNION {[1..n -> {"a", "cr", "lf"}] : n \in 0..4}

-----------------------------------------------------------------------------
Entry(name, type, stat, dir) == [name |-> name, type |-> type, stat |-> stat, dir |-> dir]
Dir(name) == Entry(name, "dir", "dir", name)
File(name) == Entry(name, "reg", "reg", "")

\* Three levels of directories; a link to the directory it is in; all that is odd.
MCTrees ==
  {"root" :> {Dir("d"), File("f")} @@ "d" :> {Dir("e"), File("f")} @@ "e" :> {File("g")},
   "root" :> {Entry("up", "lnk", "dir", "root"), File("f")},
   "root" :> {Entry("gone", "lnk", "none", ""), Entry("s", "unknown", "other", ""),
              Entry("p", "other", "other", ""), Entry("d", "unknown", "dir", "d")} @@ "d" :> {File("f")}}

\* By the visitor of Files, and by findfiles().
MCWalks ==
  [kids : MCTrees, follow : BOOLEAN, maxDepth : {2, 3}, finds : {FALSE}]
  \cup [kids : MCTrees, follow : {TRUE}, maxDepth : {3}, finds : {TRUE}]

-----------------------------------------------------------------------------
Option(prefix, is, value) == [prefix |-> prefix, is |-> is, value |-> <<value>>]
MCOptions ==
  {Option("Xmx", "option", "1"), Option("Xmx", "option", "2"), Option("server", "option", "1"),
   Option("-Djava.class.path", "classpath", "1"), Option("-Djava.class.path", "classpath", "2"),
   Option("-Duser.dir", "cwd", "1"), [prefix |-> "-Duser.dir", is |-> "cwd", value |-> <<>>],
   Option("-Djava.library.path", "library", "1"), Option("-djava.library.path", "library", "1")}
MCOptionPrefixes == {o.prefix : o \in MCOptions}
MCOverrides == UNION {[1..n -> MCOptions] : n \in 0..2}
MCConfigured == UNION {[1..n -> MCOptions] : n \in 0..3}

-----------------------------------------------------------------------------
DigitsOf == <<"0", "1", "2", "3">>
MCDigits(n) == DigitsOf[n + 1]
MCIsNumber(c) == c \in ToSet(DigitsOf)
MCNumberOf(c) == IndexFirstSubSeq(<<c>>, DigitsOf) - 1
MCType == <<"t">>
MCAlphabet == {"a", "t", "cr", "lf"} \cup ToSet(DigitsOf)

MCStrings == {<<>>, <<"a">>, <<"1", "a">>}
MCMethod(s) == [static |-> 0, which |-> 1, name |-> s, descriptor |-> <<"a">>]
MCCommand(s) == MCMethod(<<"a">>) @@ [command |-> <<"a">>, options |-> s]
MCSessions ==
  {[pid |-> 3, max |-> 2, points |-> [n \in 1..7 |-> MCMethod(s)], words |-> s, classPath |-> s,
    supervisor |-> sup, worker |-> wrk, properties |-> props, level |-> s, jvm |-> <<"a">>] :
     s \in MCStrings,
     sup \in UNION {[1..n -> {MCCommand(<<>>), MCCommand(<<"a">>)}] : n \in 0..2},
     wrk \in {<<>>, <<MCCommand(<<"2">>)>>},
     props \in UNION {[1..n -> {<<>>, <<"a">>, <<"lf">>, <<"a", "lf", "1">>}] : n \in 0..2}}

-----------------------------------------------------------------------------
MCQuote == "\""
MCBackslash == "\\"
\* One character stands for the whole of -pipe=, in one way of spelling.
MCPipe == <<"-pipe=">>
MCPipeSpellings == {<<"-pipe=">>, <<"-Pipe=">>}
MCCharacters == {"a", "e", "s", " ", "\"", "'", "\\", "-pipe=", "-Pipe="}
MCArguments == UNION {[1..n -> MCCharacters \ {"e", "s"}] : n \in 0..2}
MCCommandNames == {arg \in MCArguments : ~IsPipeOption(arg)}
MCExtended == <<"e">>
MCSocket == <<"s">>
MCInvocations ==
  [args : {<<name>> : name \in MCCommandNames} \cup (MCCommandNames \X MCArguments), java : BOOLEAN]

-----------------------------------------------------------------------------
\* A part that does not run is in one state.
ReadOff ==
  /\ content = <<>> /\ unread = <<>> /\ lines = <<>> /\ buf = [chars |-> <<"lf">>, position |-> 0, limit |-> 1]
  /\ start = 0 /\ eof = FALSE /\ match = NoLine /\ lookAhead = FALSE /\ last = NoLine /\ step = "init"
WalkOff ==
  /\ walk = CHOOSE w \in MCWalks : w.finds
  /\ open = <<>> /\ stop = FALSE /\ state = "failed" /\ calls = <<>>
OptionsOff == override = <<>> /\ configured = <<>> /\ argv = <<>> /\ argc = 0 /\ gap = 0 /\ next = 1
                /\ jvm = Null /\ phase = "parse"
TextOff == session = <<>> /\ shared = <<>> /\ taken = Stream(<<>>, "good", <<>>)
ArgumentsOff == sent = [args |-> <<<<"a">>>>, java |-> FALSE] /\ message = <<>> /\ args = <<>>

Init ==
  \/ part = "lines" /\ ReadInit /\ WalkOff /\ OptionsOff /\ TextOff /\ ArgumentsOff
  \/ part = "walk" /\ ReadOff /\ WalkInit /\ OptionsOff /\ TextOff /\ ArgumentsOff
  \/ part = "options" /\ ReadOff /\ WalkOff /\ OptionsInit /\ TextOff /\ ArgumentsOff
  \/ part = "session" /\ ReadOff /\ WalkOff /\ OptionsOff /\ TextInit /\ ArgumentsOff
  \/ part = "arguments" /\ ReadOff /\ WalkOff /\ OptionsOff /\ TextOff /\ ArgumentsInit

Next ==
  \/ part = "lines" /\ ReadNext /\ UNCHANGED <<part, walkVars, optionVars, textVars, argumentVars>>
  \/ part = "walk" /\ WalkNext /\ UNCHANGED <<part, readVars, optionVars, textVars, argumentVars>>
  \/ part = "options" /\ OptionsNext /\ UNCHANGED <<part, readVars, walkVars, textVars, argumentVars>>
  \/ part = "session" /\ TextNext /\ UNCHANGED <<part, readVars, walkVars, optionVars, argumentVars>>
  \/ part = "arguments" /\ ArgumentsNext /\ UNCHANGED <<part, readVars, walkVars, optionVars, textVars>>

Spec == Init /\ [][Next]_<<part, readVars, walkVars, optionVars, textVars, argumentVars>>
===============================================================================
