------------------------------ MODULE ArgumentText ------------------------------
(***************************************************************************)
(* The arguments of a command on their way through a message queue: put    *)
(* into one text by send_flattened_argv_mq_msg(), taken apart again by     *)
(* poptParseArgvString() in the launcher or in the supervisor.             *)
(***************************************************************************)
EXTENDS Naturals, Sequences, SequencesExt, Selection

CONSTANTS
  Invocations,       \* the command with its arguments, and whether Java code invokes it
  Extended, Socket,  \* the two texts that come first
  Pipe, PipeSpellings,  \* "-pipe=", and what it is in any mixture of small and capital letters
  Characters,
  Space, Quote, Apostrophe, Backslash

Plain(arg) == arg # <<>> /\ ToSet(arg) \cap {Quote, Backslash} = {}
IsPipeOption(arg) == \E p \in PipeSpellings : IsPrefix(p, arg)

\* On a command line with such an option before the command, the option stands for the own one of java.
ASSUME ArgumentAssumption ==
  /\ Invocations \subseteq [args : Seq(Seq(Characters)), java : BOOLEAN]
  /\ \A i \in Invocations : i.args # <<>> /\ ~IsPipeOption(Head(i.args))
  /\ Pipe \in PipeSpellings /\ PipeSpellings \subseteq Seq(Characters)
  /\ ~IsPipeOption(Extended) /\ ~IsPipeOption(Socket)
  /\ {Extended, Socket} \subseteq Seq(Characters) /\ Plain(Extended) /\ Plain(Socket)
  /\ {Space, Quote, Apostrophe, Backslash} \subseteq Characters
  /\ Quote \notin {Space, Apostrophe, Backslash} /\ Space \notin {Apostrophe, Backslash}

VARIABLES
  sent,      \* an invocation (input)
  message,   \* the text in the queue
  args       \* as parsed

argumentVars == <<sent, message, args>>

-----------------------------------------------------------------------------
\* fork2main() puts an option of its own before the command, with the name of its socket.
Argv(invocation) == (IF invocation.java THEN <<Pipe \o Socket>> ELSE <<>>) \o invocation.args

\* Variant: all such options are taken out.
FilteredAll(list) == Selected(list, {arg \in ToSet(list) : ~IsPipeOption(arg)})

\* The first option that begins with -pipe= is taken out, wherever it is.
Filtered(list) == RemoveFirstMatch(list, IsPipeOption)

\* Variant: the arguments are put side by side as they are.
Bare(arg) == Append(arg, Space)

Quoted(arg) == <<Quote>> \o arg \o <<Quote, Space>>

\* Each in double quotes, which nothing escapes; empty ones are skipped.
Flattened(list) ==
  LET some == Selected(list, ToSet(list) \ {<<>>})
  IN Front(FlattenSeq([n \in DOMAIN some |-> Quoted(some[n])]))

\* One character of the text; an argument ends at white space outside of quotes.
\* quote and escape hold the character that opened a quote or came just before, if any.
Added(p, c) == [p EXCEPT !.word = Append(@, c), !.escape = <<>>]
Parsed(p, c) ==
  IF p.escape # <<>>
  THEN IF p.quote # <<>> /\ <<c>> # p.quote THEN Added(Added(p, Backslash), c) ELSE Added(p, c)
  ELSE IF <<c>> = p.quote THEN [p EXCEPT !.quote = <<>>]
  ELSE IF c = Backslash THEN [p EXCEPT !.escape = <<c>>]
  ELSE IF p.quote # <<>> THEN Added(p, c)
  ELSE IF c = Space THEN [p EXCEPT !.argv = IF p.word = <<>> THEN @ ELSE Append(@, p.word), !.word = <<>>]
  ELSE IF c \in {Quote, Apostrophe} THEN [p EXCEPT !.quote = <<c>>]
  ELSE Added(p, c)

\* The parser after each number of characters.
Reading(text) ==
  LET after[n \in 0..Len(text)] ==
        IF n = 0 THEN [argv |-> <<>>, word |-> <<>>, quote |-> <<>>, escape |-> <<>>]
        ELSE Parsed(after[n - 1], text[n])
  IN after

Parse(text) ==
  LET p == Reading(text)[Len(text)]
  IN IF p.word = <<>> THEN p.argv ELSE Append(p.argv, p.word)

-----------------------------------------------------------------------------
ArgumentsInit == sent \in Invocations /\ message = <<>> /\ args = <<>>

Send ==
  /\ message = <<>>
  /\ message' = Flattened(Filtered(<<Extended, Socket>> \o Argv(sent)))
  /\ UNCHANGED <<sent, args>>

Dispatch == message # <<>> /\ args = <<>> /\ args' = Parse(message) /\ UNCHANGED <<sent, message>>

ArgumentsNext == Send \/ Dispatch

ArgumentsSpec == ArgumentsInit /\ [][ArgumentsNext]_argumentVars

-----------------------------------------------------------------------------
(* Properties.                                                             *)

(***************************************************************************)
(* The worker or the supervisor sees the arguments the invoker gave: as    *)
(* many, whole and in their order, spaces and apostrophes included, with   *)
(* the option and the socket in front.  So it is for arguments that are    *)
(* not empty and hold neither a double quote nor a backslash; and, on the  *)
(* command line, as long as none begins with -pipe=, which is swallowed    *)
(* there.  Java code may hand over such arguments too: what is taken out   *)
(* is the option that has been added for it.                               *)
(***************************************************************************)
ArgumentsArrive ==
  /\ args # <<>>
  /\ \A n \in DOMAIN sent.args : Plain(sent.args[n]) /\ (IsPipeOption(sent.args[n]) => sent.java)
  => args = <<Extended, Socket>> \o sent.args
===============================================================================
