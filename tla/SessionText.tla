------------------------------ MODULE SessionText ------------------------------
(***************************************************************************)
(* The session state as the text in shared memory: operator<< of the       *)
(* service that publishes it, operator>> of every client that reads it.    *)
(* Text is a sequence of characters; a number is one character, its digits *)
(* are not told apart.                                                     *)
(***************************************************************************)
EXTENDS Naturals, Sequences, SequencesExt

CONSTANTS
  Sessions,  \* what a service may publish
  Alphabet, Numbers,
  LineFeed, Return,
  Type,      \* a name by typeid(), which readers pass over
  NumberOf(_), IsNumber(_), Digits(_)

Names == Seq(Alphabet \ {LineFeed})
Methods == [static : Numbers, which : Numbers, name : Names, descriptor : Names]
Commands == [static : Numbers, which : Numbers, name : Names, descriptor : Names,
             command : Names, options : Names]
Contents ==
  {ss \in [pid : Numbers, max : Numbers, points : Seq(Methods), words : Names, classPath : Names,
           supervisor : Seq(Commands), worker : Seq(Commands),
           properties : Seq(Seq(Alphabet \ {Return})), level : Names, jvm : Names] :
     Len(ss.points) = 7 /\ {Len(ss.supervisor), Len(ss.worker), Len(ss.properties)} \subseteq Numbers}

ASSUME SessionAssumption ==
  /\ Sessions \subseteq Contents /\ Type \in Names
  /\ {LineFeed, Return} \subseteq Alphabet /\ LineFeed # Return
  /\ \A n \in Numbers : /\ Digits(n) \in Alphabet \ {LineFeed, Return}
                        /\ IsNumber(Digits(n)) /\ NumberOf(Digits(n)) = n

VARIABLES
  session,
  shared,      \* what is in shared memory
  taken        \* [in, state, got]: what is left, the stream's state, the values read in order

textVars == <<session, shared, taken>>

-----------------------------------------------------------------------------
(* operator<<                                                              *)

Line(s) == s \o <<LineFeed>>
NumberLine(n) == Line(<<Digits(n)>>)

MethodText(m) ==
  Line(Type) \o NumberLine(m.static) \o NumberLine(m.which) \o Line(m.name) \o Line(m.descriptor)
CommandText(m) == Line(Type) \o MethodText(m) \o Line(m.command) \o Line(m.options)

\* Variant: a property ends as everything else does.
PropertyEndsLine == LineFeed

\* A property may hold line feeds; line.separator is one.
PropertyEnd == Return

\* stream_vec_out(), and the line feed its callers add.
VectorText(texts, end) ==
  Line(Type) \o NumberLine(Len(texts))
    \o FlattenSeq([n \in DOMAIN texts |-> Append(texts[n], end)]) \o <<LineFeed, LineFeed>>

CommandTexts(table) == [n \in DOMAIN table |-> CommandText(table[n])]

SessionOut(ss) ==
  Line(Type) \o NumberLine(ss.pid) \o NumberLine(ss.max)
    \o FlattenSeq([n \in DOMAIN ss.points |-> Line(MethodText(ss.points[n]))])
    \o Line(ss.words) \o Line(ss.classPath)
    \o VectorText(CommandTexts(ss.supervisor), LineFeed) \o VectorText(CommandTexts(ss.worker), LineFeed)
    \o VectorText(ss.properties, PropertyEnd)
    \o Line(ss.level) \o Line(ss.jvm)

-----------------------------------------------------------------------------
(* operator>>: a stream that has failed gives nothing more.                *)

Stream(in, state, got) == [in |-> in, state |-> state, got |-> got]

\* std::getline() up to the character, or to the end.
Upto(r, c) ==
  LET at == SelectInSeq(r.in, LAMBDA x : x = c)
      n == IF at = 0 THEN Len(r.in) ELSE at - 1
  IN Stream(SubSeq(r.in, n + 2, Len(r.in)), IF r.in = <<>> THEN "fail" ELSE "good",
            Append(r.got, SubSeq(r.in, 1, n)))

\* >> of a number, over the white space before it.
Number(r) ==
  LET at == SelectInSeq(r.in, LAMBDA x : x \notin {LineFeed, Return})
  IN IF at # 0 /\ IsNumber(r.in[at])
     THEN Stream(SubSeq(r.in, at + 1, Len(r.in)), "good", Append(r.got, NumberOf(r.in[at])))
     ELSE [r EXCEPT !.state = "fail"]

\* is.getline(&newline, 1): there is room for nothing but the line feed.
Newline(r) ==
  IF r.in # <<>> /\ Head(r.in) = LineFeed THEN [r EXCEPT !.in = Tail(@)] ELSE [r EXCEPT !.state = "fail"]

Step(r, what) ==
  IF r.state = "fail" THEN r
  ELSE CASE what = "line" -> Upto(r, LineFeed)
         [] what = "property" -> Upto(r, PropertyEnd)
         [] what = "number" -> Number(r)
         [] what = "newline" -> Newline(r)

\* The stream after each number of steps.
Reached(r, whats) ==
  LET after[n \in 0..Len(whats)] == IF n = 0 THEN r ELSE Step(after[n - 1], whats[n])
  IN after
Steps(r, whats) == Reached(r, whats)[Len(whats)]

NumberSteps == <<"number", "newline">>
MethodSteps == <<"line">> \o NumberSteps \o NumberSteps \o <<"line">> \o <<"line">>
CommandSteps == <<"line">> \o MethodSteps \o <<"line">> \o <<"line">>

\* stream_vec_in(), and the line feed its callers take.
VectorIn(r, element) ==
  LET head == Steps(r, <<"line">> \o NumberSteps)
      count == IF head.state = "good" THEN Last(head.got) ELSE 0
  IN Steps(head, FlattenSeq([n \in 1..count |-> element]) \o <<"newline", "newline">>)

SessionIn(s) ==
  LET numbers == Steps(Stream(s, "good", <<>>), <<"line">> \o NumberSteps \o NumberSteps)
      points == Steps(numbers, FlattenSeq([n \in 1..7 |-> MethodSteps \o <<"newline">>]))
      lines == Steps(points, <<"line", "line">>)
      commands == VectorIn(VectorIn(lines, CommandSteps \o <<"newline">>), CommandSteps \o <<"newline">>)
  IN Steps(VectorIn(commands, <<"property">>), <<"line", "line">>)

-----------------------------------------------------------------------------
TextInit == session \in Sessions /\ shared = <<>> /\ taken = Stream(<<>>, "good", <<>>)

Publish == shared = <<>> /\ shared' = SessionOut(session) /\ UNCHANGED <<session, taken>>
ReadSession == shared # <<>> /\ taken.got = <<>> /\ taken' = SessionIn(shared) /\ UNCHANGED <<session, shared>>

TextNext == Publish \/ ReadSession

TextSpec == TextInit /\ [][TextNext]_textVars

-----------------------------------------------------------------------------
(* Properties.                                                             *)

MethodValues(m) == <<Type, m.static, m.which, m.name, m.descriptor>>
CommandValues(m) == <<Type>> \o MethodValues(m) \o <<m.command, m.options>>
VectorValues(values) == <<Type, Len(values)>> \o FlattenSeq(values)
TableValues(table) == VectorValues([n \in DOMAIN table |-> CommandValues(table[n])])
Values(ss) ==
  <<Type, ss.pid, ss.max>> \o FlattenSeq([n \in DOMAIN ss.points |-> MethodValues(ss.points[n])])
    \o <<ss.words, ss.classPath>>
    \o TableValues(ss.supervisor) \o TableValues(ss.worker)
    \o VectorValues([n \in DOMAIN ss.properties |-> <<ss.properties[n]>>]) \o <<ss.level, ss.jvm>>

(***************************************************************************)
(* What a client reads is what the service published, field by field and   *)
(* to the end: with empty strings and empty tables, and with properties    *)
(* whose values hold line feeds.                                           *)
(***************************************************************************)
SessionComesThrough ==
  taken.got # <<>> => taken.state = "good" /\ taken.in = <<>> /\ taken.got = Values(session)
===============================================================================
