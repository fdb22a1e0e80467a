----------------------------- MODULE CommandTables -----------------------------
(***************************************************************************)
(* How annotations and config.ini become the tables by which a service     *)
(* routes commands: the scan of the class path, the settings, what becomes *)
(* of both in the session state that is published, and the look-ups.       *)
(*                                                                         *)
(* An annotated method is a record: its class, what it is annotated as,    *)
(* and for a command its word.  A word is a name and how it is spelt.      *)
(***************************************************************************)
EXTENDS Naturals, Sequences, SequencesExt, Selection

CONSTANTS
  TestClasses,   \* classes whose names begin with spartan.test
  Base,          \* spartan.SpartanBase
  None

Roles == {"main", "supervisor", "worker"}
Points == {"status", "shutdown", "notify", "completion", "supervise"}

Lower(w) == [w EXCEPT !.upper = FALSE]

-----------------------------------------------------------------------------
(* The scan: AnnotationScanner.populate() for one method.                  *)

NoTables == [main |-> None, supervisor |-> <<>>, worker |-> <<>>]

IsTest(m) == m.class \in TestClasses
Users(table) == Selected(table, {m \in ToSet(table) : ~IsTest(m)})

\* Variant: an entry of the user's leaves the test entries where they are.
OustsNothing(m, isMain, role) == FALSE

\* The user's main, or a command of the user's, does away with the test entries so far.
Ousts(m, isMain, role) == ~IsTest(m) /\ (isMain \/ m.role = role)

ScanMethod(t, m) ==
  LET isMain == m.role = "main" /\ (t.main = None \/ IsTest(t.main))
      With(role) == IF m.role = role THEN Append(t[role], m) ELSE t[role]
      Left(role) == IF Ousts(m, isMain, role) THEN Users(With(role)) ELSE With(role)
  IN [main |-> IF isMain THEN m ELSE t.main,
      supervisor |-> Left("supervisor"), worker |-> Left("worker")]

\* The order of the jar files on the class path and of the classes in them.
Scan(order) ==
  LET upTo[n \in 0..Len(order)] == IF n = 0 THEN NoTables ELSE ScanMethod(upTo[n - 1], order[n])
  IN upTo[Len(order)]
Scans(methods) == {Scan(order) : order \in SetToSeqs(methods)}

-----------------------------------------------------------------------------
(***************************************************************************)
(* The settings, with the defaults of the sessionState constructor.        *)
(* SupervisorEntryPoint is looked at before it has been read, and never    *)
(* taken.                                                                  *)
(***************************************************************************)
GivenPoints == Points \ {"supervise"}

Settings(main, points, childPoint, commands) ==
  [main |-> main, points |-> points, childPoint |-> childPoint, commands |-> commands]

\* invalid_initialization_exception: an entry point for commands that are not named.
MissingCommands(cfg) == cfg.childPoint # None /\ cfg.commands = {}

OrElse(x, default) == IF x = None THEN default ELSE x

Session(cfg) ==
  LET class == OrElse(cfg.main, Base)
  IN [main |-> cfg.main,
      points |-> [p \in Points |-> IF p \in GivenPoints THEN OrElse(cfg.points[p], class) ELSE class],
      childPoint |-> OrElse(cfg.childPoint, class),
      commands |-> cfg.commands, supervisor |-> <<>>, worker |-> <<>>]

\* Variant: the standard entry points stay where the settings have put them.
PointsKept(ss, class) == ss.points

\* A main found by its annotation takes the standard entry points to its class.
PointsMoved(ss, class) == [p \in Points |-> class]

\* process_initial_cmd_dispatch_info(); config.ini's main overrides the annotated one.
HasMain(ss, t) == ss.main # None \/ t.main # None
Applied(ss, t) ==
  [ss EXCEPT !.main = IF @ = None THEN t.main.class ELSE @,
             !.points = IF ss.main = None THEN PointsMoved(ss, t.main.class) ELSE @,
             !.supervisor = t.supervisor, !.worker = t.worker]

\* A session that has been read from a shared memory still full of zeroes.
Blank == [main |-> None, points |-> [p \in Points |-> None], childPoint |-> None,
          commands |-> {}, supervisor |-> <<>>, worker |-> <<>>]

-----------------------------------------------------------------------------
(* Look-ups: of the queue by the client, of the method by who executes.    *)

\* Variant: the words of the annotations are taken as they are.
WorkerWordsAsIs(ss) == {Lower(w) : w \in ss.commands} \cup {m.word : m \in ToSet(ss.worker)}

\* get_child_processor_commands(): all in lower case.
WorkerWords(ss) == {Lower(w) : w \in ss.commands} \cup {Lower(m.word) : m \in ToSet(ss.worker)}

QueueFor(ss, w) == IF Lower(w) \in WorkerWords(ss) THEN "launcher" ELSE "supervisor"

SameWord(v, w) == Lower(v) = Lower(w)

\* The first match, or the standard entry point.
Default(class) == [class |-> class, role |-> "default", word |-> None]
LookUp(table, w, class) ==
  LET hits == Selected(table, {m \in ToSet(table) : SameWord(m.word, w)})
  IN IF hits = <<>> THEN Default(class) ELSE Head(hits)

WorkerMethod(ss, w) == LookUp(ss.worker, w, ss.childPoint)
SupervisorMethod(ss, w) == LookUp(ss.supervisor, w, ss.points["supervise"])
===============================================================================
