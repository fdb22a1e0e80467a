------------------------------- MODULE JvmOptions -------------------------------
(***************************************************************************)
(* The options a JVM is created with: jvmArgs of the annotation before     *)
(* CommandLineArgs of config.ini, consolidated so that of the options with *)
(* one prefix the first is kept, and sorted into those the launcher sets   *)
(* itself and those that are passed on.                                    *)
(*                                                                         *)
(* An option is [prefix, is, value]: its text up to the first of           *)
(* "=:0123456789", what set_JavaVMOptions() and                            *)
(* prepend_to_java_library_path() take it for, and the rest.               *)
(***************************************************************************)
EXTENDS Naturals, Sequences, SequencesExt, Selection

CONSTANTS
  Overrides,   \* jvmArgs
  Configured,  \* CommandLineArgs
  OptionPrefixes, ValueParts,  \* what their texts are made of
  Null

\* The library path is known in any mixture of small and capital letters, the others in one.
Options ==
  {o \in [prefix : OptionPrefixes, is : {"option", "classpath", "cwd", "library"}, value : Seq(ValueParts)] :
     /\ o.is = "classpath" => o.prefix = "-Djava.class.path"
     /\ o.is = "cwd" => o.prefix = "-Duser.dir"}

ASSUME OptionsAssumption ==
  /\ Overrides \subseteq Seq(Options) /\ Configured \subseteq Seq(Options)
  /\ "-djava.library.path" \in OptionPrefixes /\ "exe" \in ValueParts
  /\ Null \notin Options

VARIABLES
  override, configured,  \* the two lists (input)
  argv, argc,
  gap, next,             \* i and j of the loop that compacts argv, counted from 0
  jvm,                   \* [classpath, cwd, passed], Null until it is created
  phase

optionVars == <<override, configured, argv, argc, gap, next, jvm, phase>>

-----------------------------------------------------------------------------
IsLibraryPath(o) == o.is = "library"

\* The option that is added has the text the others are searched for, in small letters.
OwnLibrary == [prefix |-> "-djava.library.path", is |-> "library", value |-> <<"exe">>]

\* prepend_to_java_library_path(): the launcher's directory, to the first such option.
Prepended(opts) ==
  LET at == SelectInSeq(opts, IsLibraryPath)
  IN IF at = 0 THEN Append(opts, OwnLibrary)
     ELSE [opts EXCEPT ![at].value = <<"exe">> \o @]

\* Variant: config.ini first.
ConfiguredFirst == Prepended(configured) \o override

CommandLine == override \o Prepended(configured)

\* Every option whose prefix has been met is taken out.
Marked(list) ==
  [n \in DOMAIN list |->
     IF \E k \in 1..(n - 1) : list[k].prefix = list[n].prefix THEN Null ELSE list[n]]
RemovedCount == Len(Selected(Marked(CommandLine), {Null}))

OptionsInit ==
  /\ override \in Overrides /\ configured \in Configured
  /\ argv = <<>> /\ argc = 0 /\ gap = 0 /\ next = 1 /\ jvm = Null /\ phase = "parse"

\* consolidate_jvm_options(), up to the loop that compacts.
Consolidate ==
  /\ phase = "parse"
  /\ argc' = Len(CommandLine)
  /\ argv' = IF Len(CommandLine) < 2 THEN CommandLine ELSE Marked(CommandLine)
  /\ phase' = IF RemovedCount > 0 THEN "compact" ELSE "set"
  /\ UNCHANGED <<override, configured, gap, next, jvm>>

Curr == argv[gap + 1]
Nxt == argv[next + 1]
Compacting == phase = "compact" /\ gap < argc - 1 /\ next < argc

\* Only next moves on over a gap that is wider than one.
IndicesMove ==
  /\ next' = next + 1
  /\ gap' = IF Curr = Null /\ Nxt = Null THEN gap ELSE gap + 1

\* One round of the loop: an option moves into the gap, and the gap to where it was.
Compact ==
  /\ Compacting
  /\ argv' = IF Curr = Null /\ Nxt # Null THEN [argv EXCEPT ![gap + 1] = Nxt, ![next + 1] = Null] ELSE argv
  /\ IndicesMove
  /\ UNCHANGED <<override, configured, argc, jvm, phase>>

CompactDone ==
  /\ phase = "compact" /\ ~Compacting
  /\ argc' = argc - RemovedCount
  /\ phase' = "set"
  /\ UNCHANGED <<override, configured, argv, gap, next, jvm>>

\* set_JavaVMOptions() for one argument.
Sorted(o, so) ==
  CASE o.is = "classpath" -> [so EXCEPT !.classpath = o.value]
    [] o.is = "cwd" -> IF o.value = <<>> THEN so ELSE [so EXCEPT !.cwd = o.value]
    [] OTHER -> [so EXCEPT !.passed = Append(@, o)]

\* What is set after each number of arguments.
Setting(list) ==
  LET after[n \in 0..Len(list)] ==
        IF n = 0 THEN [classpath |-> Null, cwd |-> Null, passed |-> <<>>]
        ELSE Sorted(list[n], after[n - 1])
  IN after

\* JNI_CreateJavaVM(); the class path of the environment is the default.
Create ==
  /\ phase = "set"
  /\ jvm' = Setting(SubSeq(argv, 1, argc))[argc]
  /\ phase' = "created"
  /\ UNCHANGED <<override, configured, argv, argc, gap, next>>

OptionsNext == Consolidate \/ Compact \/ CompactDone \/ Create

OptionsSpec == OptionsInit /\ [][OptionsNext]_optionVars

-----------------------------------------------------------------------------
(* Properties.                                                             *)

\* The options in the order in which they count; the last stands for the added library path.
Given ==
  override \o configured
    \o (IF \E n \in DOMAIN configured : IsLibraryPath(configured[n]) THEN <<>>
        ELSE <<[prefix |-> "-djava.library.path", is |-> "library", value |-> <<>>]>>)

\* The first library path of config.ini, or the option added for it, begins with the launcher's directory.
LeadsToLauncher(k) ==
  /\ k > Len(override) /\ IsLibraryPath(Given[k])
  /\ ~\E j \in (Len(override) + 1)..(k - 1) : IsLibraryPath(Given[j])
Meant(k) == IF LeadsToLauncher(k) THEN [Given[k] EXCEPT !.value = <<"exe">> \o @] ELSE Given[k]

Wins(k) == ~\E j \in 1..(k - 1) : Given[j].prefix = Given[k].prefix
PassedOn == {k \in DOMAIN Given : Wins(k) /\ Given[k].is \notin {"classpath", "cwd"}}

(***************************************************************************)
(* Of the options with one prefix the first is passed on, those of the     *)
(* annotation coming before those of config.ini: the annotation's takes    *)
(* the place of config.ini's, but of two in one list that share a prefix,  *)
(* as all of -XX: and all of -javaagent: do, the second is lost.  No other *)
(* option is lost, changes its order or is passed twice, however many gaps *)
(* there are.  The first library path in config.ini begins with the        *)
(* launcher's directory; if there is none an option in small letters is    *)
(* added, which is not the one a JVM looks for.                            *)
(***************************************************************************)
OverridesWin ==
  phase = "created" =>
    /\ \A n \in DOMAIN jvm.passed : \E k \in PassedOn : jvm.passed[n] = Meant(k)
    /\ \A k \in PassedOn : \E n \in DOMAIN jvm.passed : jvm.passed[n] = Meant(k)
    /\ \A m, n \in DOMAIN jvm.passed : \A j, k \in PassedOn :
         m < n /\ jvm.passed[m] = Meant(j) /\ jvm.passed[n] = Meant(k) => j < k
    /\ \A k \in DOMAIN Given : Wins(k) =>
         /\ Given[k].is = "classpath" => jvm.classpath = Given[k].value
         /\ Given[k].is = "cwd" /\ Given[k].value # <<>> => jvm.cwd = Given[k].value
===============================================================================
