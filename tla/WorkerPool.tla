------------------------------ MODULE WorkerPool ------------------------------
(***************************************************************************)
(* What the launcher promises its clients: the worker commands it accepts  *)
(* are started one by one, in the order they were accepted, each at most   *)
(* once, and the processes alive at any time never outnumber the           *)
(* configured limit.  How that is done - a message queue, a work queue     *)
(* under a timed mutex, a shared counter, a fork and a waitid() thread -   *)
(* is the business of Launcher, which is shown to implement this module.   *)
(***************************************************************************)
EXTENDS Naturals, Sequences, FiniteSets

CONSTANTS
  Jobs,      \* worker command lines; every message is a job of its own
  Jvm,       \* the supervisor's process, alive from the start
  Limit      \* most processes alive at a time (ChildProcessMaxCount)

VARIABLES
  accepted,  \* jobs taken over from the clients so far
  waiting,   \* accepted jobs not started yet, oldest first
  running    \* processes alive

vars == <<accepted, waiting, running>>

Init ==
  /\ accepted = {}
  /\ waiting = <<>>
  /\ running = {Jvm}

Accept(j) ==
  /\ j \notin accepted
  /\ accepted' = accepted \cup {j}
  /\ waiting' = Append(waiting, j)
  /\ UNCHANGED running

Start ==
  /\ waiting # <<>>
  /\ Cardinality(running) < Limit
  /\ running' = running \cup {Head(waiting)}
  /\ waiting' = Tail(waiting)
  /\ UNCHANGED accepted

\* A job whose process cannot be created is given up, never retried.
GiveUp ==
  /\ waiting # <<>>
  /\ waiting' = Tail(waiting)
  /\ UNCHANGED <<accepted, running>>

End(p) ==
  /\ p \in running
  /\ running' = running \ {p}
  /\ UNCHANGED <<accepted, waiting>>

Next ==
  \/ \E j \in Jobs : Accept(j)
  \/ Start
  \/ GiveUp
  \/ \E p \in Jobs \cup {Jvm} : End(p)

Spec == Init /\ [][Next]_vars
===============================================================================
