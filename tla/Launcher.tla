------------------------------- MODULE Launcher -------------------------------
(***************************************************************************)
(* The launcher process of a spartan service: the parent process that runs *)
(* supervisor() of spartan.cpp with is_launcher_process = true.            *)
(*                                                                         *)
(* Three threads share it.  The main thread receives worker commands from  *)
(* the launcher's POSIX message queue and puts them on dispatch_msg_queue; *)
(* the de-queue thread takes them off in batches, as far as the limit on   *)
(* child processes allows, and forks a worker for each; the waitid thread  *)
(* (the reaper) collects children that have ended.  The last two report to *)
(* the supervisor process on its message queue, supq.  On --STOP or SIGINT *)
(* the main thread leaves its loop, sends --SHUTDOWN to the supervisor and *)
(* collects children itself, beside the reaper, until none is left.        *)
(*                                                                         *)
(* A job stands for the message of a worker command and for the process    *)
(* forked for it: pid reuse is not modelled.                               *)
(***************************************************************************)
EXTENDS DispatchQueue, FiniteSets

CONSTANTS
  Jobs,          \* worker commands, each sent at most once
  Jvm,           \* the supervisor JVM process, forked before all others
  Stop,          \* the --STOP message
  Cmds,          \* sub-command names
  CmdOf,         \* the sub-command of each job
  None,          \* no process
  LauncherGroup, \* the process group of the launcher itself
  MqMax,         \* mq_maxmsg of a message queue
  ForkMayFail,   \* fork() may return -1
  ChildMayStop,  \* a child may be stopped and continued by signals
  MayQuit,       \* --STOP and SIGINT may come
  SupervisorMayCrash

Procs == Jobs \cup {Jvm}

ASSUME LauncherAssumption ==
  /\ IsFiniteSet(Jobs)
  /\ Jvm \notin Jobs
  /\ Stop \notin Jobs
  /\ None \notin Procs
  /\ LauncherGroup \notin Procs
  /\ CmdOf \in [Jobs -> Cmds]
  /\ MqMax \in Nat \ {0}
  /\ ForkMayFail \in BOOLEAN
  /\ ChildMayStop \in BOOLEAN
  /\ MayQuit \in BOOLEAN
  /\ SupervisorMayCrash \in BOOLEAN

VARIABLES
  proc,        \* life of each job's message and then process; see ProcStates
  pgrp,        \* process group of each process
  mq,          \* the launcher's message queue
  mpc, msg,    \* main thread: where it is, the message it holds
  mpid,        \* main thread, on cleanup: the process its waitid() returned
  dpid,        \* de-queue thread: the worker it has just forked
  prcs_grps,   \* process group recorded for each command
  rpc, rpid,   \* waitid thread: where it is, the process waitid() returned
  flag,        \* the exit flag
  shutting_down,
  supq,        \* the supervisor's message queue
  supq_state   \* whether that queue exists

mainVars == <<mpc, msg, mpid>>
forkVars == <<dpid, prcs_grps>>
reaperVars == <<rpc, rpid>>
quitVars == <<flag, shutting_down>>
supVars == <<supq, supq_state>>
vars == <<proc, pgrp, mq, mainVars, queueVars, forkVars, reaperVars, quitVars, supVars>>

-----------------------------------------------------------------------------
(* Processes.                                                              *)

Executing == {"running", "resumed"}
Live == Executing \cup {"stopped", "halted"}   \* halted: stopped and reported so
Unreaped == Live \cup {"zombie"}
ProcStates == Unreaped \cup {"idle", "sent", "accepted", "nofork", "reaped", "done"}

Alive == {p \in Procs : proc[p] \in Live}
Children == {p \in Procs : proc[p] \in Unreaped}

GroupExists(g) == \E p \in Children : pgrp[p] = g

(* The launcher's life.                                                    *)

Receiving == mpc \in {"receive", "enqueue", "push"}
Up == mpc # "gone"
\* The locals of supervisor() have been destroyed; the threads that use them run on.
TornDown == Up /\ ~Receiving

(***************************************************************************)
(* send_supervisor_mq_msg: nothing once the exit flag is up, failure when  *)
(* the queue is not there (either way the caller goes on), and otherwise   *)
(* mq_send(), which blocks while the queue is full.                        *)
(***************************************************************************)
Note(c, p) == [cmd |-> c, pid |-> p]

Deliver(m) ==
  IF supq_state = "open"
  THEN Len(supq) < MqMax /\ supq' = Append(supq, m) /\ UNCHANGED supq_state
  ELSE UNCHANGED supVars

SendSupervisor(m) == IF flag THEN UNCHANGED supVars ELSE Deliver(m)

-----------------------------------------------------------------------------
(* Clients and the message queue, read by the main thread.                 *)

ClientSend(j) ==
  /\ Receiving
  /\ proc[j] = "idle"
  /\ Len(mq) < MqMax
  /\ mq' = Append(mq, j)
  /\ proc' = [proc EXCEPT ![j] = "sent"]
  /\ UNCHANGED <<pgrp, mainVars, queueVars, forkVars, reaperVars,
                 quitVars, supVars>>

ClientStop ==
  /\ MayQuit
  /\ Receiving
  /\ Len(mq) < MqMax
  /\ \A i \in 1..Len(mq) : mq[i] # Stop
  /\ mq' = Append(mq, Stop)
  /\ UNCHANGED <<proc, pgrp, mainVars, queueVars, forkVars, reaperVars,
                 quitVars, supVars>>

\* Variant: the flag is left as it is.
KeepFlag == flag' = flag

SetExitFlag == flag' = TRUE

Interrupt ==
  /\ MayQuit
  /\ Up
  /\ flag' = TRUE
  /\ UNCHANGED <<proc, pgrp, mq, mainVars, queueVars, forkVars,
                 reaperVars, shutting_down, supVars>>

\* The loop ends: mqd_sp unlinks the queue, and what was left in it is lost.
LeaveLoop == mpc' = "cleanup" /\ mq' = <<>>

\* Variant: --STOP is taken for a worker command.
IsStopNever(m) == FALSE

IsStop(m) == m = Stop

Receive ==
  /\ mpc = "receive"
  /\ mq # <<>>
  /\ ~IsStop(Head(mq))
  /\ msg' = Head(mq)
  /\ mq' = Tail(mq)
  /\ proc' = [proc EXCEPT ![Head(mq)] = "accepted"]
  /\ mpc' = "enqueue"
  /\ UNCHANGED <<pgrp, mpid, queueVars, forkVars, reaperVars, quitVars, supVars>>

ReceiveStop ==
  /\ mpc = "receive"
  /\ mq # <<>>
  /\ IsStop(Head(mq))
  /\ LeaveLoop
  /\ UNCHANGED <<proc, pgrp, msg, mpid, queueVars, forkVars,
                 reaperVars, quitVars, supVars>>

\* mq_timedreceive() gives up after five seconds, and only then is flag looked at.
ReceiveTimeout ==
  /\ mpc = "receive"
  /\ mq = <<>>
  /\ flag
  /\ LeaveLoop
  /\ UNCHANGED <<proc, pgrp, msg, mpid, queueVars, forkVars,
                 reaperVars, quitVars, supVars>>

BeginEnqueue ==
  /\ mpc = "enqueue"
  /\ LockForEnqueue
  /\ mpc' = "push"
  /\ UNCHANGED <<proc, pgrp, mq, msg, mpid, forkVars, reaperVars, quitVars, supVars>>

EndEnqueue ==
  /\ mpc = "push"
  /\ Enqueue(msg)
  /\ IF flag THEN LeaveLoop ELSE mpc' = "receive" /\ UNCHANGED mq
  /\ UNCHANGED <<proc, pgrp, msg, mpid, forkVars, reaperVars, quitVars, supVars>>

-----------------------------------------------------------------------------
(* The de-queue thread: its rounds, and handle_launcher_msg.               *)

Round(step) ==
  /\ Up
  /\ step
  /\ UNCHANGED <<proc, pgrp, mq, mainVars, forkVars, reaperVars, quitVars, supVars>>

DequeueFork ==
  /\ Up
  /\ dpc = "handle"
  /\ batch' = Tail(batch)
  /\ proc' = [proc EXCEPT ![Head(batch)] = "running"]
  /\ pgrp' = [pgrp EXCEPT ![Head(batch)] = LauncherGroup]
  /\ dpid' = Head(batch)
  /\ dpc' = "setpgid"
  /\ UNCHANGED <<mq, mainVars, lockVars, headroom, count, prcs_grps, reaperVars,
                 quitVars, supVars>>

\* A fork() that fails is logged: the job is dropped and child_process_count keeps its slot.
DequeueForkFails ==
  /\ Up
  /\ ForkMayFail
  /\ dpc = "handle"
  /\ batch' = Tail(batch)
  /\ proc' = [proc EXCEPT ![Head(batch)] = "nofork"]
  /\ dpc' = AfterHandling(batch')
  /\ UNCHANGED <<pgrp, mq, mainVars, lockVars, headroom, count, forkVars,
                 reaperVars, quitVars, supVars>>

(***************************************************************************)
(* setpgid(p, g), its result ignored: it fails once p has been reaped, and *)
(* when g is neither p nor a group some child is in.                       *)
(***************************************************************************)
SetPgid(p, g) ==
  pgrp' = IF p \in Children /\ (g = p \/ GroupExists(g))
          THEN [pgrp EXCEPT ![p] = g]
          ELSE pgrp

\* Variant: the first word of the message, which is the same for all commands.
FirstWord(j) == CHOOSE c \in Cmds : TRUE

SubCommand(j) == CmdOf[j]

\* The first worker of a command starts a group.  A lookup in the map that
\* supervisor() has destroyed may find the entry or not.
DequeueSetPgid ==
  /\ Up
  /\ dpc = "setpgid"
  /\ LET cmd == SubCommand(dpid) IN
       \/ /\ prcs_grps[cmd] # None
          /\ SetPgid(dpid, prcs_grps[cmd])
          /\ UNCHANGED prcs_grps
       \/ /\ prcs_grps[cmd] = None \/ TornDown
          /\ SetPgid(dpid, dpid)
          /\ prcs_grps' = [prcs_grps EXCEPT ![cmd] = dpid]
  /\ dpc' = "notify"
  /\ UNCHANGED <<proc, mq, mainVars, lockVars, headroom, batch, count, dpid,
                 reaperVars, quitVars, supVars>>

DequeueNotify ==
  /\ Up
  /\ dpc = "notify"
  /\ SendSupervisor(Note("NOTIFY", dpid))
  /\ dpid' = None
  /\ dpc' = AfterHandling(batch)
  /\ UNCHANGED <<proc, pgrp, mq, mainVars, lockVars, headroom, batch, count, prcs_grps,
                 reaperVars, quitVars>>

\* After the loop the de-queue thread works on destroyed objects: it goes on as
\* before (the actions above), or the launcher is killed by the fault.
UseAfterScope ==
  /\ TornDown
  /\ \/ dpc = "take" /\ queue # <<>>
     \/ dpc \in {"handle", "setpgid"}
  /\ mpc' = "gone"
  /\ UNCHANGED <<proc, pgrp, mq, msg, mpid, queueVars, forkVars,
                 reaperVars, quitVars, supVars>>

-----------------------------------------------------------------------------
(***************************************************************************)
(* Collecting children.  waitid(P_ALL, WEXITED|WSTOPPED) returns a child   *)
(* that has ended, which is thereby gone, or one that has been stopped,    *)
(* which is told once and lives on.                                        *)
(***************************************************************************)
Reportable == {p \in Procs : proc[p] \in {"zombie", "stopped"}}

AfterWait(p) == IF proc[p] = "zombie" THEN "reaped" ELSE "halted"

\* The slot of a process collected and accounted for.
Settle(p) == IF proc[p] = "reaped" THEN [proc EXCEPT ![p] = "done"] ELSE proc

ReaperWait ==
  /\ Up
  /\ rpc = "waitid"
  /\ \E p \in Reportable :
       /\ proc' = [proc EXCEPT ![p] = AfterWait(p)]
       /\ rpid' = p
  /\ rpc' = "completion"
  /\ UNCHANGED <<pgrp, mq, mainVars, queueVars, forkVars, quitVars, supVars>>

\* No child left (ECHILD): the thread ends if the exit flag is up, or else tries again.
ReaperNoChild ==
  /\ Up
  /\ rpc = "waitid"
  /\ Children = {}
  /\ flag
  /\ rpc' = "returned"
  /\ UNCHANGED <<proc, pgrp, mq, mainVars, queueVars, forkVars, rpid,
                 quitVars, supVars>>

\* The loop ends with this child if the launcher is shutting down.
ReaperCompletion ==
  /\ Up
  /\ rpc = "completion"
  /\ Completion
  /\ proc' = Settle(rpid)
  /\ rpc' = IF shutting_down THEN "lastnotify" ELSE "notify"
  /\ UNCHANGED <<pgrp, mq, mainVars, forkVars, rpid, quitVars, supVars>>

ReaperNotify ==
  /\ Up
  /\ rpc \in {"notify", "lastnotify"}
  /\ SendSupervisor(Note("COMPLETION", rpid))
  /\ rpid' = None
  /\ rpc' = IF rpc = "notify" THEN "waitid" ELSE "returned"
  /\ UNCHANGED <<proc, pgrp, mq, mainVars, queueVars, forkVars, quitVars>>

-----------------------------------------------------------------------------
(* cleanup_supervisor_jvm_ctx, on the main thread.                         *)

CleanupFlags ==
  /\ mpc = "cleanup"
  /\ shutting_down' = TRUE
  /\ SetExitFlag
  /\ mpc' = "shutdown"
  /\ UNCHANGED <<proc, pgrp, mq, msg, mpid, queueVars, forkVars,
                 reaperVars, supVars>>

CleanupShutdown ==
  /\ mpc = "shutdown"
  /\ Deliver(Note("SHUTDOWN", None))
  /\ mpc' = "waitid"
  /\ UNCHANGED <<proc, pgrp, mq, msg, mpid, queueVars, forkVars,
                 reaperVars, quitVars>>

CleanupWait ==
  /\ mpc = "waitid"
  /\ \E p \in Reportable :
       /\ proc' = [proc EXCEPT ![p] = AfterWait(p)]
       /\ mpid' = p
  /\ mpc' = "completion"
  /\ UNCHANGED <<pgrp, mq, msg, queueVars, forkVars, reaperVars,
                 quitVars, supVars>>

CleanupNoChild ==
  /\ mpc = "waitid"
  /\ Children = {}
  /\ flag
  /\ mpc' = "exit"
  /\ UNCHANGED <<proc, pgrp, mq, msg, mpid, queueVars, forkVars,
                 reaperVars, quitVars, supVars>>

\* Variant: the comparison is the wrong way round.
CleanupDoneSwapped == count >= 0

\* The completion routine of the cleanup: done = (child_process_count-- <= 0).
CleanupDone == count <= 0

\* The completion notice that follows is not sent: the exit flag is up.
CleanupCompletion ==
  /\ mpc = "completion"
  /\ FreeSlot
  /\ proc' = Settle(mpid)
  /\ mpid' = None
  /\ mpc' = IF CleanupDone THEN "exit" ELSE "waitid"
  /\ UNCHANGED <<pgrp, mq, msg, lockVars, takeVars, forkVars, reaperVars, quitVars,
                 supVars>>

\* The supervisor's queue is unlinked and the process ends.
Exit ==
  /\ mpc = "exit"
  /\ mpc' = "gone"
  /\ supq' = <<>>
  /\ supq_state' = "gone"
  /\ UNCHANGED <<proc, pgrp, mq, msg, mpid, queueVars, forkVars,
                 reaperVars, quitVars>>

-----------------------------------------------------------------------------
(* The children, among them the supervisor, as the launcher sees them.     *)

WorkerExit(p) ==
  /\ p # Jvm
  /\ proc[p] \in Live
  /\ proc' = [proc EXCEPT ![p] = "zombie"]
  /\ UNCHANGED <<pgrp, mq, mainVars, queueVars, forkVars, reaperVars,
                 quitVars, supVars>>

\* Told to shut down, the supervisor unlinks its queue before its process ends;
\* one that crashes, or that Java code ends with System.exit(), leaves it behind.
SupervisorExit ==
  /\ proc[Jvm] \in Executing
  /\ supq_state = "gone"
  /\ proc' = [proc EXCEPT ![Jvm] = "zombie"]
  /\ UNCHANGED <<pgrp, mq, mainVars, queueVars, forkVars, reaperVars,
                 quitVars, supVars>>

SupervisorCrash ==
  /\ SupervisorMayCrash
  /\ proc[Jvm] \in Live
  /\ proc' = [proc EXCEPT ![Jvm] = "zombie"]
  /\ UNCHANGED <<pgrp, mq, mainVars, queueVars, forkVars, reaperVars,
                 quitVars, supVars>>

\* Bound: each child is stopped once at most.
ChildStop(p) ==
  /\ ChildMayStop
  /\ proc[p] = "running"
  /\ proc' = [proc EXCEPT ![p] = "stopped"]
  /\ UNCHANGED <<pgrp, mq, mainVars, queueVars, forkVars, reaperVars,
                 quitVars, supVars>>

ChildContinue(p) ==
  /\ proc[p] \in {"stopped", "halted"}
  /\ proc' = [proc EXCEPT ![p] = "resumed"]
  /\ UNCHANGED <<pgrp, mq, mainVars, queueVars, forkVars, reaperVars,
                 quitVars, supVars>>

SupervisorOpensQueue ==
  /\ supq_state = "unborn"
  /\ proc[Jvm] \in Executing
  /\ supq_state' = "open"
  /\ UNCHANGED <<proc, pgrp, mq, mainVars, queueVars, forkVars,
                 reaperVars, quitVars, supq>>

SupervisorReceives ==
  /\ supq_state = "open"
  /\ proc[Jvm] \in Executing
  /\ supq # <<>>
  /\ IF Head(supq).cmd = "SHUTDOWN"
     THEN supq' = <<>> /\ supq_state' = "gone"
     ELSE supq' = Tail(supq) /\ UNCHANGED supq_state
  /\ UNCHANGED <<proc, pgrp, mq, mainVars, queueVars, forkVars,
                 reaperVars, quitVars>>

-----------------------------------------------------------------------------
Init ==
  /\ proc = [p \in Procs |-> IF p = Jvm THEN "running" ELSE "idle"]
  /\ pgrp = [p \in Procs |-> LauncherGroup]
  /\ mq = <<>>
  /\ mpc = "receive" /\ msg = None /\ mpid = None
  /\ DQInit
  /\ dpid = None /\ prcs_grps = [c \in Cmds |-> None]
  /\ rpc = "waitid" /\ rpid = None
  /\ flag = FALSE /\ shutting_down = FALSE
  /\ supq = <<>> /\ supq_state = "unborn"

MainStep ==
  \/ Receive \/ ReceiveStop \/ ReceiveTimeout \/ BeginEnqueue \/ EndEnqueue
  \/ CleanupFlags \/ CleanupShutdown \/ CleanupWait \/ CleanupNoChild
  \/ CleanupCompletion \/ Exit

DequeueStep ==
  \/ Round(DequeueLock) \/ Round(DequeueTest) \/ Round(DequeueNotified)
  \/ Round(DequeueTimeout) \/ Round(DequeueTake)
  \/ DequeueFork \/ DequeueForkFails \/ DequeueSetPgid \/ DequeueNotify
  \/ UseAfterScope

ReaperStep == ReaperWait \/ ReaperNoChild \/ ReaperCompletion \/ ReaperNotify

WorldStep ==
  \/ \E j \in Jobs : ClientSend(j) \/ WorkerExit(j)
  \/ ClientStop \/ Interrupt
  \/ \E p \in Procs : ChildStop(p) \/ ChildContinue(p)

SupervisorStep ==
  SupervisorExit \/ SupervisorCrash \/ SupervisorOpensQueue \/ SupervisorReceives

Next == MainStep \/ DequeueStep \/ ReaperStep \/ WorldStep \/ SupervisorStep

Spec == Init /\ [][Next]_vars

(***************************************************************************)
(* The threads run on (WF).  The locks are taken with timed tries in loops *)
(* and held for a few statements; the de-queue thread sleeps without the   *)
(* lock in between, so a thread that keeps trying gets it (SF).  The       *)
(* supervisor reads its queue as long as it runs.                          *)
(***************************************************************************)
ServiceFairness ==
  /\ WF_vars(Receive \/ ReceiveStop \/ ReceiveTimeout \/ EndEnqueue)
  /\ SF_vars(BeginEnqueue)
  /\ WF_vars(Round(DequeueTest \/ DequeueTake) \/ DequeueFork \/ DequeueSetPgid)
  /\ SF_vars(Round(DequeueLock \/ DequeueNotified))
  /\ SF_vars(Round(DequeueTimeout))
  /\ SF_vars(DequeueNotify)
  /\ WF_vars(ReaperWait \/ ReaperNoChild \/ ReaperCompletion)
  /\ SF_vars(ReaperNotify)
  /\ WF_vars(SupervisorOpensQueue \/ SupervisorReceives)

\* On the way out the main thread runs on as well, and so does the supervisor.
QuitFairness ==
  /\ SF_vars(CleanupShutdown)
  /\ WF_vars(CleanupFlags \/ CleanupWait \/ CleanupNoChild \/ CleanupCompletion \/ Exit)
  /\ WF_vars(SupervisorExit)

ServiceSpec == Spec /\ ServiceFairness

\* Workers end: by themselves, or killed by the supervisor when it shuts down.
QuitSpec == ServiceSpec /\ QuitFairness /\ \A j \in Jobs : WF_vars(WorkerExit(j))

-----------------------------------------------------------------------------
(* Jobs accepted and not handed to fork() yet, oldest first.               *)

Held == IF mpc \in {"enqueue", "push"} THEN <<msg>> ELSE <<>>
Pending == (batch \o queue) \o Held

\* Processes that hold a slot: from fork() until the completion routine has run;
\* a fork() that failed holds its slot for good.
Slotted == {p \in Procs : proc[p] \in Unreaped \cup {"reaped", "nofork"}}

-----------------------------------------------------------------------------
(* Properties.                                                             *)

Message == [cmd : {"NOTIFY", "COMPLETION", "SHUTDOWN"}, pid : Procs \cup {None}]

\* Every variable keeps to its type.
TypeOK ==
  /\ proc \in [Procs -> ProcStates]
  /\ pgrp \in [Procs -> Procs \cup {LauncherGroup}]
  /\ mq \in Seq(Jobs \cup {Stop})
  /\ mpc \in {"receive", "enqueue", "push", "cleanup", "shutdown", "waitid",
              "completion", "exit", "gone"}
  /\ msg \in Jobs \cup {None}
  /\ mpid \in Procs \cup {None}
  /\ qm \in {"free", "main", "dequeue"}
  /\ queue \in Seq(Jobs)
  /\ qready \in BOOLEAN /\ notified \in BOOLEAN
  /\ dpc \in {"lock", "test", "lasttest", "wait", "take", "handle", "setpgid", "notify"}
  /\ dpid \in Jobs \cup {None}
  /\ headroom \in Int
  /\ batch \in Seq(Jobs)
  /\ prcs_grps \in [Cmds -> Jobs \cup {None}]
  /\ count \in Int
  /\ rpc \in {"waitid", "completion", "notify", "lastnotify", "returned"}
  /\ rpid \in Procs \cup {None}
  /\ flag \in BOOLEAN /\ shutting_down \in BOOLEAN
  /\ supq \in Seq(Message)
  /\ supq_state \in {"unborn", "open", "gone"}

(***************************************************************************)
(* child_process_count, which several threads change without a common      *)
(* lock, is exact: it counts the processes that hold a slot and the        *)
(* messages taken from the queue and not forked yet.                       *)
(***************************************************************************)
SlotsAccounted == count = Cardinality(Slotted) + Len(batch)

(***************************************************************************)
(* A child that is stopped gives its slot back, and again when it ends;    *)
(* still no slot is ever lost to anything but a failed fork().             *)
(***************************************************************************)
NoSlotLost == count <= Cardinality(Slotted) + Len(batch)

(***************************************************************************)
(* Never more children, the supervisor's process included, than            *)
(* ChildProcessMaxCount, although the de-queue thread works with a         *)
(* headroom computed before and children end all the time.                 *)
(***************************************************************************)
ProcessLimit == Cardinality(Children) <= MaxCount

(***************************************************************************)
(* killProcessGroup on a worker reaches workers of the same command only:  *)
(* two children in one group, unless it is the launcher's own, execute the *)
(* same sub-command.                                                       *)
(***************************************************************************)
GroupsApart ==
  \A p, q \in Children \ {Jvm} :
    pgrp[p] = pgrp[q] /\ pgrp[p] # LauncherGroup => CmdOf[p] = CmdOf[q]

(***************************************************************************)
(* The cleanup leaves its waitid() loop only when the launcher has no      *)
(* child left: the loop's count never ends it early.                       *)
(***************************************************************************)
CleanupWaitsForAll == [][mpc # "exit" /\ mpc' = "exit" => Children' = {}]_vars

(***************************************************************************)
(* A worker command that has been accepted is handed over in order, at     *)
(* most once and within the limit: the launcher implements WorkerPool.     *)
(***************************************************************************)
Pool == INSTANCE WorkerPool WITH
  Limit <- MaxCount,
  accepted <- {j \in Jobs : proc[j] \notin {"idle", "sent"}},
  waiting <- Pending,
  running <- Children

ImplementsPool == Pool!Spec

(***************************************************************************)
(* As long as slots keep coming free and the supervisor is not stopped for *)
(* good, every accepted job is handed to fork() sooner or later, also when *)
(* the one notification for it was missed, was consumed by an earlier      *)
(* batch, or was never sent because the pool was full when the slot came   *)
(* free.                                                                   *)
(***************************************************************************)
JobsGetStarted ==
  []<>(count < MaxCount) /\ []<>(proc[Jvm] \in Executing) =>
    \A j \in Jobs : proc[j] = "accepted" ~> proc[j] # "accepted"

(***************************************************************************)
(* A service told to stop once its supervisor listens does end.            *)
(***************************************************************************)
StopCompletes == mpc = "shutdown" /\ supq_state = "open" ~> mpc = "gone"

(***************************************************************************)
(* README.md:201: stop causes the running service to cleanly exit.         *)
(***************************************************************************)
StopAlwaysCompletes == mpc = "shutdown" ~> mpc = "gone"

(***************************************************************************)
(* spartan.cpp:1243: the supervisor is told of a completion when waitid()  *)
(* has detected that the child terminated.                                 *)
(***************************************************************************)
ToldOnceTerminated ==
  \A i \in 1..Len(supq) :
    supq[i].cmd = "COMPLETION" => proc[supq[i].pid] \notin Live

-----------------------------------------------------------------------------
(***************************************************************************)
(* The inductive invariant behind SlotsAccounted, ProcessLimit and the     *)
(* refinement.                                                             *)
(***************************************************************************)

\* A thread that has got to the use of a local variable has set it.
Registers ==
  /\ mpc \in {"enqueue", "push"} => msg \in Jobs
  /\ dpc = "handle" => batch # <<>>
  /\ dpc \notin {"handle", "setpgid", "notify"} => batch = <<>>
  /\ dpc \in {"setpgid", "notify"} => dpid \in Jobs

\* A message is in one place only.
MessagesOnce ==
  /\ \A i \in 1..Len(mq) : mq[i] # Stop => proc[mq[i]] = "sent"
  /\ \A i, k \in 1..Len(mq) : mq[i] = mq[k] => i = k
  /\ \A i \in 1..Len(Pending) : proc[Pending[i]] = "accepted"
  /\ \A i, k \in 1..Len(Pending) : Pending[i] = Pending[k] => i = k

\* The headroom the de-queue thread goes on with is never too large by the time
\* it is used: slots may come free, nobody else takes one.
HeadroomSafe ==
  /\ count <= MaxCount
  /\ dpc = "take" => headroom <= MaxCount - count

\* What the two waitid() loops have collected, if no child is ever stopped.
CollectedOnce ==
  /\ \A p \in Procs : proc[p] \notin {"stopped", "halted", "resumed"}
  /\ rpc = "completion" => rpid \in Procs /\ proc[rpid] = "reaped"
  /\ mpc = "completion" => mpid \in Procs /\ proc[mpid] = "reaped"
  /\ rpc = "completion" /\ mpc = "completion" => rpid # mpid

\* The group of a worker is the launcher's or was started by a worker of the same command.
GroupOfCommand ==
  /\ \A j \in Jobs : pgrp[j] = LauncherGroup \/ (pgrp[j] \in Jobs /\ CmdOf[pgrp[j]] = CmdOf[j])
  /\ \A c \in Cmds : prcs_grps[c] = None \/ CmdOf[prcs_grps[c]] = c

LauncherInv ==
  /\ TypeOK
  /\ Registers
  /\ MessagesOnce
  /\ HeadroomSafe
  /\ CollectedOnce
  /\ SlotsAccounted
  /\ GroupOfCommand
===============================================================================
