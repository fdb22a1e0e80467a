------------------------------ MODULE Supervisor ------------------------------
(***************************************************************************)
(* The supervisor process of a spartan service: the child process that     *)
(* runs supervisor() of spartan.cpp with is_launcher_process = false, and  *)
(* the Java main() of the service on top of SpartanBase.                   *)
(*                                                                         *)
(* Three threads and short-lived ones share it.  The native main thread    *)
(* receives messages: it answers --STATUS on a thread of its own, handles  *)
(* --SHUTDOWN itself, and puts all else on dispatch_msg_queue.  The        *)
(* de-queue thread takes them off and calls Java for each: the launcher's  *)
(* reports keep the table of child processes, the commands run user code.  *)
(* The Java main thread waits on _service_condition and, once told to shut *)
(* down, signals the children in the table to end.                         *)
(***************************************************************************)
EXTENDS DispatchQueue, FiniteSets, Selection

CONSTANTS
  Kids,            \* worker processes the launcher reports
  Commanders,      \* clients, each with one supervisor command
  Enquirers,       \* clients, each with one --STATUS
  None,            \* no message
  MqMax,           \* mq_maxmsg of the message queue
  SupervisorMode,  \* main() calls enterSupervisorMode()
  ClientMayLeave,  \* a client may go away before it is answered
  MayInterrupt     \* SIGINT may reach the supervisor

Clients == Commanders \cup Enquirers

ASSUME SupervisorAssumption ==
  /\ IsFiniteSet(Kids)
  /\ Commanders \cap Enquirers = {}
  /\ MqMax \in Nat \ {0}
  /\ SupervisorMode \in BOOLEAN
  /\ ClientMayLeave \in BOOLEAN
  /\ MayInterrupt \in BOOLEAN

\* None is no message.
ASSUME NoneAssumption == None \notin [cmd : {"NOTIFY", "COMPLETION", "COMMAND"}, pid : Kids \cup Commanders]

VARIABLES
  mq, mq_state,       \* the supervisor's message queue; whether it exists
  mpc, msg,           \* main thread: where it is, the message it holds
  handling,           \* de-queue thread: the message Java is called for
  jvm_shutting_down,
  childProcesses,     \* _childProcesses: the table of children
  jpc,                \* where the Java main thread is
  all_pids,           \* drainKillProcessGroup: children still to be signalled
  isSignaled,         \* of _service_condition
  interrupted,        \* interrupt status of the Java main thread
  told,               \* reports the launcher has sent about each child
  shutdown_sent,      \* the launcher has sent --SHUTDOWN
  sigint,             \* children whose process group has been sent SIGINT
  snapshot,           \* history: the table when the drain began
  client              \* where each client's request is

mainVars == <<mpc, msg>>
mqVars == <<mq, mq_state>>
javaVars == <<jpc, all_pids, isSignaled, interrupted, sigint, snapshot>>
envVars == <<told, shutdown_sent, client>>
vars == <<mqVars, mainVars, queueVars, handling, jvm_shutting_down, childProcesses,
          javaVars, envVars>>

Message(c, who) == [cmd |-> c, pid |-> who]
IsReport(m) == m.cmd \in {"NOTIFY", "COMPLETION"}

Up == mpc # "gone"

-----------------------------------------------------------------------------
(***************************************************************************)
(* The launcher and the clients, which send with mq_send(): it waits while *)
(* the queue is full, and without a queue the message is lost.             *)
(***************************************************************************)
Send(m) ==
  IF mq_state = "open"
  THEN Len(mq) < MqMax /\ mq' = Append(mq, m)
  ELSE UNCHANGED mq

\* The two reports on a child come from different threads, in either order; none
\* comes after --SHUTDOWN, which is sent with the launcher's exit flag up.
LauncherReport(k, c) ==
  /\ ~shutdown_sent
  /\ c \notin told[k]
  /\ Send(Message(c, k))
  /\ told' = [told EXCEPT ![k] = @ \cup {c}]
  /\ UNCHANGED <<mq_state, mainVars, queueVars, handling, jvm_shutting_down, childProcesses,
                 javaVars, shutdown_sent, client>>

LauncherShutdown ==
  /\ ~shutdown_sent
  /\ Send(Message("SHUTDOWN", None))
  /\ shutdown_sent' = TRUE
  /\ UNCHANGED <<mq_state, mainVars, queueVars, handling, jvm_shutting_down, childProcesses,
                 javaVars, told, client>>

ClientRequest(c) ==
  /\ client[c] = "idle"
  /\ mq_state = "open"
  /\ Send(Message(IF c \in Enquirers THEN "STATUS" ELSE "COMMAND", c))
  /\ client' = [client EXCEPT ![c] = "sent"]
  /\ UNCHANGED <<mq_state, mainVars, queueVars, handling, jvm_shutting_down, childProcesses,
                 javaVars, told, shutdown_sent>>

ClientLeaves(c) ==
  /\ ClientMayLeave
  /\ client[c] \in {"sent", "asked"}
  /\ client' = [client EXCEPT ![c] = "left"]
  /\ UNCHANGED <<mqVars, mainVars, queueVars, handling, jvm_shutting_down, childProcesses,
                 javaVars, told, shutdown_sent>>

\* The handler that the supervisor installs once its JVM has been created.
Interrupt ==
  /\ MayInterrupt
  /\ Up
  /\ jvm_shutting_down' = TRUE
  /\ UNCHANGED <<mqVars, mainVars, queueVars, handling, childProcesses, javaVars, envVars>>

-----------------------------------------------------------------------------
(* The native main thread.                                                 *)

OpenQueue ==
  /\ mpc = "start"
  /\ mpc' = "receive"
  /\ mq_state' = "open"
  /\ UNCHANGED <<mq, msg, queueVars, handling, jvm_shutting_down, childProcesses,
                 javaVars, envVars>>

TakeMessage ==
  /\ mpc = "receive"
  /\ mq # <<>>
  /\ mq' = Tail(mq)

\* Variant: --STATUS is not recognized and goes the way of the commands.
IsStatusNever(m) == FALSE

IsStatus(m) == m.cmd = "STATUS"

ReceiveShutdown ==
  /\ TakeMessage
  /\ Head(mq).cmd = "SHUTDOWN"
  /\ jvm_shutting_down' = TRUE
  /\ mpc' = "signal"
  /\ UNCHANGED <<mq_state, msg, queueVars, handling, childProcesses, javaVars, envVars>>

\* --STATUS gets a thread of its own, or nothing once the supervisor is shutting down.
ReceiveStatus ==
  /\ TakeMessage
  /\ IsStatus(Head(mq))
  /\ LET c == Head(mq).pid IN
       client' = IF jvm_shutting_down \/ client[c] # "sent"
                 THEN client
                 ELSE [client EXCEPT ![c] = "asked"]
  /\ UNCHANGED <<mq_state, mainVars, queueVars, handling, jvm_shutting_down, childProcesses,
                 javaVars, told, shutdown_sent>>

ReceiveOther ==
  /\ TakeMessage
  /\ Head(mq).cmd # "SHUTDOWN"
  /\ ~IsStatus(Head(mq))
  /\ msg' = Head(mq)
  /\ mpc' = "enqueue"
  /\ UNCHANGED <<mq_state, queueVars, handling, jvm_shutting_down, childProcesses,
                 javaVars, envVars>>

BeginEnqueue ==
  /\ mpc = "enqueue"
  /\ LockForEnqueue
  /\ mpc' = "push"
  /\ UNCHANGED <<mqVars, msg, handling, jvm_shutting_down, childProcesses, javaVars, envVars>>

EndEnqueue ==
  /\ mpc = "push"
  /\ Enqueue(msg)
  /\ mpc' = "receive"
  /\ msg' = None
  /\ UNCHANGED <<mqVars, handling, jvm_shutting_down, childProcesses, javaVars, envVars>>

\* supervisorShutdown(): signalAll() gives up if the Java main thread has the lock...
SignalAll ==
  /\ mpc = "signal"
  /\ isSignaled' = (isSignaled \/ jpc # "await")
  /\ mpc' = "interrupt"
  /\ UNCHANGED <<mqVars, msg, queueVars, handling, jvm_shutting_down, childProcesses,
                 jpc, all_pids, interrupted, sigint, snapshot, envVars>>

\* Variant: only the sleeping thread is interrupted.
HasContextAsleep == jpc = "waiting"

Ended == jpc \in {"done", "failed"}

\* The Java main thread has stored its context and has not ended.
HasContext == jpc # "start" /\ ~Ended

\* ... and the thread is interrupted in any case.
InterruptMain ==
  /\ mpc = "interrupt"
  /\ interrupted' = (interrupted \/ HasContext)
  /\ mpc' = "leave"
  /\ UNCHANGED <<mqVars, msg, queueVars, handling, jvm_shutting_down, childProcesses,
                 jpc, all_pids, isSignaled, sigint, snapshot, envVars>>

\* The locals of supervisor() are destroyed, the queue is unlinked.
LeaveLoop ==
  /\ mpc = "leave"
  /\ mpc' = "join"
  /\ mq' = <<>>
  /\ mq_state' = "gone"
  /\ UNCHANGED <<msg, queueVars, handling, jvm_shutting_down, childProcesses, javaVars, envVars>>

\* The thread of the JVM has been joined: the process ends.
Exit ==
  /\ mpc = "join"
  /\ Ended
  /\ mpc' = "gone"
  /\ UNCHANGED <<mqVars, msg, queueVars, handling, jvm_shutting_down, childProcesses,
                 javaVars, envVars>>

-----------------------------------------------------------------------------
(* The de-queue thread, handle_supervisor_msg, and the --STATUS threads.   *)

Round(step) ==
  /\ Up /\ mpc # "start"
  /\ step
  /\ UNCHANGED <<mqVars, mainVars, handling, jvm_shutting_down, childProcesses, javaVars, envVars>>

\* The slot of a message is free as soon as the message is handled...
DequeueHandle ==
  /\ Up
  /\ dpc = "handle"
  /\ ~jvm_shutting_down
  /\ handling' = Head(batch)
  /\ batch' = Tail(batch)
  /\ FreeSlot
  /\ dpc' = "java"
  /\ UNCHANGED <<mqVars, mainVars, lockVars, headroom, jvm_shutting_down, childProcesses,
                 javaVars, envVars>>

\* ... and is not freed when the message is dropped.
DequeueDrop ==
  /\ Up
  /\ dpc = "handle"
  /\ jvm_shutting_down
  /\ batch' = Tail(batch)
  /\ dpc' = AfterHandling(batch')
  /\ UNCHANGED <<mqVars, mainVars, lockVars, headroom, count, handling, jvm_shutting_down,
                 childProcesses, javaVars, envVars>>

JavaReturns ==
  /\ Up
  /\ dpc = "java"
  /\ handling' = None
  /\ dpc' = AfterHandling(batch)
  /\ UNCHANGED <<mqVars, mainVars, lockVars, headroom, batch, count, jvm_shutting_down,
                 javaVars, told, shutdown_sent>>

\* childProcessNotify and childProcessCompletionNotify.
HandleReport ==
  /\ JavaReturns
  /\ IsReport(handling)
  /\ childProcesses' = IF handling.cmd = "NOTIFY"
                       THEN childProcesses \cup {handling.pid}
                       ELSE childProcesses \ {handling.pid}
  /\ UNCHANGED client

\* A supervisor command opens its response stream and runs the user's code, which
\* returns when it is done, if ever.
CommandOpens ==
  /\ Up
  /\ dpc = "java"
  /\ handling.cmd = "COMMAND"
  /\ client[handling.pid] = "sent"
  /\ client' = [client EXCEPT ![handling.pid] = "connected"]
  /\ UNCHANGED <<mqVars, mainVars, queueVars, handling, jvm_shutting_down, childProcesses,
                 javaVars, told, shutdown_sent>>

HandleCommand ==
  /\ JavaReturns
  /\ handling.cmd = "COMMAND"
  /\ client[handling.pid] = "connected"
  /\ client' = [client EXCEPT ![handling.pid] = "answered"]
  /\ UNCHANGED childProcesses

Crash ==
  /\ mpc' = "gone"
  /\ UNCHANGED <<mqVars, msg, queueVars, handling, jvm_shutting_down, childProcesses,
                 javaVars, envVars>>

\* A client that has gone before its response stream is opened: the exception is
\* caught nowhere on the de-queue thread and ends the process.
CommandClientGone ==
  /\ Up
  /\ dpc = "java"
  /\ handling.cmd = "COMMAND"
  /\ client[handling.pid] = "left"
  /\ Crash

\* As in the launcher, the detached thread works on destroyed objects after the loop.
UseAfterScope ==
  /\ mpc = "join"
  /\ \/ dpc = "take" /\ queue # <<>>
     \/ dpc = "java"
  /\ Crash

StatusAnswer(c) ==
  /\ Up
  /\ client[c] = "asked"
  /\ client' = [client EXCEPT ![c] = "answered"]
  /\ UNCHANGED <<mqVars, mainVars, queueVars, handling, jvm_shutting_down, childProcesses,
                 javaVars, told, shutdown_sent>>

-----------------------------------------------------------------------------
(***************************************************************************)
(* The Java main thread: SpartanBase.main, the user's main(), the wait for *)
(* _service_condition (await), and drainKillProcessGroup.  It has _lock    *)
(* when jpc = "await", and gives it up while it sleeps ("waiting").        *)
(***************************************************************************)
JavaUnchanged == <<mqVars, mainVars, queueVars, handling, jvm_shutting_down, envVars>>

\* The context is stored and the user's main() called.
JavaMain ==
  /\ Up
  /\ jpc = "start"
  /\ jpc' = "main"
  /\ UNCHANGED <<JavaUnchanged, childProcesses, all_pids, isSignaled, interrupted, sigint, snapshot>>

\* The user's main() calls enterSupervisorMode() or returns, and may have swallowed an interrupt.
JavaMainDone ==
  /\ Up
  /\ jpc = "main"
  /\ jpc' = "await"
  /\ interrupted' \in {interrupted, FALSE}
  /\ UNCHANGED <<JavaUnchanged, childProcesses, all_pids, isSignaled, sigint, snapshot>>

JavaMainThrows ==
  /\ Up
  /\ jpc = "main"
  /\ jpc' = "failed"
  /\ UNCHANGED <<JavaUnchanged, childProcesses, all_pids, isSignaled, interrupted, sigint, snapshot>>

\* An interrupt that is pending makes Condition.await() throw at once.
AwaitSleep ==
  /\ Up
  /\ jpc = "await"
  /\ ~isSignaled
  /\ ~interrupted
  /\ jpc' = "waiting"
  /\ UNCHANGED <<JavaUnchanged, childProcesses, all_pids, isSignaled, interrupted, sigint, snapshot>>

AwaitWake ==
  /\ Up
  /\ jpc = "waiting"
  /\ isSignaled \/ interrupted
  /\ jpc' = "await"
  /\ UNCHANGED <<JavaUnchanged, childProcesses, all_pids, isSignaled, interrupted, sigint, snapshot>>

\* A spurious wakeup, which Condition.await() allows.
AwaitSpurious ==
  /\ Up
  /\ jpc = "waiting"
  /\ jpc' = "await"
  /\ UNCHANGED <<JavaUnchanged, childProcesses, all_pids, isSignaled, interrupted, sigint, snapshot>>

\* Signalled or interrupted, await() returns: to the drain or to the end of main().
AwaitReturns ==
  /\ Up
  /\ jpc = "await"
  /\ isSignaled \/ interrupted
  /\ isSignaled' = TRUE
  /\ interrupted' \in {interrupted /\ isSignaled, FALSE}
  /\ IF SupervisorMode
     THEN jpc' = "drain" /\ all_pids' = childProcesses /\ snapshot' = childProcesses
     ELSE jpc' = "done" /\ UNCHANGED <<all_pids, snapshot>>
  /\ UNCHANGED <<JavaUnchanged, childProcesses, sigint>>

\* Variant: one round only.
DrainOnce == all_pids # snapshot

\* The drain ends when no child of all_pids is in the table any more.
DrainDone == childProcesses \cap all_pids = {}

\* The child found is struck off before its process group is signalled.
DrainNext ==
  /\ Up
  /\ jpc = "drain"
  /\ ~DrainDone
  /\ \E k \in childProcesses \cap all_pids :
       /\ all_pids' = all_pids \ {k}
       /\ childProcesses' = childProcesses \ {k}
       /\ sigint' = sigint \cup {k}
  /\ UNCHANGED <<JavaUnchanged, jpc, isSignaled, interrupted, snapshot>>

\* The second await(), in SpartanBase.main, returns at once: the condition stays signalled.
DrainEnds ==
  /\ Up
  /\ jpc = "drain"
  /\ DrainDone
  /\ jpc' = "done"
  /\ UNCHANGED <<JavaUnchanged, childProcesses, all_pids, isSignaled, interrupted, sigint, snapshot>>

-----------------------------------------------------------------------------
Init ==
  /\ mq = <<>> /\ mq_state = "unborn"
  /\ mpc = "start" /\ msg = None
  /\ DQInit
  /\ handling = None
  /\ jvm_shutting_down = FALSE
  /\ childProcesses = {}
  /\ jpc = "start" /\ all_pids = {} /\ isSignaled = FALSE /\ interrupted = FALSE
  /\ sigint = {} /\ snapshot = {}
  /\ told = [k \in Kids |-> {}]
  /\ shutdown_sent = FALSE
  /\ client = [c \in Clients |-> "idle"]

MainStep ==
  \/ OpenQueue \/ ReceiveShutdown \/ ReceiveStatus \/ ReceiveOther
  \/ BeginEnqueue \/ EndEnqueue
  \/ SignalAll \/ InterruptMain \/ LeaveLoop \/ Exit

DequeueStep ==
  \/ Round(DequeueLock) \/ Round(DequeueTest) \/ Round(DequeueNotified)
  \/ Round(DequeueTimeout) \/ Round(DequeueTake)
  \/ DequeueHandle \/ DequeueDrop
  \/ HandleReport \/ CommandOpens \/ HandleCommand
  \/ CommandClientGone \/ UseAfterScope

JavaStep ==
  \/ JavaMain \/ JavaMainDone \/ JavaMainThrows
  \/ AwaitSleep \/ AwaitWake \/ AwaitSpurious \/ AwaitReturns
  \/ DrainNext \/ DrainEnds

WorldStep ==
  \/ \E k \in Kids, c \in {"NOTIFY", "COMPLETION"} : LauncherReport(k, c)
  \/ LauncherShutdown \/ Interrupt
  \/ \E c \in Clients : ClientRequest(c) \/ ClientLeaves(c)
  \/ \E c \in Enquirers : StatusAnswer(c)

Next == MainStep \/ DequeueStep \/ JavaStep \/ WorldStep

Spec == Init /\ [][Next]_vars

(***************************************************************************)
(* The threads run on, the user's main() calls enterSupervisorMode() or    *)
(* ends; a supervisor command need not return.  The timed lock is had in   *)
(* the end by a thread that keeps trying, as in Launcher.                  *)
(***************************************************************************)
Fairness ==
  /\ WF_vars(OpenQueue \/ ReceiveShutdown \/ ReceiveStatus \/ ReceiveOther \/ EndEnqueue)
  /\ WF_vars(SignalAll \/ InterruptMain \/ LeaveLoop \/ Exit)
  /\ SF_vars(BeginEnqueue)
  /\ WF_vars(Round(DequeueTest \/ DequeueTake) \/ DequeueHandle \/ DequeueDrop \/ HandleReport
             \/ CommandOpens \/ CommandClientGone)
  /\ SF_vars(Round(DequeueLock \/ DequeueNotified))
  /\ SF_vars(Round(DequeueTimeout))
  /\ WF_vars(JavaMain \/ JavaMainDone)
  /\ WF_vars(AwaitSleep \/ AwaitWake \/ AwaitReturns \/ DrainNext \/ DrainEnds)
  /\ \A c \in Enquirers : WF_vars(StatusAnswer(c))

FairSpec == Spec /\ Fairness

-----------------------------------------------------------------------------
(* Messages received or underway that the Java side has not handled, oldest first. *)

InJava == IF dpc = "java" THEN <<handling>> ELSE <<>>
Held == IF msg = None THEN <<>> ELSE <<msg>>
Outstanding == InJava \o batch \o queue \o Held \o mq

-----------------------------------------------------------------------------
(* Properties.                                                             *)

Queued == [cmd : {"NOTIFY", "COMPLETION"}, pid : Kids] \cup [cmd : {"COMMAND"}, pid : Commanders]
Reports == {m \in Queued : IsReport(m)}
Received == Queued \cup [cmd : {"STATUS"}, pid : Enquirers] \cup {Message("SHUTDOWN", None)}

\* Every variable keeps to its type; --STATUS and --SHUTDOWN are never queued.
TypeOK ==
  /\ mq \in Seq(Received) /\ mq_state \in {"unborn", "open", "gone"}
  /\ mpc \in {"start", "receive", "enqueue", "push", "signal", "interrupt", "leave", "join", "gone"}
  /\ msg \in Queued \cup {None}
  /\ qm \in {"free", "main", "dequeue"}
  /\ queue \in Seq(Queued)
  /\ qready \in BOOLEAN /\ notified \in BOOLEAN
  /\ dpc \in {"lock", "test", "lasttest", "wait", "take", "handle", "java"}
  /\ headroom \in Int
  /\ batch \in Seq(Queued)
  /\ count \in Int
  /\ handling \in Queued \cup {None}
  /\ jvm_shutting_down \in BOOLEAN
  /\ childProcesses \in SUBSET Kids
  /\ jpc \in {"start", "main", "await", "waiting", "drain", "done", "failed"}
  /\ all_pids \in SUBSET Kids /\ sigint \in SUBSET Kids /\ snapshot \in SUBSET Kids
  /\ isSignaled \in BOOLEAN /\ interrupted \in BOOLEAN
  /\ told \in [Kids -> SUBSET {"NOTIFY", "COMPLETION"}]
  /\ shutdown_sent \in BOOLEAN
  /\ client \in [Clients -> {"idle", "sent", "asked", "connected", "answered", "left"}]

(***************************************************************************)
(* Until the shutdown, every slot taken for a message is given back by the *)
(* handler: the limit on messages never wears down.                        *)
(***************************************************************************)
HeadroomRestored == ~jvm_shutting_down => count = 1 + Len(batch)

(***************************************************************************)
(* Every child in the table when the drain begins has been signalled or    *)
(* reported as completed when it ends, and is off the table, although      *)
(* reports may be handled meanwhile.                                       *)
(***************************************************************************)
DrainReachesAll ==
  jpc = "done" =>
    \A k \in snapshot :
      k \notin childProcesses /\ (k \in sigint \/ "COMPLETION" \in told[k])

(***************************************************************************)
(* The table follows the reports: from the message queue through the main  *)
(* thread, the work queue, the batch and the Java call none is lost,       *)
(* repeated or overtaken before the shutdown.                              *)
(***************************************************************************)
Board == INSTANCE StatusBoard WITH
  posted <- Selected(Outstanding, Reports),
  listed <- childProcesses,
  closed <- jvm_shutting_down

FollowsReports == Board!Spec

(***************************************************************************)
(* Told to shut down, the supervisor ends: the Java main thread is woken   *)
(* although signalAll() may find its lock taken, and although a command    *)
(* may never return.                                                       *)
(***************************************************************************)
ShutdownCompletes == mpc = "signal" ~> ~Up

(***************************************************************************)
(* A --STATUS request is answered even while a supervisor command keeps    *)
(* the de-queue thread, unless the supervisor shuts down.                  *)
(***************************************************************************)
StatusAnswered ==
  \A c \in Enquirers :
    client[c] = "sent" ~> client[c] \in {"answered", "left"} \/ jvm_shutting_down \/ ~Up
===============================================================================
