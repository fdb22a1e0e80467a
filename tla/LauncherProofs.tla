---------------------------- MODULE LauncherProofs ----------------------------
(***************************************************************************)
(* Proofs about Launcher, for every set of jobs and commands, every limit  *)
(* on child processes and every size of the message queues.                *)
(***************************************************************************)
EXTENDS Launcher, SequenceFacts, FiniteSetTheorems

USE DEF mainVars, forkVars, reaperVars, quitVars, supVars, lockVars, takeVars, queueVars

-----------------------------------------------------------------------------
(* Types.                                                                  *)

\* The initial state is well typed.
LEMMA TypeInit == Init => TypeOK /\ Registers
<1>. SUFFICES ASSUME Init PROVE TypeOK /\ Registers
  OBVIOUS
<1>1. proc \in [Procs -> ProcStates] /\ pgrp \in [Procs -> Procs \cup {LauncherGroup}]
  BY DEF Init, Procs, ProcStates, Unreaped, Live, Executing
<1>2. prcs_grps \in [Cmds -> Jobs \cup {None}]
  BY DEF Init
<1>3. mq \in Seq(Jobs \cup {Stop}) /\ queue \in Seq(Jobs) /\ batch \in Seq(Jobs) /\ supq \in Seq(Message)
  BY EmptySeq DEF Init, DQInit
<1>4. mpc = "receive" /\ msg = None /\ mpid = None /\ dpid = None /\ rpc = "waitid" /\ rpid = None
      /\ supq_state = "unborn" /\ qm = "free" /\ dpc = "lock" /\ headroom = 0 /\ batch = <<>> /\ count = 1
  BY DEF Init, DQInit
<1>5. flag \in BOOLEAN /\ shutting_down \in BOOLEAN /\ qready \in BOOLEAN /\ notified \in BOOLEAN
  BY Zenon DEF Init, DQInit
<1>6. TypeOK
  BY <1>1, <1>2, <1>3, <1>4, <1>5 DEF TypeOK
<1>7. Registers
  BY <1>4 DEF Registers
<1>. QED
  BY <1>6, <1>7

\* A message put on the supervisor's queue.
LEMMA DeliverType ==
  ASSUME supq \in Seq(Message), supq_state \in {"unborn", "open", "gone"},
         NEW m \in Message, Deliver(m)
  PROVE  supq' \in Seq(Message) /\ supq_state' \in {"unborn", "open", "gone"}
BY AppendProperties DEF Deliver

\* The main thread's steps keep the types.
LEMMA TypeMain ==
  ASSUME TypeOK, Registers, MainStep
  PROVE  TypeOK' /\ Registers'
<1>. USE LauncherAssumption DEF TypeOK, Registers, Procs, ProcStates, Unreaped, Live, Executing
<1>1. CASE Receive
  BY <1>1, SeqFacts DEF Receive, IsStop
<1>2. CASE ReceiveStop
  BY <1>2, EmptySeq DEF ReceiveStop, LeaveLoop
<1>3. CASE ReceiveTimeout
  BY <1>3, EmptySeq DEF ReceiveTimeout, LeaveLoop
<1>4. CASE BeginEnqueue
  BY <1>4 DEF BeginEnqueue, LockForEnqueue
<1>5. CASE EndEnqueue
  <2>1. queue' \in Seq(Jobs)
    BY <1>5, AppendProperties DEF EndEnqueue, Enqueue
  <2>2. mq' \in Seq(Jobs \cup {Stop})
    <3>1. CASE flag
      BY <1>5, <3>1, EmptySeq DEF EndEnqueue, LeaveLoop
    <3>2. CASE ~flag
      BY <1>5, <3>2 DEF EndEnqueue
    <3>. QED
      BY <3>1, <3>2
  <2>. QED
    BY <1>5, <2>1, <2>2 DEF EndEnqueue, Enqueue, Notify, LeaveLoop
<1>6. CASE CleanupFlags
  BY <1>6 DEF CleanupFlags, SetExitFlag
<1>7. CASE CleanupShutdown
  <2>1. Note("SHUTDOWN", None) \in Message
    BY DEF Note, Message
  <2>2. supq' \in Seq(Message) /\ supq_state' \in {"unborn", "open", "gone"}
    BY <1>7, <2>1, DeliverType DEF CleanupShutdown
  <2>. QED
    BY <1>7, <2>2 DEF CleanupShutdown
<1>8. CASE CleanupWait
  BY <1>8 DEF CleanupWait, Reportable, AfterWait
<1>9. CASE CleanupNoChild
  BY <1>9 DEF CleanupNoChild
<1>10. CASE CleanupCompletion
  <2>1. proc' \in [Procs -> ProcStates]
    BY <1>10 DEF CleanupCompletion, Settle
  <2>2. count' \in Int /\ mpc' \in {"exit", "waitid"} /\ mpid' = None
    BY <1>10 DEF CleanupCompletion, FreeSlot
  <2>. QED
    BY <1>10, <2>1, <2>2 DEF CleanupCompletion
<1>11. CASE Exit
  BY <1>11, EmptySeq DEF Exit
<1>. QED
  BY <1>1, <1>2, <1>3, <1>4, <1>5, <1>6, <1>7, <1>8, <1>9, <1>10, <1>11 DEF MainStep

\* A report to the supervisor: none once the exit flag is up.
LEMMA SendType ==
  ASSUME supq \in Seq(Message), supq_state \in {"unborn", "open", "gone"},
         NEW m \in Message, SendSupervisor(m)
  PROVE  supq' \in Seq(Message) /\ supq_state' \in {"unborn", "open", "gone"}
<1>1. CASE flag
  BY <1>1 DEF SendSupervisor
<1>2. CASE ~flag
  BY <1>2, DeliverType DEF SendSupervisor
<1>. QED
  BY <1>1, <1>2

\* The de-queue thread's steps keep the types.
LEMMA TypeDequeue ==
  ASSUME TypeOK, Registers, DequeueStep
  PROVE  TypeOK' /\ Registers'
<1>. USE LauncherAssumption, MaxCountAssumption DEF TypeOK, Registers, Procs, ProcStates, Unreaped, Live, Executing
<1>1. CASE Round(DequeueLock)
  BY <1>1 DEF Round, DequeueLock
<1>2. CASE Round(DequeueTest)
  <2>1. headroom' \in Int
    BY <1>2 DEF Round, DequeueTest, Headroom
  <2>2. dpc \in {"test", "lasttest"} /\ dpc' \in {"take", "wait"} /\ qm' \in {"free", "main", "dequeue"}
    BY <1>2 DEF Round, DequeueTest
  <2>. QED
    BY <1>2, <2>1, <2>2 DEF Round, DequeueTest
<1>3. CASE Round(DequeueNotified)
  <2>1. notified' \in BOOLEAN
    BY <1>3, Zenon DEF Round, DequeueNotified
  <2>. QED
    BY <1>3, <2>1 DEF Round, DequeueNotified
<1>4. CASE Round(DequeueTimeout)
  <2>1. notified' \in BOOLEAN
    BY <1>4, Zenon DEF Round, DequeueTimeout
  <2>. QED
    BY <1>4, <2>1 DEF Round, DequeueTimeout
<1>5. CASE Round(DequeueTake)
  <2>. qready' \in BOOLEAN
    BY <1>5, Zenon DEF Round, DequeueTake
  <2>1. CASE BatchSize > 0
    <3>1. Len(queue) \in Nat /\ BatchSize \in 1..Len(queue)
      BY <2>1, LenProperties DEF BatchSize
    <3>2. batch' = SubSeq(queue, 1, BatchSize) /\ queue' = SubSeq(queue, BatchSize + 1, Len(queue))
      BY <1>5, <2>1 DEF Round, DequeueTake
    <3>3. batch' \in Seq(Jobs) /\ queue' \in Seq(Jobs) /\ batch' # <<>>
      BY <3>1, <3>2, SplitFacts
    <3>4. dpc' = "handle" /\ count' \in Int
      BY <1>5, <2>1, <3>1 DEF Round, DequeueTake
    <3>. QED
      BY <1>5, <3>3, <3>4 DEF Round, DequeueTake
  <2>2. CASE ~(BatchSize > 0)
    BY <1>5, <2>2 DEF Round, DequeueTake
  <2>. QED
    BY <2>1, <2>2
<1>6. CASE DequeueFork
  BY <1>6, SeqFacts DEF DequeueFork
<1>7. CASE DequeueForkFails
  BY <1>7, SeqFacts DEF DequeueForkFails, AfterHandling
<1>8. CASE DequeueSetPgid
  <2>1. dpid \in Jobs
    BY <1>8 DEF DequeueSetPgid
  <2>2. CmdOf[dpid] \in Cmds
    BY <2>1
  <2>3. PICK g \in Jobs : SetPgid(dpid, g)
    BY <1>8, <2>1, <2>2 DEF DequeueSetPgid, SubCommand
  <2>4. pgrp' \in [Procs -> Procs \cup {LauncherGroup}]
    BY <2>1, <2>3 DEF SetPgid
  <2>5. prcs_grps' \in [Cmds -> Jobs \cup {None}]
    BY <1>8, <2>1, <2>2 DEF DequeueSetPgid, SubCommand
  <2>. QED
    BY <1>8, <2>1, <2>4, <2>5 DEF DequeueSetPgid
<1>9. CASE DequeueNotify
  <2>1. Note("NOTIFY", dpid) \in Message
    BY DEF Note, Message
  <2>2. supq' \in Seq(Message) /\ supq_state' \in {"unborn", "open", "gone"}
    BY <1>9, <2>1, SendType DEF DequeueNotify
  <2>. QED
    BY <1>9, <2>2 DEF DequeueNotify, AfterHandling
<1>10. CASE UseAfterScope
  BY <1>10 DEF UseAfterScope
<1>. QED
  BY <1>1, <1>2, <1>3, <1>4, <1>5, <1>6, <1>7, <1>8, <1>9, <1>10 DEF DequeueStep

\* So do those of the waitid thread, of the clients and children, and of the supervisor.
LEMMA TypeOthers ==
  ASSUME TypeOK, Registers, ReaperStep \/ WorldStep \/ SupervisorStep
  PROVE  TypeOK' /\ Registers'
<1>. USE LauncherAssumption DEF TypeOK, Registers, Procs, ProcStates, Unreaped, Live, Executing
<1>1. CASE ReaperWait
  BY <1>1 DEF ReaperWait, Reportable, AfterWait
<1>2. CASE ReaperNoChild
  BY <1>2 DEF ReaperNoChild
<1>3. CASE ReaperCompletion
  <2>1. proc' \in [Procs -> ProcStates]
    BY <1>3 DEF ReaperCompletion, Settle
  <2>2. rpc' \in {"lastnotify", "notify"} /\ count' \in Int
    BY <1>3 DEF ReaperCompletion, Completion, FreeSlot
  <2>3. qready' \in BOOLEAN /\ notified' \in BOOLEAN
    BY <1>3 DEF ReaperCompletion, Completion, Notify
  <2>. QED
    BY <1>3, <2>1, <2>2, <2>3 DEF ReaperCompletion, Completion
<1>4. CASE ReaperNotify
  <2>1. Note("COMPLETION", rpid) \in Message
    BY DEF Note, Message
  <2>2. supq' \in Seq(Message) /\ supq_state' \in {"unborn", "open", "gone"}
    BY <1>4, <2>1, SendType DEF ReaperNotify
  <2>. QED
    BY <1>4, <2>2 DEF ReaperNotify
<1>5. ASSUME NEW j \in Jobs, ClientSend(j)
      PROVE  TypeOK' /\ Registers'
  BY <1>5, AppendProperties DEF ClientSend
<1>6. ASSUME NEW j \in Jobs, WorkerExit(j)
      PROVE  TypeOK' /\ Registers'
  BY <1>6 DEF WorkerExit
<1>7. CASE ClientStop
  BY <1>7, AppendProperties DEF ClientStop
<1>8. CASE Interrupt
  BY <1>8 DEF Interrupt
<1>9. ASSUME NEW p \in Procs, ChildStop(p) \/ ChildContinue(p)
      PROVE  TypeOK' /\ Registers'
  <2>1. proc' \in [Procs -> ProcStates]
    BY <1>9 DEF ChildStop, ChildContinue
  <2>. QED
    BY <1>9, <2>1 DEF ChildStop, ChildContinue
<1>10. CASE SupervisorExit \/ SupervisorCrash
  BY <1>10 DEF SupervisorExit, SupervisorCrash
<1>11. CASE SupervisorOpensQueue
  BY <1>11 DEF SupervisorOpensQueue
<1>12. CASE SupervisorReceives
  <2>1. supq' \in Seq(Message)
    <3>1. CASE Head(supq).cmd = "SHUTDOWN"
      BY <1>12, <3>1, EmptySeq DEF SupervisorReceives
    <3>2. CASE Head(supq).cmd # "SHUTDOWN"
      <4>1. Tail(supq) \in Seq(Message)
        BY <1>12, SeqFacts DEF SupervisorReceives
      <4>2. supq' = Tail(supq)
        BY <1>12, <3>2, Zenon DEF SupervisorReceives
      <4>. QED
        BY <4>1, <4>2
    <3>. QED
      BY <3>1, <3>2
  <2>2. supq_state' \in {"unborn", "open", "gone"}
    BY <1>12 DEF SupervisorReceives
  <2>. QED
    BY <1>12, <2>1, <2>2 DEF SupervisorReceives
<1>. QED
  BY <1>1, <1>2, <1>3, <1>4, <1>5, <1>6, <1>7, <1>8, <1>9, <1>10, <1>11, <1>12
     DEF ReaperStep, WorldStep, SupervisorStep

\* Every step keeps the types.
LEMMA TypeStep == TypeOK /\ Registers /\ [Next]_vars => (TypeOK /\ Registers)'
<1>1. ASSUME TypeOK, Registers, UNCHANGED vars
      PROVE  TypeOK' /\ Registers'
  BY <1>1 DEF vars, TypeOK, Registers
<1>. QED
  BY <1>1, TypeMain, TypeDequeue, TypeOthers DEF Next

\* Every variable keeps to its type, and no thread uses a local it has not set.
THEOREM TypeCorrect == Spec => [](TypeOK /\ Registers)
BY TypeInit, TypeStep, PTL DEF Spec

-----------------------------------------------------------------------------
(* Process groups.                                                         *)

\* Only a fork and a setpgid() change the groups.
LEMMA GroupsUnchanged ==
  ASSUME [Next]_vars, ~DequeueFork, ~DequeueSetPgid
  PROVE  pgrp' = pgrp /\ prcs_grps' = prcs_grps
<1>1. CASE MainStep
  BY <1>1 DEF MainStep, Receive, ReceiveStop, ReceiveTimeout, BeginEnqueue, EndEnqueue, CleanupFlags,
     CleanupShutdown, CleanupWait, CleanupNoChild, CleanupCompletion, Exit
<1>2. CASE DequeueStep
  BY <1>2 DEF DequeueStep, Round, DequeueForkFails, DequeueNotify, UseAfterScope
<1>3. CASE ReaperStep
  BY <1>3 DEF ReaperStep, ReaperWait, ReaperNoChild, ReaperCompletion, ReaperNotify
<1>4. CASE WorldStep
  BY <1>4 DEF WorldStep, ClientSend, WorkerExit, ClientStop, Interrupt, ChildStop, ChildContinue
<1>5. CASE SupervisorStep
  BY <1>5 DEF SupervisorStep, SupervisorExit, SupervisorCrash, SupervisorOpensQueue, SupervisorReceives
<1>6. CASE UNCHANGED vars
  BY <1>6 DEF vars
<1>. QED
  BY <1>1, <1>2, <1>3, <1>4, <1>5, <1>6 DEF Next

\* Every step keeps worker groups within one command.
LEMMA GroupStep ==
  TypeOK /\ Registers /\ GroupOfCommand /\ [Next]_vars => GroupOfCommand'
<1>. SUFFICES ASSUME TypeOK, Registers, GroupOfCommand, [Next]_vars
              PROVE  GroupOfCommand'
  OBVIOUS
<1>. USE LauncherAssumption DEF GroupOfCommand
<1>1. CASE DequeueFork
  BY <1>1 DEF DequeueFork, TypeOK
<1>2. CASE DequeueSetPgid
  <2>1. dpid \in Jobs /\ CmdOf[dpid] \in Cmds
    BY <1>2 DEF DequeueSetPgid, Registers
  <2>2. PICK g \in Jobs : SetPgid(dpid, g) /\ CmdOf[g] = CmdOf[dpid]
    BY <1>2, <2>1 DEF DequeueSetPgid, SubCommand, TypeOK
  <2>3. \A j \in Jobs : pgrp'[j] = pgrp[j] \/ (j = dpid /\ pgrp'[j] = g)
    BY <2>1, <2>2 DEF SetPgid, TypeOK, Procs
  <2>4. \A c \in Cmds : prcs_grps'[c] = prcs_grps[c] \/ (c = CmdOf[dpid] /\ prcs_grps'[c] = dpid)
    BY <1>2, <2>1 DEF DequeueSetPgid, SubCommand, TypeOK
  <2>. QED
    BY <2>1, <2>2, <2>3, <2>4
<1>3. CASE ~DequeueFork /\ ~DequeueSetPgid
  BY <1>3, GroupsUnchanged
<1>. QED
  BY <1>1, <1>2, <1>3

(***************************************************************************)
(* Two workers in one group, other than the launcher's own, execute the    *)
(* same sub-command, whatever signals, failed forks and crashes there are. *)
(***************************************************************************)
THEOREM GroupsStayApart == Spec => []GroupsApart
<1>1. Init => GroupOfCommand
  BY LauncherAssumption DEF Init, GroupOfCommand, Procs
<1>2. TypeOK /\ GroupOfCommand => GroupsApart
  BY LauncherAssumption DEF GroupsApart, GroupOfCommand, Children, Procs
<1>. QED
  BY <1>1, <1>2, GroupStep, TypeCorrect, PTL DEF Spec

-----------------------------------------------------------------------------
(* The way of a message: mq, msg, dispatch_msg_queue, the batch.           *)

\* Tail of a concatenation whose first part is not empty.
LEMMA TailOfConcat ==
  ASSUME NEW S, NEW s \in Seq(S), NEW t \in Seq(S), s # <<>>
  PROVE  /\ s \o t # <<>>
         /\ Head(s \o t) = Head(s)
         /\ Tail(s \o t) = Tail(s) \o t
<1>1. Len(s) \in Nat \ {0} /\ Len(t) \in Nat
  BY SeqFacts, LenProperties
<1>2. /\ s \o t \in Seq(S)
      /\ Len(s \o t) = Len(s) + Len(t)
      /\ \A i \in 1..Len(s) + Len(t) : (s \o t)[i] = IF i <= Len(s) THEN s[i] ELSE t[i - Len(s)]
  BY ConcatProperties
<1>3. s \o t # <<>>
  BY <1>1, <1>2, EmptySeq
<1>4. /\ Tail(s) \in Seq(S) /\ Len(Tail(s)) = Len(s) - 1
      /\ \A i \in 1..Len(Tail(s)) : Tail(s)[i] = s[i + 1]
  BY HeadTailProperties
<1>5. /\ Tail(s \o t) \in Seq(S) /\ Len(Tail(s \o t)) = Len(s) + Len(t) - 1
      /\ \A i \in 1..Len(Tail(s \o t)) : Tail(s \o t)[i] = (s \o t)[i + 1]
  BY <1>2, <1>3, HeadTailProperties
<1>6. /\ Tail(s) \o t \in Seq(S) /\ Len(Tail(s) \o t) = Len(s) - 1 + Len(t)
      /\ \A i \in 1..Len(s) - 1 + Len(t) :
           (Tail(s) \o t)[i] = IF i <= Len(s) - 1 THEN Tail(s)[i] ELSE t[i - (Len(s) - 1)]
  BY <1>4, ConcatProperties
<1>7. \A i \in 1..Len(Tail(s \o t)) : Tail(s \o t)[i] = (Tail(s) \o t)[i]
  <2>. SUFFICES ASSUME NEW i \in 1..Len(s) + Len(t) - 1
                PROVE  Tail(s \o t)[i] = (Tail(s) \o t)[i]
    BY <1>5
  <2>1. CASE i <= Len(s) - 1
    BY <2>1, <1>1, <1>2, <1>4, <1>5, <1>6
  <2>2. CASE i > Len(s) - 1
    BY <2>2, <1>1, <1>2, <1>4, <1>5, <1>6
  <2>. QED
    BY <2>1, <2>2, <1>1
<1>8. Tail(s \o t) = Tail(s) \o t
  BY <1>1, <1>5, <1>6, <1>7, SeqEqual
<1>9. Head(s \o t) = Head(s)
  BY <1>1, <1>2
<1>. QED
  BY <1>3, <1>8, <1>9

\* The pending jobs are a sequence of jobs.
LEMMA HeldType ==
  ASSUME TypeOK, Registers
  PROVE  /\ Held \in Seq(Jobs)
         /\ batch \o queue \in Seq(Jobs)
         /\ Pending \in Seq(Jobs)
<1>1. Held \in Seq(Jobs)
  BY EmptySeq DEF Held, Registers
<1>2. batch \o queue \in Seq(Jobs)
  BY ConcatProperties DEF TypeOK
<1>. QED
  BY <1>1, <1>2, ConcatProperties DEF Pending

\* The main thread takes a job over.
LEMMA PendingReceive ==
  ASSUME TypeOK, Registers, Receive
  PROVE  Pending' = Append(Pending, Head(mq)) /\ Head(mq) \in Jobs
<1>1. Head(mq) \in Jobs
  BY SeqFacts DEF Receive, IsStop, TypeOK
<1>2. Held = <<>> /\ Held' = <<Head(mq)>> /\ batch' = batch /\ queue' = queue
  BY DEF Receive, Held
<1>3. Pending = batch \o queue /\ Pending' = (batch \o queue) \o <<Head(mq)>>
  BY <1>2, HeldType, ConcatEmptySeq DEF Pending
<1>. QED
  BY <1>1, <1>3, HeldType, AppendIsConcat

\* It puts the job it holds on the queue.
LEMMA PendingEnqueue ==
  ASSUME TypeOK, Registers, EndEnqueue
  PROVE  Pending' = Pending
<1>1. msg \in Jobs /\ batch \in Seq(Jobs) /\ queue \in Seq(Jobs)
  BY DEF EndEnqueue, Registers, TypeOK
<1>2. Held = <<msg>> /\ Held' = <<>> /\ batch' = batch /\ queue' = Append(queue, msg)
  BY DEF EndEnqueue, Enqueue, Held, LeaveLoop
<1>3. <<msg>> \in Seq(Jobs)
  BY <1>1
<1>4. queue' = queue \o <<msg>> /\ queue' \in Seq(Jobs)
  BY <1>1, <1>2, AppendIsConcat, AppendProperties
<1>5. batch \o queue' \in Seq(Jobs) /\ batch \o queue' = (batch \o queue) \o <<msg>>
  BY <1>1, <1>3, <1>4, ConcatProperties, ConcatAssociative
<1>6. Pending' = batch \o queue'
  BY <1>2, <1>5, ConcatEmptySeq DEF Pending
<1>. QED
  BY <1>2, <1>5, <1>6 DEF Pending

\* The de-queue thread takes a batch.
LEMMA PendingTake ==
  ASSUME TypeOK, Registers, Round(DequeueTake)
  PROVE  Pending' = Pending
<1>1. batch = <<>> /\ queue \in Seq(Jobs) /\ Held' = Held
  BY DEF Round, DequeueTake, Registers, TypeOK, Held
<1>2. CASE BatchSize > 0
  <2>1. BatchSize \in 1..Len(queue)
    BY <1>1, <1>2, LenProperties DEF BatchSize, TypeOK
  <2>2. batch' \o queue' = queue
    BY <1>1, <1>2, <2>1, SplitFacts DEF Round, DequeueTake
  <2>. QED
    BY <1>1, <2>2, ConcatEmptySeq DEF Pending
<1>3. CASE ~(BatchSize > 0)
  BY <1>1, <1>3 DEF Round, DequeueTake, Pending
<1>. QED
  BY <1>2, <1>3

\* It forks a worker, or tries to, for the oldest job.
LEMMA PendingFork ==
  ASSUME TypeOK, Registers, DequeueFork \/ DequeueForkFails
  PROVE  /\ Pending # <<>>
         /\ Head(batch) = Head(Pending)
         /\ Pending' = Tail(Pending)
<1>1. batch # <<>> /\ batch \in Seq(Jobs) /\ queue \in Seq(Jobs)
  BY DEF DequeueFork, DequeueForkFails, Registers, TypeOK
<1>2. Held' = Held /\ queue' = queue /\ batch' = Tail(batch)
  BY DEF DequeueFork, DequeueForkFails, Held
<1>3. batch \o queue # <<>> /\ Head(batch \o queue) = Head(batch)
      /\ Tail(batch \o queue) = Tail(batch) \o queue
  BY <1>1, TailOfConcat
<1>4. Pending # <<>> /\ Head(Pending) = Head(batch \o queue)
      /\ Tail(Pending) = Tail(batch \o queue) \o Held
  BY <1>3, HeldType, TailOfConcat DEF Pending
<1>5. Pending' = (Tail(batch) \o queue) \o Held
  BY <1>2 DEF Pending
<1>. QED
  BY <1>3, <1>4, <1>5

\* Nothing else changes what is pending.
LEMMA PendingUnchanged ==
  ASSUME TypeOK, Registers, [Next]_vars, ~Receive, ~DequeueFork, ~DequeueForkFails
  PROVE  Pending' = Pending
<1>. USE DEF Pending, Held
<1>1. CASE MainStep
  BY <1>1, PendingEnqueue DEF MainStep, ReceiveStop, ReceiveTimeout, BeginEnqueue, LockForEnqueue, LeaveLoop,
     CleanupFlags, CleanupShutdown, CleanupWait, CleanupNoChild, CleanupCompletion, Exit
<1>2. CASE DequeueStep
  BY <1>2, PendingTake DEF DequeueStep, Round, DequeueLock, DequeueTest, DequeueNotified, DequeueTimeout,
     DequeueSetPgid, DequeueNotify, UseAfterScope, TornDown, Receiving
<1>3. CASE ReaperStep
  BY <1>3 DEF ReaperStep, ReaperWait, ReaperNoChild, ReaperCompletion, Completion, ReaperNotify
<1>4. CASE WorldStep
  BY <1>4 DEF WorldStep, ClientSend, WorkerExit, ClientStop, Interrupt, ChildStop, ChildContinue
<1>5. CASE SupervisorStep
  BY <1>5 DEF SupervisorStep, SupervisorExit, SupervisorCrash, SupervisorOpensQueue, SupervisorReceives
<1>6. CASE UNCHANGED vars
  BY <1>6 DEF vars
<1>. QED
  BY <1>1, <1>2, <1>3, <1>4, <1>5, <1>6 DEF Next

\* The life of a job changes step by step.
LEMMA WaitingJobs ==
  ASSUME TypeOK, [Next]_vars, NEW p \in Procs
  PROVE  /\ proc[p] \in {"sent", "accepted"} /\ proc'[p] # proc[p] =>
              \/ Receive /\ p = Head(mq)
              \/ (DequeueFork \/ DequeueForkFails) /\ p = Head(batch)
         /\ proc[p] # "idle" => proc'[p] # "idle"
<1>. USE DEF TypeOK
<1>1. CASE MainStep
  BY <1>1 DEF MainStep, Receive, ReceiveStop, ReceiveTimeout, BeginEnqueue, EndEnqueue, CleanupFlags,
     CleanupShutdown, CleanupWait, Reportable, AfterWait, CleanupNoChild, CleanupCompletion, Settle, Exit
<1>2. CASE DequeueStep
  <2>1. CASE DequeueFork \/ DequeueForkFails
    <3>1. \/ proc' = [proc EXCEPT ![Head(batch)] = "running"]
          \/ proc' = [proc EXCEPT ![Head(batch)] = "nofork"]
      BY <2>1 DEF DequeueFork, DequeueForkFails
    <3>. QED
      BY <2>1, <3>1
  <2>2. CASE ~DequeueFork /\ ~DequeueForkFails
    BY <1>2, <2>2 DEF DequeueStep, Round, DequeueSetPgid, DequeueNotify, UseAfterScope
  <2>. QED
    BY <2>1, <2>2
<1>3. CASE ReaperStep
  BY <1>3 DEF ReaperStep, ReaperWait, Reportable, AfterWait, ReaperNoChild, ReaperCompletion, Settle,
     ReaperNotify
<1>4. CASE WorldStep
  BY <1>4 DEF WorldStep, ClientSend, WorkerExit, ClientStop, Interrupt, ChildStop, ChildContinue,
     Live, Executing
<1>5. CASE SupervisorStep
  BY <1>5 DEF SupervisorStep, SupervisorExit, SupervisorCrash, SupervisorOpensQueue, SupervisorReceives,
     Live, Executing
<1>6. CASE UNCHANGED vars
  BY <1>6 DEF vars
<1>. QED
  BY <1>1, <1>2, <1>3, <1>4, <1>5, <1>6 DEF Next

\* The launcher's message queue only grows by a client's message and shrinks at its head.
LEMMA MqStep ==
  ASSUME TypeOK, [Next]_vars
  PROVE  \/ mq' = mq \/ mq' = <<>>
         \/ Receive /\ mq' = Tail(mq)
         \/ \E j \in Jobs : ClientSend(j)
         \/ ClientStop
<1>1. CASE MainStep
  BY <1>1 DEF MainStep, Receive, ReceiveStop, ReceiveTimeout, BeginEnqueue, EndEnqueue, LeaveLoop, CleanupFlags,
     CleanupShutdown, CleanupWait, CleanupNoChild, CleanupCompletion, Exit
<1>2. CASE DequeueStep
  BY <1>2 DEF DequeueStep, Round, DequeueFork, DequeueForkFails, DequeueSetPgid, DequeueNotify, UseAfterScope
<1>3. CASE ReaperStep
  BY <1>3 DEF ReaperStep, ReaperWait, ReaperNoChild, ReaperCompletion, ReaperNotify
<1>4. CASE WorldStep
  BY <1>4 DEF WorldStep, WorkerExit, Interrupt, ChildStop, ChildContinue
<1>5. CASE SupervisorStep
  BY <1>5 DEF SupervisorStep, SupervisorExit, SupervisorCrash, SupervisorOpensQueue, SupervisorReceives
<1>6. CASE UNCHANGED vars
  BY <1>6 DEF vars
<1>. QED
  BY <1>1, <1>2, <1>3, <1>4, <1>5, <1>6 DEF Next

\* The first and the other elements of a sequence without repetition.
LEMMA TailOnce ==
  ASSUME NEW S, NEW s \in Seq(S), s # <<>>,
         \A i, k \in 1..Len(s) : s[i] = s[k] => i = k
  PROVE  /\ Head(s) = s[1] /\ 1 \in 1..Len(s)
         /\ \A i \in 1..Len(Tail(s)) : Tail(s)[i] # Head(s) /\ \E k \in 1..Len(s) : Tail(s)[i] = s[k]
         /\ \A i, k \in 1..Len(Tail(s)) : Tail(s)[i] = Tail(s)[k] => i = k
<1>1. Len(s) \in Nat \ {0} /\ Head(s) = s[1]
  BY SeqFacts
<1>2. Len(Tail(s)) = Len(s) - 1 /\ \A i \in 1..Len(Tail(s)) : Tail(s)[i] = s[i + 1]
  BY HeadTailProperties
<1>3. \A i \in 1..Len(Tail(s)) : i + 1 \in 1..Len(s) /\ i + 1 # 1
  BY <1>1, <1>2
<1>. QED
  BY <1>1, <1>2, <1>3

\* A new element at the end of a sequence without repetition.
LEMMA AppendOnce ==
  ASSUME NEW S, NEW s \in Seq(S), NEW e \in S,
         \A i, k \in 1..Len(s) : s[i] = s[k] => i = k,
         \A i \in 1..Len(s) : s[i] # e
  PROVE  /\ \A i \in 1..Len(Append(s, e)) : Append(s, e)[i] = e \/ \E k \in 1..Len(s) : Append(s, e)[i] = s[k]
         /\ \A i, k \in 1..Len(Append(s, e)) : Append(s, e)[i] = Append(s, e)[k] => i = k
<1>1. Len(s) \in Nat /\ Len(Append(s, e)) = Len(s) + 1
  BY LenProperties, AppendProperties
<1>2. \A i \in 1..Len(s) : Append(s, e)[i] = s[i]
  BY AppendProperties
<1>3. Append(s, e)[Len(s) + 1] = e
  BY AppendProperties
<1>4. \A i \in 1..Len(Append(s, e)) : i \in 1..Len(s) \/ i = Len(s) + 1
  BY <1>1
<1>. QED
  BY <1>1, <1>2, <1>3, <1>4

\* What is in the launcher's message queue has been sent and not accepted.
LEMMA SentStep ==
  ASSUME TypeOK, Registers, MessagesOnce, [Next]_vars
  PROVE  /\ \A i \in 1..Len(mq') : mq'[i] # Stop => proc'[mq'[i]] = "sent"
         /\ \A i, k \in 1..Len(mq') : mq'[i] = mq'[k] => i = k
<1>. mq \in Seq(Jobs \cup {Stop})
  BY DEF TypeOK
<1>. \A i \in 1..Len(mq) : mq[i] \in Jobs \cup {Stop}
  BY ElementOfSeq
<1>1. CASE mq' = mq /\ ~Receive
  <2>1. DequeueFork \/ DequeueForkFails => proc[Head(batch)] = "accepted"
    BY PendingFork, HeldType, TailOnce DEF MessagesOnce
  <2>. QED
    BY <1>1, <2>1, WaitingJobs DEF MessagesOnce, Procs
<1>2. CASE mq' = <<>>
  BY <1>2, EmptySeq
<1>3. CASE Receive
  <2>1. mq # <<>> /\ mq' = Tail(mq) /\ proc' = [proc EXCEPT ![Head(mq)] = "accepted"]
    BY <1>3 DEF Receive
  <2>2. \A i, k \in 1..Len(mq) : mq[i] = mq[k] => i = k
    BY DEF MessagesOnce
  <2>3. /\ \A i \in 1..Len(mq') : mq'[i] # Head(mq) /\ \E k \in 1..Len(mq) : mq'[i] = mq[k]
        /\ \A i, k \in 1..Len(mq') : mq'[i] = mq'[k] => i = k
    <3>. DEFINE t == Tail(mq)
    <3>1. /\ \A i \in 1..Len(t) : t[i] # Head(mq) /\ \E k \in 1..Len(mq) : t[i] = mq[k]
          /\ \A i, k \in 1..Len(t) : t[i] = t[k] => i = k
      <4>1. mq # <<>>
        BY <2>1
      <4>. QED
        BY <2>2, <4>1, TailOnce
    <3>2. mq' = t
      BY <2>1
    <3>. HIDE DEF t
    <3>. QED
      BY <3>1, <3>2
  <2>4. ASSUME NEW i \in 1..Len(mq'), mq'[i] # Stop
        PROVE  proc'[mq'[i]] = "sent"
    <3>1. PICK k \in 1..Len(mq) : mq'[i] = mq[k]
      BY <2>3
    <3>2. proc[mq[k]] = "sent" /\ mq[k] \in Procs /\ mq[k] # Head(mq)
      BY <2>3, <2>4, <3>1 DEF MessagesOnce, Procs
    <3>3. proc'[mq[k]] = proc[mq[k]]
      BY <2>1, <3>2 DEF TypeOK
    <3>. QED
      BY <3>1, <3>2, <3>3
  <2>. QED
    BY <2>3, <2>4
<1>4. ASSUME NEW j \in Jobs, ClientSend(j)
      PROVE  /\ \A i \in 1..Len(mq') : mq'[i] # Stop => proc'[mq'[i]] = "sent"
             /\ \A i, k \in 1..Len(mq') : mq'[i] = mq'[k] => i = k
  <2>1. mq' = Append(mq, j) /\ proc[j] = "idle" /\ proc' = [proc EXCEPT ![j] = "sent"]
    BY <1>4 DEF ClientSend
  <2>2. j # Stop /\ \A i \in 1..Len(mq) : mq[i] # j
    BY <2>1, LauncherAssumption DEF MessagesOnce
  <2>. QED
    BY <2>1, <2>2, AppendOnce, LauncherAssumption DEF MessagesOnce, TypeOK, Procs
<1>5. CASE ClientStop
  <2>1. mq' = Append(mq, Stop) /\ proc' = proc /\ \A i \in 1..Len(mq) : mq[i] # Stop
    BY <1>5 DEF ClientStop
  <2>. QED
    BY <2>1, AppendOnce DEF MessagesOnce
<1>. QED
  BY <1>1, <1>2, <1>3, <1>4, <1>5, MqStep

\* What is pending has been accepted, and is pending once.
LEMMA PendingStep ==
  ASSUME TypeOK, Registers, MessagesOnce, [Next]_vars
  PROVE  /\ \A i \in 1..Len(Pending') : proc'[Pending'[i]] = "accepted"
         /\ \A i, k \in 1..Len(Pending') : Pending'[i] = Pending'[k] => i = k
<1>. Pending \in Seq(Jobs)
  BY HeldType
<1>. \A i \in 1..Len(Pending) : Pending[i] \in Jobs
  BY ElementOfSeq
<1>1. CASE Receive
  <2>1. Pending' = Append(Pending, Head(mq)) /\ Head(mq) \in Jobs
    BY <1>1, PendingReceive
  <2>2. mq # <<>> /\ mq \in Seq(Jobs \cup {Stop}) /\ Head(mq) # Stop
        /\ proc' = [proc EXCEPT ![Head(mq)] = "accepted"]
    BY <1>1 DEF Receive, IsStop, TypeOK
  <2>3. proc[Head(mq)] = "sent"
    BY <2>2, TailOnce DEF MessagesOnce
  <2>4. \A i \in 1..Len(Pending) : Pending[i] # Head(mq)
    BY <2>3 DEF MessagesOnce
  <2>. QED
    BY <2>1, <2>2, <2>4, AppendOnce DEF MessagesOnce, TypeOK, Procs
<1>2. CASE DequeueFork \/ DequeueForkFails
  <2>1. Pending # <<>> /\ Head(batch) = Head(Pending) /\ Pending' = Tail(Pending)
    BY <1>2, PendingFork
  <2>2. \A i \in 1..Len(Pending') : Pending'[i] # Head(batch) /\ \E k \in 1..Len(Pending) : Pending'[i] = Pending[k]
    BY <2>1, TailOnce DEF MessagesOnce
  <2>3. \A i, k \in 1..Len(Pending') : Pending'[i] = Pending'[k] => i = k
    BY <2>1, TailOnce DEF MessagesOnce
  <2>4. \/ proc' = [proc EXCEPT ![Head(batch)] = "running"]
        \/ proc' = [proc EXCEPT ![Head(batch)] = "nofork"]
    BY <1>2 DEF DequeueFork, DequeueForkFails
  <2>5. \A x \in Jobs : x # Head(batch) => proc'[x] = proc[x]
    BY <2>4 DEF TypeOK, Procs
  <2>6. \A i \in 1..Len(Pending') : proc'[Pending'[i]] = "accepted"
    BY <2>2, <2>5 DEF MessagesOnce
  <2>. QED
    BY <2>3, <2>6
<1>3. CASE ~Receive /\ ~DequeueFork /\ ~DequeueForkFails
  BY <1>3, PendingUnchanged, WaitingJobs DEF MessagesOnce, Procs
<1>. QED
  BY <1>1, <1>2, <1>3

\* Every step keeps a message in one place.
LEMMA MessagesStep ==
  TypeOK /\ Registers /\ MessagesOnce /\ [Next]_vars => MessagesOnce'
BY SentStep, PendingStep DEF MessagesOnce

\* At first there is no message.
LEMMA MessagesInit == Init => MessagesOnce
<1>. SUFFICES ASSUME Init PROVE MessagesOnce
  OBVIOUS
<1>1. mq = <<>> /\ Pending = <<>>
  BY ConcatEmptySeq, EmptySeq DEF Init, DQInit, Pending, Held
<1>. QED
  BY <1>1, EmptySeq DEF MessagesOnce

-----------------------------------------------------------------------------
(* Slots.                                                                  *)

\* A set of processes is finite.
LEMMA ProcsFinite ==
  ASSUME NEW T \in SUBSET Procs
  PROVE  IsFiniteSet(T) /\ Cardinality(T) \in Nat
<1>1. IsFiniteSet(Procs)
  BY LauncherAssumption, FS_AddElement DEF Procs
<1>. QED
  BY <1>1, FS_Subset, FS_CardinalityType

\* So finitely many hold a slot.
LEMMA SlottedFinite ==
  /\ Slotted \in SUBSET Procs /\ Slotted' \in SUBSET Procs
  /\ IsFiniteSet(Slotted) /\ Cardinality(Slotted) \in Nat
  /\ IsFiniteSet(Slotted') /\ Cardinality(Slotted') \in Nat
<1>1. Slotted \in SUBSET Procs /\ Slotted' \in SUBSET Procs
  BY DEF Slotted
<1>. QED
  BY <1>1, ProcsFinite

\* The steps that move a slot: taking a batch, forking, and the two completion routines.
SlotStep == \/ Round(DequeueTake) \/ DequeueFork \/ DequeueForkFails
            \/ ReaperCompletion \/ CleanupCompletion

LEMMA SlotsUnchanged ==
  ASSUME TypeOK, MessagesOnce, [Next]_vars, ~SlotStep
  PROVE  Slotted' = Slotted /\ batch' = batch /\ count' = count
<1>. USE DEF TypeOK, Slotted, Unreaped, Live, Executing
<1>0. CASE Receive
  <2>1. proc[Head(mq)] = "sent"
    BY <1>0, TailOnce DEF Receive, IsStop, MessagesOnce
  <2>. QED
    BY <1>0, <2>1 DEF Receive
<1>1. CASE MainStep /\ ~Receive
  BY <1>1 DEF SlotStep, MainStep, ReceiveStop, ReceiveTimeout, BeginEnqueue, LockForEnqueue,
     EndEnqueue, Enqueue, CleanupFlags, CleanupShutdown, CleanupWait, Reportable, AfterWait, CleanupNoChild, Exit
<1>2. CASE DequeueStep
  BY <1>2 DEF SlotStep, DequeueStep, Round, DequeueLock, DequeueTest, DequeueNotified, DequeueTimeout,
     DequeueSetPgid, DequeueNotify, UseAfterScope
<1>3. CASE ReaperStep
  BY <1>3 DEF SlotStep, ReaperStep, ReaperWait, Reportable, AfterWait, ReaperNoChild, ReaperNotify
<1>4. CASE WorldStep
  BY <1>4 DEF WorldStep, ClientSend, WorkerExit, ClientStop, Interrupt, ChildStop, ChildContinue
<1>5. CASE SupervisorStep
  BY <1>5 DEF SupervisorStep, SupervisorExit, SupervisorCrash, SupervisorOpensQueue, SupervisorReceives
<1>6. CASE UNCHANGED vars
  BY <1>6 DEF vars
<1>. QED
  BY <1>0, <1>1, <1>2, <1>3, <1>4, <1>5, <1>6 DEF Next

\* Taking n messages raises the count by n.
LEMMA SlotsTaken ==
  ASSUME TypeOK, Registers, Round(DequeueTake)
  PROVE  /\ Slotted' = Slotted
         /\ count' - Len(batch') = count - Len(batch)
         /\ count' = count \/ count' <= count + headroom
<1>1. batch = <<>> /\ Slotted' = Slotted /\ queue \in Seq(Jobs) /\ headroom \in Int /\ count \in Int
  BY DEF Round, DequeueTake, Registers, Slotted, TypeOK
<1>2. Len(queue) \in Nat /\ Len(batch) = 0
  BY <1>1, LenProperties, EmptySeq
<1>3. CASE BatchSize > 0
  <2>1. BatchSize \in 1..Len(queue) /\ BatchSize <= headroom
    BY <1>1, <1>2, <1>3 DEF BatchSize
  <2>2. count' = count + BatchSize /\ batch' = SubSeq(queue, 1, BatchSize)
    BY <1>3 DEF Round, DequeueTake
  <2>3. Len(batch') = BatchSize
    BY <1>1, <2>1, <2>2, SplitFacts
  <2>. QED
    BY <1>1, <1>2, <2>1, <2>2, <2>3
<1>4. CASE ~(BatchSize > 0)
  BY <1>1, <1>2, <1>4 DEF Round, DequeueTake
<1>. QED
  BY <1>3, <1>4

\* A fork, successful or not, passes the slot of a message on to the job.
LEMMA SlotsForked ==
  ASSUME TypeOK, Registers, MessagesOnce, DequeueFork \/ DequeueForkFails
  PROVE  /\ Cardinality(Slotted') = Cardinality(Slotted) + 1
         /\ Len(batch') = Len(batch) - 1
         /\ count' = count
<1>1. Head(batch) \in Procs /\ proc[Head(batch)] = "accepted"
  BY PendingFork, HeldType, TailOnce, SeqFacts DEF MessagesOnce, Procs
<1>2. Slotted' = Slotted \cup {Head(batch)}
  <2>1. \/ proc' = [proc EXCEPT ![Head(batch)] = "running"]
        \/ proc' = [proc EXCEPT ![Head(batch)] = "nofork"]
    BY DEF DequeueFork, DequeueForkFails
  <2>. QED
    BY <1>1, <2>1 DEF TypeOK, Slotted, Unreaped, Live, Executing
<1>3. Head(batch) \notin Slotted
  BY <1>1 DEF Slotted, Unreaped, Live, Executing
<1>4. batch # <<>> /\ batch \in Seq(Jobs) /\ batch' = Tail(batch) /\ count' = count
  BY DEF DequeueFork, DequeueForkFails, Registers, TypeOK
<1>. QED
  BY <1>2, <1>3, <1>4, SlottedFinite, FS_AddElement, HeadTailProperties

\* A completion routine lowers the count by one, for one process at most.
LEMMA SlotsFreed ==
  ASSUME TypeOK, ReaperCompletion \/ CleanupCompletion
  PROVE  /\ batch' = batch
         /\ count' = count - 1
         /\ \E p \in Procs \cup {None} :
              /\ p = IF ReaperCompletion THEN rpid ELSE mpid
              /\ Slotted' = IF proc[p] = "reaped" THEN Slotted \ {p} ELSE Slotted
<1>1. batch' = batch /\ count' = count - 1
  BY DEF ReaperCompletion, Completion, CleanupCompletion, FreeSlot
<1>2. ASSUME NEW p \in Procs \cup {None}, proc' = Settle(p)
      PROVE  Slotted' = IF proc[p] = "reaped" THEN Slotted \ {p} ELSE Slotted
  BY <1>2 DEF Settle, TypeOK, Slotted, Unreaped, Live, Executing
<1>3. CASE ReaperCompletion
  BY <1>1, <1>2, <1>3 DEF ReaperCompletion, TypeOK
<1>4. CASE ~ReaperCompletion
  BY <1>1, <1>2, <1>4 DEF CleanupCompletion, TypeOK
<1>. QED
  BY <1>3, <1>4

\* At first the supervisor's process holds the one slot counted.
LEMMA SlotsInit == Init => HeadroomSafe /\ SlotsAccounted
<1>. SUFFICES ASSUME Init PROVE HeadroomSafe /\ SlotsAccounted
  OBVIOUS
<1>1. Slotted = {Jvm}
  BY LauncherAssumption DEF Init, Slotted, Procs, Unreaped, Live, Executing
<1>2. count = 1 /\ Len(batch) = 0 /\ dpc = "lock"
  BY EmptySeq DEF Init, DQInit
<1>3. Cardinality(Slotted) = 1
  BY <1>1, FS_Singleton
<1>. QED
  BY <1>2, <1>3, MaxCountAssumption DEF HeadroomSafe, SlotsAccounted

\* No slot is lost: the count never exceeds what can be accounted for.
LEMMA NoSlotLostStep ==
  TypeOK /\ Registers /\ MessagesOnce /\ NoSlotLost /\ [Next]_vars => NoSlotLost'
<1>. SUFFICES ASSUME TypeOK, Registers, MessagesOnce, NoSlotLost, [Next]_vars
              PROVE  NoSlotLost'
  OBVIOUS
<1>. count \in Int /\ Len(batch) \in Nat /\ count' \in Int /\ Len(batch') \in Nat
  BY TypeStep, LenProperties DEF TypeOK
<1>. Cardinality(Slotted) \in Nat /\ Cardinality(Slotted') \in Nat
  BY SlottedFinite
<1>1. CASE Round(DequeueTake)
  BY <1>1, SlotsTaken DEF NoSlotLost
<1>2. CASE DequeueFork \/ DequeueForkFails
  BY <1>2, SlotsForked DEF NoSlotLost
<1>3. CASE ReaperCompletion \/ CleanupCompletion
  <2>1. PICK p : Slotted' = Slotted \/ Slotted' = Slotted \ {p}
    BY <1>3, SlotsFreed
  <2>2. Cardinality(Slotted') >= Cardinality(Slotted) - 1
    BY <2>1, SlottedFinite, FS_RemoveElement
  <2>. QED
    BY <1>3, <2>2, SlotsFreed DEF NoSlotLost
<1>4. CASE ~SlotStep
  BY <1>4, SlotsUnchanged DEF NoSlotLost
<1>. QED
  BY <1>1, <1>2, <1>3, <1>4 DEF SlotStep

(***************************************************************************)
(* Capacity is lost to failed forks only, also when children are stopped   *)
(* and continued and the routine that counts them down runs twice for one. *)
(***************************************************************************)
THEOREM SlotsAreNotLost == Spec => []NoSlotLost
<1>1. Init => NoSlotLost
  <2>1. Init => count \in Int
    BY DEF Init, DQInit
  <2>. QED
    BY <2>1, SlotsInit DEF SlotsAccounted, NoSlotLost
<1>. QED
  BY <1>1, MessagesInit, MessagesStep, NoSlotLostStep, TypeCorrect, PTL DEF Spec

\* Between the test of the wait and the take, slots are only given back.
LEMMA HeadroomStep ==
  TypeOK /\ Registers /\ MessagesOnce /\ HeadroomSafe /\ [Next]_vars => HeadroomSafe'
<1>. SUFFICES ASSUME TypeOK, Registers, MessagesOnce, HeadroomSafe, [Next]_vars
              PROVE  HeadroomSafe'
  OBVIOUS
<1>. USE MaxCountAssumption DEF TypeOK, HeadroomSafe
<1>1. CASE Round(DequeueTake)
  <2>1. dpc = "take" /\ dpc' # "take"
    BY <1>1 DEF Round, DequeueTake
  <2>2. count' \in Int
    BY TypeStep
  <2>. QED
    BY <1>1, <2>1, <2>2, SlotsTaken
<1>2. CASE Round(DequeueTest)
  BY <1>2 DEF Round, DequeueTest, Headroom
<1>3. CASE ReaperCompletion \/ CleanupCompletion
  <2>1. dpc' = dpc /\ headroom' = headroom
    BY <1>3 DEF ReaperCompletion, CleanupCompletion, Completion
  <2>. QED
    BY <1>3, <2>1, SlotsFreed
<1>4. CASE DequeueFork \/ DequeueForkFails
  BY <1>4 DEF DequeueFork, DequeueForkFails, AfterHandling
<1>5. CASE ~SlotStep /\ ~Round(DequeueTest)
  <2>1. count' = count
    BY <1>5, SlotsUnchanged
  <2>2. dpc' = "take" => dpc = "take" /\ headroom' = headroom
    <3>1. CASE MainStep
      BY <1>5, <3>1 DEF SlotStep, MainStep, Receive, ReceiveStop, ReceiveTimeout, BeginEnqueue, LockForEnqueue,
         EndEnqueue, Enqueue, CleanupFlags, CleanupShutdown, CleanupWait, CleanupNoChild, Exit
    <3>2. CASE DequeueStep
      BY <1>5, <3>2 DEF SlotStep, DequeueStep, Round, DequeueLock, DequeueNotified, DequeueTimeout,
         DequeueSetPgid, DequeueNotify, UseAfterScope, AfterHandling
    <3>3. CASE ReaperStep \/ WorldStep \/ SupervisorStep
      BY <1>5, <3>3 DEF SlotStep, ReaperStep, ReaperWait, ReaperNoChild, ReaperNotify,
         WorldStep, ClientSend, WorkerExit, ClientStop, Interrupt, ChildStop, ChildContinue,
         SupervisorStep, SupervisorExit, SupervisorCrash, SupervisorOpensQueue, SupervisorReceives
    <3>4. CASE UNCHANGED vars
      BY <3>4 DEF vars
    <3>. QED
      BY <3>1, <3>2, <3>3, <3>4 DEF Next
  <2>. QED
    BY <2>1, <2>2
<1>. QED
  BY <1>1, <1>2, <1>3, <1>4, <1>5 DEF SlotStep

-----------------------------------------------------------------------------
(***************************************************************************)
(* The exact account, for children that are never stopped: each waitid()   *)
(* that returns has collected a process of its own.                        *)
(***************************************************************************)

\* Apart from the waitid() calls and the completion routines, no step touches a
\* process that has been collected, or the thread that has it in hand.
LEMMA CollectedUnchanged ==
  ASSUME TypeOK, Registers, MessagesOnce, CollectedOnce, ~ChildMayStop, [Next]_vars,
         ~ReaperWait, ~ReaperCompletion, ~CleanupWait, ~CleanupCompletion
  PROVE  /\ \A p \in Procs : proc[p] = "reaped" => proc'[p] = "reaped"
         /\ \A p \in Procs : proc'[p] \notin {"stopped", "halted", "resumed"}
         /\ rpc' = "completion" => rpc = "completion" /\ rpid' = rpid
         /\ mpc' = "completion" => mpc = "completion" /\ mpid' = mpid
<1>. USE DEF TypeOK, CollectedOnce
<1>1. CASE Receive
  <2>1. mq # <<>> /\ Head(mq) # Stop
    BY <1>1 DEF Receive, IsStop
  <2>2. proc[Head(mq)] = "sent"
    BY <2>1, TailOnce DEF MessagesOnce
  <2>. QED
    BY <1>1, <2>2 DEF Receive
<1>2. CASE DequeueFork \/ DequeueForkFails
  <2>1. proc[Head(batch)] = "accepted"
    BY <1>2, PendingFork, HeldType, TailOnce DEF MessagesOnce
  <2>2. \/ proc' = [proc EXCEPT ![Head(batch)] = "running"]
        \/ proc' = [proc EXCEPT ![Head(batch)] = "nofork"]
    BY <1>2 DEF DequeueFork, DequeueForkFails
  <2>3. rpc' = rpc /\ rpid' = rpid /\ mpc' = mpc /\ mpid' = mpid
    BY <1>2 DEF DequeueFork, DequeueForkFails
  <2>. QED
    BY <2>1, <2>2, <2>3
<1>3. CASE MainStep /\ ~Receive
  BY <1>3 DEF MainStep, ReceiveStop, ReceiveTimeout, BeginEnqueue, EndEnqueue, LeaveLoop,
     CleanupFlags, CleanupShutdown, CleanupNoChild, Exit
<1>4. CASE DequeueStep /\ ~DequeueFork /\ ~DequeueForkFails
  BY <1>4 DEF DequeueStep, Round, DequeueSetPgid, DequeueNotify, UseAfterScope
<1>5. CASE ReaperStep
  BY <1>5 DEF ReaperStep, ReaperNoChild, ReaperNotify
<1>6. CASE WorldStep
  BY <1>6 DEF WorldStep, ClientSend, WorkerExit, ClientStop, Interrupt, ChildStop, ChildContinue,
     Live, Executing
<1>7. CASE SupervisorStep
  BY <1>7 DEF SupervisorStep, SupervisorExit, SupervisorCrash, SupervisorOpensQueue, SupervisorReceives,
     Live, Executing
<1>8. CASE UNCHANGED vars
  BY <1>8 DEF vars
<1>. QED
  BY <1>1, <1>2, <1>3, <1>4, <1>5, <1>6, <1>7, <1>8 DEF Next

\* Every step keeps each collected process in the hands of one thread.
LEMMA CollectedStep ==
  ASSUME TypeOK, Registers, MessagesOnce, CollectedOnce, ~ChildMayStop, [Next]_vars
  PROVE  CollectedOnce'
<1>. USE DEF TypeOK, CollectedOnce
<1>1. CASE ReaperWait
  <2>1. PICK p \in Procs : proc[p] = "zombie" /\ proc' = [proc EXCEPT ![p] = "reaped"] /\ rpid' = p
    BY <1>1 DEF ReaperWait, Reportable, AfterWait
  <2>2. mpc' = mpc /\ mpid' = mpid
    BY <1>1 DEF ReaperWait
  <2>. QED
    BY <2>1, <2>2
<1>2. CASE CleanupWait
  <2>1. PICK p \in Procs : proc[p] = "zombie" /\ proc' = [proc EXCEPT ![p] = "reaped"] /\ mpid' = p
    BY <1>2 DEF CleanupWait, Reportable, AfterWait
  <2>2. rpc' = rpc /\ rpid' = rpid
    BY <1>2 DEF CleanupWait
  <2>. QED
    BY <2>1, <2>2
<1>3. CASE ReaperCompletion
  <2>1. proc' = [proc EXCEPT ![rpid] = "done"] /\ rpc' # "completion" /\ mpc' = mpc /\ mpid' = mpid
    BY <1>3 DEF ReaperCompletion, Settle
  <2>. QED
    BY <1>3, <2>1 DEF ReaperCompletion
<1>4. CASE CleanupCompletion
  <2>1. proc' = [proc EXCEPT ![mpid] = "done"] /\ mpc' # "completion" /\ rpc' = rpc /\ rpid' = rpid
    BY <1>4 DEF CleanupCompletion, Settle
  <2>. QED
    BY <1>4, <2>1 DEF CleanupCompletion
<1>5. CASE ~ReaperWait /\ ~ReaperCompletion /\ ~CleanupWait /\ ~CleanupCompletion
  BY <1>5, CollectedUnchanged
<1>. QED
  BY <1>1, <1>2, <1>3, <1>4, <1>5

\* Every step changes the count and the slots in use by the same number.
LEMMA AccountStep ==
  ASSUME TypeOK, Registers, MessagesOnce, CollectedOnce, SlotsAccounted, [Next]_vars
  PROVE  SlotsAccounted'
<1>. count \in Int /\ Len(batch) \in Nat /\ count' \in Int /\ Len(batch') \in Nat
  BY TypeStep, LenProperties DEF TypeOK
<1>. Cardinality(Slotted) \in Nat /\ Cardinality(Slotted') \in Nat
  BY SlottedFinite
<1>1. CASE Round(DequeueTake)
  BY <1>1, SlotsTaken DEF SlotsAccounted
<1>2. CASE DequeueFork \/ DequeueForkFails
  BY <1>2, SlotsForked DEF SlotsAccounted
<1>3. CASE ReaperCompletion \/ CleanupCompletion
  <2>1. PICK p \in Procs : proc[p] = "reaped" /\ Slotted' = Slotted \ {p}
    BY <1>3, SlotsFreed DEF CollectedOnce, ReaperCompletion, CleanupCompletion
  <2>2. p \in Slotted
    BY <2>1 DEF Slotted
  <2>. QED
    BY <1>3, <2>1, <2>2, SlotsFreed, SlottedFinite, FS_RemoveElement DEF SlotsAccounted
<1>4. CASE ~SlotStep
  BY <1>4, SlotsUnchanged DEF SlotsAccounted
<1>. QED
  BY <1>1, <1>2, <1>3, <1>4 DEF SlotStep

\* The inductive invariant holds at first...
LEMMA LauncherInvInit == Init => LauncherInv
<1>1. Init => CollectedOnce
  BY LauncherAssumption DEF Init, CollectedOnce, Procs
<1>2. Init => GroupOfCommand
  BY LauncherAssumption DEF Init, GroupOfCommand, Procs
<1>. QED
  BY <1>1, <1>2, TypeInit, MessagesInit, SlotsInit DEF LauncherInv

\* ... is kept by every step...
LEMMA LauncherInvStep == ~ChildMayStop /\ LauncherInv /\ [Next]_vars => LauncherInv'
BY TypeStep, MessagesStep, HeadroomStep, CollectedStep, AccountStep, GroupStep DEF LauncherInv

\* ... and so always holds.
LEMMA LauncherInvariant == ASSUME ~ChildMayStop PROVE Spec => []LauncherInv
BY LauncherInvInit, LauncherInvStep, PTL DEF Spec

\* child_process_count is exact.
THEOREM SlotsAreAccounted == ASSUME ~ChildMayStop PROVE Spec => []SlotsAccounted
<1>1. LauncherInv => SlotsAccounted
  BY DEF LauncherInv
<1>. QED
  BY <1>1, LauncherInvariant, PTL

\* The children and the messages taken are counted, and the count is within the limit.
LEMMA ChildrenCounted ==
  ASSUME LauncherInv
  PROVE  /\ Cardinality(Children) \in Nat
         /\ Cardinality(Children) + Len(batch) <= count
         /\ count <= MaxCount
<1>1. Children \in SUBSET Slotted
  BY DEF Children, Slotted
<1>2. Cardinality(Children) <= Cardinality(Slotted) /\ Cardinality(Children) \in Nat
  BY <1>1, SlottedFinite, FS_Subset, FS_CardinalityType
<1>3. Len(batch) \in Nat /\ count \in Int /\ Cardinality(Slotted) \in Nat
  BY LenProperties, SlottedFinite DEF LauncherInv, TypeOK
<1>. QED
  BY <1>2, <1>3 DEF LauncherInv, SlotsAccounted, HeadroomSafe

\* There are never more child processes than ChildProcessMaxCount.
THEOREM LimitIsKept == ASSUME ~ChildMayStop PROVE Spec => []ProcessLimit
<1>1. LauncherInv => ProcessLimit
  <2>. SUFFICES ASSUME LauncherInv PROVE ProcessLimit
    OBVIOUS
  <2>1. Len(batch) \in Nat /\ count \in Int
    BY LenProperties DEF LauncherInv, TypeOK
  <2>. QED
    BY <2>1, ChildrenCounted, MaxCountAssumption DEF ProcessLimit
<1>. QED
  BY <1>1, LauncherInvariant, PTL

(***************************************************************************)
(* The cleanup's own count never ends its loop: the process just collected *)
(* holds a slot, so the count is at least one.                             *)
(***************************************************************************)
THEOREM CleanupCollectsAll == ASSUME ~ChildMayStop PROVE Spec => CleanupWaitsForAll
<1>1. ASSUME LauncherInv, [Next]_vars, mpc # "exit", mpc' = "exit"
      PROVE  Children' = {}
  <2>1. CASE CleanupNoChild
    BY <2>1 DEF CleanupNoChild, Children
  <2>2. CASE CleanupCompletion
    <3>1. mpc = "completion" /\ (count > 0 => mpc' = "waitid")
      BY <1>1, <2>2 DEF CleanupCompletion, CleanupDone, LauncherInv, TypeOK
    <3>2. mpid \in Slotted
      BY <1>1, <3>1 DEF LauncherInv, CollectedOnce, Slotted
    <3>3. Cardinality(Slotted) \in Nat \ {0}
      BY <3>2, SlottedFinite, FS_EmptySet
    <3>4. Len(batch) \in Nat /\ count = Cardinality(Slotted) + Len(batch)
      BY <1>1, LenProperties DEF LauncherInv, TypeOK, SlotsAccounted
    <3>5. count > 0
      BY <3>3, <3>4
    <3>. QED
      BY <1>1, <3>1, <3>5
  <2>3. CASE MainStep /\ ~CleanupNoChild /\ ~CleanupCompletion
    BY <1>1, <2>3 DEF MainStep, Receive, ReceiveStop, ReceiveTimeout, BeginEnqueue, EndEnqueue, LeaveLoop,
       CleanupFlags, CleanupShutdown, CleanupWait, Exit
  <2>4. CASE DequeueStep
    BY <1>1, <2>4 DEF DequeueStep, Round, DequeueFork, DequeueForkFails, DequeueSetPgid, DequeueNotify,
       UseAfterScope
  <2>5. CASE ReaperStep \/ WorldStep \/ SupervisorStep
    BY <1>1, <2>5 DEF ReaperStep, ReaperWait, ReaperNoChild, ReaperCompletion, ReaperNotify,
       WorldStep, ClientSend, WorkerExit, ClientStop, Interrupt, ChildStop, ChildContinue,
       SupervisorStep, SupervisorExit, SupervisorCrash, SupervisorOpensQueue, SupervisorReceives
  <2>6. CASE UNCHANGED vars
    BY <1>1, <2>6 DEF vars
  <2>. QED
    BY <1>1, <2>1, <2>2, <2>3, <2>4, <2>5, <2>6 DEF Next
<1>2. LauncherInv /\ [Next]_vars => [mpc # "exit" /\ mpc' = "exit" => Children' = {}]_vars
  BY <1>1
<1>. QED
  BY <1>2, LauncherInvariant, PTL DEF Spec, CleanupWaitsForAll

-----------------------------------------------------------------------------
(* The launcher implements WorkerPool.                                     *)

Accepted == {j \in Jobs : proc[j] \notin {"idle", "sent"}}

\* The pool's variables that the other steps leave alone.
LEMMA PoolUnchanged ==
  ASSUME TypeOK, Registers, MessagesOnce, CollectedOnce, ~ChildMayStop, [Next]_vars,
         ~Receive, ~DequeueFork, ~DequeueForkFails
  PROVE  /\ Accepted' = Accepted
         /\ Children' = Children \/ \E p \in Children : Children' = Children \ {p}
<1>. USE DEF TypeOK, Accepted, Children, Procs, Unreaped, Live, Executing
<1>1. CASE ReaperWait \/ CleanupWait
  <2>1. PICK p \in Procs : proc[p] = "zombie" /\ proc' = [proc EXCEPT ![p] = "reaped"]
    BY <1>1 DEF ReaperWait, CleanupWait, Reportable, AfterWait, CollectedOnce
  <2>2. Accepted' = Accepted
    BY <2>1
  <2>3. p \in Children /\ Children' = Children \ {p}
    BY <2>1
  <2>. QED
    BY <2>2, <2>3
<1>2. CASE ReaperCompletion \/ CleanupCompletion
  <2>1. PICK p \in Procs : proc[p] = "reaped" /\ proc' = [proc EXCEPT ![p] = "done"]
    BY <1>2 DEF ReaperCompletion, CleanupCompletion, Settle, CollectedOnce
  <2>. QED
    BY <2>1
<1>3. CASE MainStep /\ ~CleanupWait /\ ~CleanupCompletion
  BY <1>3 DEF MainStep, ReceiveStop, ReceiveTimeout, BeginEnqueue, EndEnqueue, CleanupFlags,
     CleanupShutdown, CleanupNoChild, Exit
<1>4. CASE DequeueStep
  BY <1>4 DEF DequeueStep, Round, DequeueSetPgid, DequeueNotify, UseAfterScope
<1>5. CASE ReaperNoChild \/ ReaperNotify
  BY <1>5 DEF ReaperNoChild, ReaperNotify
<1>6. CASE WorldStep
  BY <1>6 DEF WorldStep, ClientSend, WorkerExit, ClientStop, Interrupt, ChildStop, ChildContinue, CollectedOnce
<1>7. CASE SupervisorStep
  BY <1>7 DEF SupervisorStep, SupervisorExit, SupervisorCrash, SupervisorOpensQueue, SupervisorReceives
<1>8. CASE UNCHANGED vars
  BY <1>8 DEF vars
<1>. QED
  BY <1>1, <1>2, <1>3, <1>4, <1>5, <1>6, <1>7, <1>8 DEF Next, ReaperStep

\* Every step of the launcher is a step of the pool or leaves it alone.
LEMMA PoolStep ==
  ASSUME LauncherInv, ~ChildMayStop, [Next]_vars
  PROVE  [Pool!Next]_Pool!vars
<1>. TypeOK /\ Registers /\ MessagesOnce /\ CollectedOnce
  BY DEF LauncherInv
<1>. USE DEF Pool!vars, Pool!Next
<1>1. CASE Receive
  <2>1. Pending' = Append(Pending, Head(mq)) /\ Head(mq) \in Jobs
    BY <1>1, PendingReceive
  <2>2. proc[Head(mq)] = "sent" /\ proc' = [proc EXCEPT ![Head(mq)] = "accepted"]
    <3>1. mq # <<>> /\ Head(mq) # Stop /\ mq \in Seq(Jobs \cup {Stop})
      BY <1>1 DEF Receive, IsStop, TypeOK
    <3>2. proc[Head(mq)] = "sent"
      BY <3>1, TailOnce DEF MessagesOnce
    <3>. QED
      BY <1>1, <3>2 DEF Receive
  <2>3. Head(mq) \notin Accepted /\ Accepted' = Accepted \cup {Head(mq)}
    BY <2>1, <2>2 DEF Accepted, TypeOK, Procs
  <2>4. Children' = Children
    BY <2>2 DEF Children, TypeOK, Unreaped, Live, Executing
  <2>5. PICK j \in Jobs : j = Head(mq)
    BY <2>1
  <2>6. Pool!Accept(j)
    BY <2>1, <2>3, <2>4, <2>5 DEF Pool!Accept, Accepted
  <2>. QED
    BY <2>6
<1>2. CASE DequeueFork \/ DequeueForkFails
  <2>1. Pending # <<>> /\ Head(batch) = Head(Pending) /\ Pending' = Tail(Pending)
    BY <1>2, PendingFork
  <2>2. Head(batch) \in Jobs /\ proc[Head(batch)] = "accepted"
    BY <2>1, HeldType, TailOnce, SeqFacts DEF MessagesOnce
  <2>3. \/ DequeueFork /\ proc' = [proc EXCEPT ![Head(batch)] = "running"]
        \/ DequeueForkFails /\ proc' = [proc EXCEPT ![Head(batch)] = "nofork"]
    BY <1>2 DEF DequeueFork, DequeueForkFails
  <2>4. Accepted' = Accepted
    BY <2>2, <2>3 DEF Accepted, TypeOK, Procs
  <2>5. CASE DequeueFork /\ proc' = [proc EXCEPT ![Head(batch)] = "running"]
    <3>1. Children' = Children \cup {Head(Pending)}
      BY <2>1, <2>2, <2>5 DEF Children, TypeOK, Procs, Unreaped, Live, Executing
    <3>2. batch # <<>> /\ batch \in Seq(Jobs)
      BY <2>5 DEF DequeueFork, Registers, TypeOK
    <3>3. Len(batch) \in Nat \ {0} /\ count \in Int
      BY <3>2, SeqFacts DEF TypeOK
    <3>4. Cardinality(Children) < MaxCount
      BY <3>3, ChildrenCounted, MaxCountAssumption
    <3>5. Pool!Cardinality(Children) = Cardinality(Children)
      BY Zenon DEF Pool!Cardinality, Cardinality
    <3>6. Pool!Start
      BY <2>1, <2>4, <3>1, <3>4, <3>5 DEF Pool!Start, Accepted
    <3>. QED
      BY <3>6
  <2>6. CASE DequeueForkFails /\ proc' = [proc EXCEPT ![Head(batch)] = "nofork"]
    <3>1. Children' = Children
      BY <2>2, <2>6 DEF Children, TypeOK, Procs, Unreaped, Live, Executing
    <3>2. Pool!GiveUp
      BY <2>1, <2>4, <3>1 DEF Pool!GiveUp, Accepted
    <3>. QED
      BY <3>2
  <2>. QED
    BY <2>3, <2>5, <2>6
<1>3. CASE ~Receive /\ ~DequeueFork /\ ~DequeueForkFails
  <2>1. Pending' = Pending
    BY <1>3, PendingUnchanged
  <2>2. Accepted' = Accepted
    BY <1>3, PoolUnchanged
  <2>3. CASE Children' = Children
    BY <2>1, <2>2, <2>3 DEF Accepted
  <2>4. ASSUME NEW p \in Children, Children' = Children \ {p}
        PROVE  Pool!End(p) /\ p \in Jobs \cup {Jvm}
    BY <2>1, <2>2, <2>4 DEF Pool!End, Accepted, Children, Procs
  <2>. QED
    BY <1>3, <2>3, <2>4, PoolUnchanged
<1>. QED
  BY <1>1, <1>2, <1>3

(***************************************************************************)
(* The launcher implements the pool, for children that are never stopped:  *)
(* worker commands are started in the order of their acceptance, at most   *)
(* once, and within the limit.                                             *)
(***************************************************************************)
THEOREM LauncherIsAPool == ASSUME ~ChildMayStop PROVE Spec => ImplementsPool
<1>1. Init => Pool!Init
  <2>. SUFFICES ASSUME Init PROVE Pool!Init
    OBVIOUS
  <2>1. Pending = <<>>
    BY ConcatEmptySeq, EmptySeq DEF Init, DQInit, Pending, Held
  <2>2. {j \in Jobs : proc[j] \notin {"idle", "sent"}} = {}
    BY LauncherAssumption DEF Init, Procs
  <2>3. Children = {Jvm}
    BY LauncherAssumption DEF Init, Children, Procs, Unreaped, Live, Executing
  <2>. QED
    BY <2>1, <2>2, <2>3 DEF Pool!Init
<1>2. ~ChildMayStop /\ LauncherInv /\ [Next]_vars => [Pool!Next]_Pool!vars
  BY PoolStep
<1>. QED
  BY <1>1, <1>2, LauncherInvariant, PTL DEF Spec, ImplementsPool, Pool!Spec
===============================================================================
