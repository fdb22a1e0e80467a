--------------------------- MODULE SupervisorProofs ---------------------------
(***************************************************************************)
(* Proofs about Supervisor, for every set of children and clients, every   *)
(* limit on messages and every size of the message queue.                  *)
(***************************************************************************)
EXTENDS Supervisor, SequenceFacts

USE DEF mqVars, mainVars, javaVars, envVars, lockVars, takeVars, queueVars, JavaUnchanged

-----------------------------------------------------------------------------
(* Types.                                                                  *)

\* No thread uses a local it has not set, and the batch is empty when another is taken.
Registers ==
  /\ mpc \in {"enqueue", "push"} => msg \in Queued
  /\ dpc = "java" => handling \in Queued
  /\ dpc = "handle" => batch # <<>>
  /\ dpc \notin {"handle", "java"} => batch = <<>>

LEMMA MessageFacts ==
  /\ \A m \in Received : m.cmd # "SHUTDOWN" /\ ~IsStatus(m) => m \in Queued
  /\ \A m \in Received : IsStatus(m) => m.pid \in Enquirers
  /\ \A m \in Queued : m.cmd = "COMMAND" => m.pid \in Commanders
  /\ \A m \in Queued : IsReport(m) => m.pid \in Kids
  /\ Queued \subseteq Received
BY DEF Received, Queued, IsStatus, Message, IsReport

LEMMA SupInit == Init => TypeOK /\ Registers
<1>. SUFFICES ASSUME Init
              PROVE  TypeOK /\ Registers
  OBVIOUS
<1>1. mq \in Seq(Received) /\ queue \in Seq(Queued) /\ batch \in Seq(Queued)
  BY EmptySeq DEF Init, DQInit
<1>2. notified \in BOOLEAN /\ qready \in BOOLEAN /\ jvm_shutting_down \in BOOLEAN /\ isSignaled \in BOOLEAN
      /\ interrupted \in BOOLEAN /\ shutdown_sent \in BOOLEAN
  BY Zenon DEF Init, DQInit
<1>3. TypeOK
  BY <1>1, <1>2 DEF Init, DQInit, TypeOK
<1>. QED
  BY <1>3 DEF Init, DQInit, Registers

LEMMA SendType ==
  ASSUME mq \in Seq(Received), NEW m \in Received, Send(m)
  PROVE  mq' \in Seq(Received)
BY AppendProperties DEF Send

LEMMA SupMain ==
  ASSUME TypeOK, Registers, MainStep
  PROVE  TypeOK' /\ Registers'
<1>. USE DEF TypeOK, Registers
<1>1. CASE OpenQueue
  BY <1>1 DEF OpenQueue
<1>2. CASE ReceiveShutdown
  BY <1>2, SeqFacts DEF ReceiveShutdown, TakeMessage
<1>3. CASE ReceiveStatus
  <2>1. Head(mq) \in Received /\ mq' \in Seq(Received)
    BY <1>3, SeqFacts DEF ReceiveStatus, TakeMessage
  <2>2. Head(mq).pid \in Clients
    BY <1>3, <2>1, MessageFacts DEF ReceiveStatus, Clients
  <2>3. client' \in {client, [client EXCEPT ![Head(mq).pid] = "asked"]}
    BY <1>3 DEF ReceiveStatus
  <2>. QED
    BY <1>3, <2>1, <2>2, <2>3 DEF ReceiveStatus
<1>4. CASE ReceiveOther
  <2>1. Head(mq) \in Queued /\ mq' \in Seq(Received)
    BY <1>4, SeqFacts, MessageFacts DEF ReceiveOther, TakeMessage
  <2>. QED
    BY <1>4, <2>1 DEF ReceiveOther
<1>5. CASE BeginEnqueue
  BY <1>5 DEF BeginEnqueue, LockForEnqueue
<1>6. CASE EndEnqueue
  <2>1. queue' \in Seq(Queued)
    BY <1>6, AppendProperties DEF EndEnqueue, Enqueue
  <2>. QED
    BY <1>6, <2>1 DEF EndEnqueue, Enqueue, Notify
<1>7. CASE SignalAll
  BY <1>7 DEF SignalAll
<1>8. CASE InterruptMain
  <2>1. interrupted' \in BOOLEAN
    BY <1>8 DEF InterruptMain
  <2>. QED
    BY <1>8, <2>1 DEF InterruptMain
<1>9. CASE LeaveLoop
  BY <1>9, EmptySeq DEF LeaveLoop
<1>10. CASE Exit
  BY <1>10 DEF Exit
<1>. QED
  BY <1>1, <1>2, <1>3, <1>4, <1>5, <1>6, <1>7, <1>8, <1>9, <1>10 DEF MainStep

LEMMA SupDequeue ==
  ASSUME TypeOK, Registers, DequeueStep
  PROVE  TypeOK' /\ Registers'
<1>. USE MaxCountAssumption DEF TypeOK, Registers
<1>1. CASE Round(DequeueLock)
  BY <1>1 DEF Round, DequeueLock
<1>2. CASE Round(DequeueTest)
  <2>1. headroom' \in Int
    BY <1>2 DEF Round, DequeueTest, Headroom
  <2>2. dpc \in {"test", "lasttest"} /\ dpc' \in {"take", "wait"} /\ qm' \in {"free", "main", "dequeue"}
    BY <1>2 DEF Round, DequeueTest
  <2>. QED
    BY <1>2, <2>1, <2>2 DEF Round, DequeueTest
<1>3. CASE Round(DequeueNotified)
  <2>1. notified' \in BOOLEAN
    BY <1>3, Zenon DEF Round, DequeueNotified
  <2>. QED
    BY <1>3, <2>1 DEF Round, DequeueNotified
<1>4. CASE Round(DequeueTimeout)
  <2>1. notified' \in BOOLEAN
    BY <1>4, Zenon DEF Round, DequeueTimeout
  <2>. QED
    BY <1>4, <2>1 DEF Round, DequeueTimeout
<1>5. CASE Round(DequeueTake)
  <2>. qready' \in BOOLEAN
    BY <1>5, Zenon DEF Round, DequeueTake
  <2>1. CASE BatchSize > 0
    <3>1. Len(queue) \in Nat /\ BatchSize \in 1..Len(queue)
      BY <2>1, LenProperties DEF BatchSize
    <3>2. batch' = SubSeq(queue, 1, BatchSize) /\ queue' = SubSeq(queue, BatchSize + 1, Len(queue))
      BY <1>5, <2>1 DEF Round, DequeueTake
    <3>3. batch' \in Seq(Queued) /\ queue' \in Seq(Queued) /\ batch' # <<>>
      BY <3>1, <3>2, SplitFacts
    <3>4. dpc' = "handle" /\ count' \in Int
      BY <1>5, <2>1, <3>1 DEF Round, DequeueTake
    <3>. QED
      BY <1>5, <3>3, <3>4 DEF Round, DequeueTake
  <2>2. CASE ~(BatchSize > 0)
    BY <1>5, <2>2 DEF Round, DequeueTake
  <2>. QED
    BY <2>1, <2>2
<1>6. CASE DequeueHandle
  BY <1>6, SeqFacts DEF DequeueHandle, FreeSlot
<1>7. CASE DequeueDrop
  BY <1>7, SeqFacts DEF DequeueDrop, AfterHandling
<1>8. CASE HandleReport
  <2>1. childProcesses' \in SUBSET Kids
    BY <1>8, MessageFacts DEF HandleReport, JavaReturns
  <2>. QED
    BY <1>8, <2>1 DEF HandleReport, JavaReturns, AfterHandling
<1>9. CASE CommandOpens
  <2>1. client' \in [Clients -> {"idle", "sent", "asked", "connected", "answered", "left"}]
    BY <1>9 DEF CommandOpens
  <2>. QED
    BY <1>9, <2>1 DEF CommandOpens
<1>10. CASE HandleCommand
  <2>1. client' \in [Clients -> {"idle", "sent", "asked", "connected", "answered", "left"}]
    BY <1>10 DEF HandleCommand
  <2>. QED
    BY <1>10, <2>1 DEF HandleCommand, JavaReturns, AfterHandling
<1>11. CASE CommandClientGone
  BY <1>11 DEF CommandClientGone, Crash
<1>12. CASE UseAfterScope
  BY <1>12 DEF UseAfterScope, Crash
<1>. QED
  BY <1>1, <1>2, <1>3, <1>4, <1>5, <1>6, <1>7, <1>8, <1>9, <1>10, <1>11, <1>12 DEF DequeueStep

LEMMA SupJava ==
  ASSUME TypeOK, Registers, JavaStep
  PROVE  TypeOK' /\ Registers'
<1>1. /\ UNCHANGED <<mq, mq_state, mpc, msg, qm, queue, qready, notified, dpc, headroom, batch, count,
                     handling, jvm_shutting_down, told, shutdown_sent, client>>
  BY DEF JavaStep, JavaMain, JavaMainDone, JavaMainThrows, AwaitSleep, AwaitWake, AwaitSpurious, AwaitReturns,
     DrainNext, DrainEnds
<1>2. Registers'
  BY <1>1 DEF Registers
<1>3. jpc' \in {"start", "main", "await", "waiting", "drain", "done", "failed"}
  BY DEF JavaStep, JavaMain, JavaMainDone, JavaMainThrows, AwaitSleep, AwaitWake, AwaitSpurious, AwaitReturns,
     DrainNext, DrainEnds, TypeOK
<1>4. /\ all_pids' \in SUBSET Kids /\ sigint' \in SUBSET Kids /\ snapshot' \in SUBSET Kids
      /\ childProcesses' \in SUBSET Kids
  BY DEF JavaStep, JavaMain, JavaMainDone, JavaMainThrows, AwaitSleep, AwaitWake, AwaitSpurious, AwaitReturns,
     DrainNext, DrainEnds, TypeOK
<1>5. isSignaled' \in {isSignaled, TRUE}
  BY Zenon DEF JavaStep, JavaMain, JavaMainDone, JavaMainThrows, AwaitSleep, AwaitWake, AwaitSpurious,
     AwaitReturns, DrainNext, DrainEnds
<1>6. interrupted' \in BOOLEAN
  <2>1. CASE interrupted' \in {interrupted, FALSE}
    BY <2>1 DEF TypeOK
  <2>2. CASE AwaitReturns
    BY <2>2 DEF AwaitReturns, TypeOK
  <2>. QED
    BY <2>1, <2>2, Zenon DEF JavaStep, JavaMain, JavaMainDone, JavaMainThrows, AwaitSleep, AwaitWake, AwaitSpurious,
       DrainNext, DrainEnds
<1>7. isSignaled' \in BOOLEAN
  BY <1>5 DEF TypeOK
<1>. QED
  BY <1>1, <1>2, <1>3, <1>4, <1>6, <1>7 DEF TypeOK

LEMMA SupWorld ==
  ASSUME TypeOK, Registers, WorldStep
  PROVE  TypeOK' /\ Registers'
<1>. USE DEF TypeOK, Registers
<1>1. ASSUME NEW k \in Kids, NEW c \in {"NOTIFY", "COMPLETION"}, LauncherReport(k, c)
      PROVE  TypeOK' /\ Registers'
  <2>1. mq' \in Seq(Received)
    BY <1>1, SendType DEF LauncherReport, Message, Received, Queued
  <2>. QED
    BY <1>1, <2>1 DEF LauncherReport
<1>2. CASE LauncherShutdown
  <2>1. mq' \in Seq(Received)
    BY <1>2, SendType DEF LauncherShutdown, Received
  <2>. QED
    BY <1>2, <2>1 DEF LauncherShutdown
<1>3. CASE Interrupt
  BY <1>3 DEF Interrupt
<1>4. ASSUME NEW c \in Clients, ClientRequest(c)
      PROVE  TypeOK' /\ Registers'
  <2>1. Message(IF c \in Enquirers THEN "STATUS" ELSE "COMMAND", c) \in Received
    BY DEF Message, Received, Queued, Clients
  <2>2. mq' \in Seq(Received)
    BY <1>4, <2>1, SendType DEF ClientRequest
  <2>. QED
    BY <1>4, <2>2 DEF ClientRequest
<1>5. ASSUME NEW c \in Clients, ClientLeaves(c)
      PROVE  TypeOK' /\ Registers'
  BY <1>5 DEF ClientLeaves
<1>6. ASSUME NEW c \in Enquirers, StatusAnswer(c)
      PROVE  TypeOK' /\ Registers'
  BY <1>6 DEF StatusAnswer, Clients
<1>. QED
  BY <1>1, <1>2, <1>3, <1>4, <1>5, <1>6 DEF WorldStep

LEMMA SupTypes == TypeOK /\ Registers /\ [Next]_vars => (TypeOK /\ Registers)'
<1>1. ASSUME TypeOK, Registers, UNCHANGED vars
      PROVE  TypeOK' /\ Registers'
  BY <1>1 DEF vars, TypeOK, Registers
<1>. QED
  BY <1>1, SupMain, SupDequeue, SupJava, SupWorld DEF Next

\* Every variable keeps to its type, and no thread uses a local it has not set.
THEOREM TypeCorrect == Spec => [](TypeOK /\ Registers)
BY SupInit, SupTypes, PTL DEF Spec

-----------------------------------------------------------------------------
(* The slots of messages.                                                  *)

\* Only the de-queue thread changes the count and its batch, and no step takes the flag back.
LEMMA SlotStep == TypeOK /\ Registers /\ HeadroomRestored /\ [Next]_vars => HeadroomRestored'
<1>. SUFFICES ASSUME TypeOK, Registers, HeadroomRestored, [Next]_vars, ~jvm_shutting_down'
              PROVE  count' = 1 + Len(batch')
  BY DEF HeadroomRestored
<1>1. CASE UNCHANGED <<count, batch, jvm_shutting_down>>
  BY <1>1 DEF HeadroomRestored
<1>2. CASE Round(DequeueTake)
  <2>1. count = 1 + Len(batch) /\ batch = <<>>
    BY <1>2 DEF Round, DequeueTake, HeadroomRestored, Registers
  <2>2. CASE BatchSize > 0
    <3>1. BatchSize \in 1..Len(queue) /\ queue \in Seq(Queued)
      BY <2>2, LenProperties DEF BatchSize, TypeOK
    <3>2. Len(batch') = BatchSize /\ count' = count + BatchSize
      BY <1>2, <2>2, <3>1, SplitFacts DEF Round, DequeueTake
    <3>. QED
      BY <2>1, <3>1, <3>2, EmptySeq
  <2>3. CASE ~(BatchSize > 0)
    BY <1>2, <2>1, <2>3 DEF Round, DequeueTake
  <2>. QED
    BY <2>2, <2>3
<1>3. CASE DequeueHandle
  <2>1. batch # <<>> /\ batch' = Tail(batch) /\ count' = count - 1 /\ count = 1 + Len(batch)
    BY <1>3 DEF DequeueHandle, FreeSlot, HeadroomRestored, Registers
  <2>2. Len(Tail(batch)) = Len(batch) - 1 /\ Len(batch) \in Nat
    BY <2>1, HeadTailProperties, LenProperties DEF TypeOK
  <2>. QED
    BY <2>1, <2>2
<1>4. CASE DequeueDrop
  BY <1>4 DEF DequeueDrop
<1>5. CASE DequeueStep
  BY <1>1, <1>2, <1>3, <1>4, <1>5 DEF DequeueStep, Round, DequeueLock, DequeueTest, DequeueNotified, DequeueTimeout,
     HandleReport, HandleCommand, JavaReturns, CommandOpens, CommandClientGone, UseAfterScope, Crash
<1>6. CASE MainStep
  BY <1>1, <1>6 DEF MainStep, OpenQueue, ReceiveShutdown, ReceiveStatus, ReceiveOther, BeginEnqueue, LockForEnqueue,
     EndEnqueue, Enqueue, SignalAll, InterruptMain, LeaveLoop, Exit
<1>7. CASE JavaStep
  BY <1>1, <1>7 DEF JavaStep, JavaMain, JavaMainDone, JavaMainThrows, AwaitSleep, AwaitWake, AwaitSpurious,
     AwaitReturns, DrainNext, DrainEnds
<1>8. CASE WorldStep
  BY <1>1, <1>8 DEF WorldStep, LauncherReport, LauncherShutdown, Interrupt, ClientRequest, ClientLeaves, StatusAnswer
<1>9. CASE UNCHANGED vars
  BY <1>1, <1>9 DEF vars
<1>. QED
  BY <1>5, <1>6, <1>7, <1>8, <1>9 DEF Next

(***************************************************************************)
(* Until the shutdown every slot taken for a message is given back: the    *)
(* limit on messages never wears down, for every limit and every batch.    *)
(***************************************************************************)
THEOREM SlotsComeBack == Spec => []HeadroomRestored
<1>1. Init => HeadroomRestored
  BY EmptySeq DEF Init, DQInit, HeadroomRestored
<1>. QED
  BY <1>1, SlotStep, TypeCorrect, PTL DEF Spec

-----------------------------------------------------------------------------
(***************************************************************************)
(* The drain.  A report is at one place only on its way from the launcher  *)
(* to the table: so a child that has been in the table is not put there    *)
(* again, and what the drain has found stays found.                        *)
(***************************************************************************)
Called == IF dpc = "java" THEN {handling} ELSE {}
InMsg == IF mpc \in {"enqueue", "push"} THEN {msg} ELSE {}
Pending == Called \cup Elems(batch) \cup Elems(queue) \cup InMsg \cup Elems(mq)

OnePlace ==
  /\ Single(batch, Reports) /\ Single(queue, Reports) /\ Single(mq, Reports)
  /\ Called \cap (Elems(batch) \cup Elems(queue) \cup InMsg \cup Elems(mq)) \cap Reports = {}
  /\ Elems(batch) \cap (Elems(queue) \cup InMsg \cup Elems(mq)) \cap Reports = {}
  /\ Elems(queue) \cap (InMsg \cup Elems(mq)) \cap Reports = {}
  /\ InMsg \cap Elems(mq) \cap Reports = {}

Notice(k) == Message("NOTIFY", k)

\* What is pending has been told; the notice of a child that has been in the table is not pending.
ToldOnce ==
  /\ \A m \in Pending \cap Reports : m.cmd \in told[m.pid]
  /\ \A k \in childProcesses \cup snapshot : "NOTIFY" \in told[k] /\ Notice(k) \notin Pending

\* The drain has still to find a child, or it has, or the launcher has reported its end.
Found ==
  /\ jpc \notin {"drain", "done"} => snapshot = {}
  /\ \A k \in snapshot :
       \/ k \in childProcesses /\ k \in all_pids /\ jpc = "drain"
       \/ k \notin childProcesses /\ (k \in sigint \/ "COMPLETION" \in told[k])

DrainInv == TypeOK /\ Registers /\ OnePlace /\ ToldOnce /\ Found

LEMMA DrainInit == Init => OnePlace /\ ToldOnce /\ Found
<1>. SUFFICES ASSUME Init
              PROVE  OnePlace /\ ToldOnce /\ Found
  OBVIOUS
<1>1. mq = <<>> /\ queue = <<>> /\ batch = <<>> /\ Called = {} /\ InMsg = {} /\ childProcesses = {} /\ snapshot = {}
  BY DEF Init, DQInit, Called, InMsg
<1>. QED
  BY <1>1, NoElems DEF OnePlace, ToldOnce, Found, Pending

(***************************************************************************)
(* What a step may do to pending messages: hand them on, or drop them; and *)
(* what is told stays told.                                                *)
(***************************************************************************)
HandsOn == OnePlace' /\ Pending' \cap Reports \subseteq Pending /\ \A k \in Kids : told[k] \subseteq told'[k]

LEMMA MainHandsOn ==
  ASSUME DrainInv, MainStep
  PROVE  HandsOn
<1>. USE DEF DrainInv, HandsOn
<1>1. told' = told
  BY DEF MainStep, OpenQueue, ReceiveShutdown, ReceiveStatus, ReceiveOther, BeginEnqueue, EndEnqueue, SignalAll,
     InterruptMain, LeaveLoop, Exit
<1>2. dpc' = dpc /\ handling' = handling /\ batch' = batch
  BY DEF MainStep, OpenQueue, ReceiveShutdown, ReceiveStatus, ReceiveOther, BeginEnqueue, LockForEnqueue, EndEnqueue,
     Enqueue, SignalAll, InterruptMain, LeaveLoop, Exit
<1>3. Called' = Called
  BY <1>2 DEF Called
<1>4. CASE UNCHANGED <<mq, queue>> /\ InMsg' \subseteq InMsg
  BY <1>1, <1>2, <1>3, <1>4 DEF OnePlace, Pending
<1>5. CASE TakeMessage /\ queue' = queue /\ InMsg' \subseteq {Head(mq)} /\ mpc = "receive"
  <2>1. mq # <<>> /\ mq' = Tail(mq) /\ mq \in Seq(Received)
    BY <1>5 DEF TakeMessage, TypeOK
  <2>2. /\ Elems(mq) = {Head(mq)} \cup Elems(mq')
        /\ Single(mq', Reports) /\ Head(mq) \notin Elems(mq') \cap Reports
    BY <2>1, TailElems DEF OnePlace
  <2>. QED
    BY <1>1, <1>2, <1>3, <1>5, <2>2 DEF OnePlace, Pending
<1>6. CASE EndEnqueue
  <2>1. mq' = mq /\ queue' = Append(queue, msg) /\ InMsg = {msg} /\ InMsg' = {} /\ msg \in Queued
    BY <1>6 DEF EndEnqueue, Enqueue, InMsg, Registers
  <2>2. Elems(queue') = Elems(queue) \cup {msg} /\ Single(queue', Reports)
    BY <2>1, AppendElems DEF OnePlace, TypeOK
  <2>. QED
    BY <1>1, <1>2, <1>3, <2>1, <2>2 DEF OnePlace, Pending
<1>7. CASE LeaveLoop
  <2>1. mq' = <<>> /\ queue' = queue /\ InMsg' = {}
    BY <1>7 DEF LeaveLoop, InMsg
  <2>. QED
    BY <1>1, <1>2, <1>3, <2>1, NoElems DEF OnePlace, Pending
<1>8. CASE OpenQueue \/ BeginEnqueue \/ SignalAll \/ InterruptMain \/ Exit
  <2>1. UNCHANGED <<mq, queue, msg>>
    BY <1>8 DEF OpenQueue, BeginEnqueue, LockForEnqueue, SignalAll, InterruptMain, Exit
  <2>2. InMsg' \subseteq InMsg
    BY <1>8, <2>1 DEF OpenQueue, BeginEnqueue, SignalAll, InterruptMain, Exit, InMsg
  <2>. QED
    BY <1>4, <2>1, <2>2
<1>9. CASE ReceiveShutdown \/ ReceiveStatus \/ ReceiveOther
  <2>1. TakeMessage /\ queue' = queue /\ mpc = "receive"
    BY <1>9 DEF ReceiveShutdown, ReceiveStatus, ReceiveOther, TakeMessage
  <2>2. InMsg' \subseteq {Head(mq)}
    BY <1>9, <2>1 DEF ReceiveShutdown, ReceiveStatus, ReceiveOther, InMsg
  <2>. QED
    BY <1>5, <2>1, <2>2
<1>. QED
  BY <1>6, <1>7, <1>8, <1>9 DEF MainStep

\* A report that has been handled is pending nowhere.
LEMMA DequeueHandsOn ==
  ASSUME DrainInv, DequeueStep
  PROVE  HandsOn /\ (HandleReport => handling \notin Pending')
<1>. USE DEF DrainInv, HandsOn
<1>1. UNCHANGED <<told, mq, msg>> /\ InMsg' \subseteq InMsg
  BY DEF DequeueStep, Round, DequeueHandle, DequeueDrop, HandleReport, HandleCommand, JavaReturns, CommandOpens,
     CommandClientGone, UseAfterScope, Crash, InMsg
<1>2. CASE UNCHANGED <<queue, batch>> /\ Called' \subseteq Called /\ ~HandleReport
  BY <1>1, <1>2 DEF OnePlace, Pending
<1>3. CASE Round(DequeueTake)
  <2>1. Called' = {} /\ batch = <<>> /\ ~HandleReport
    BY <1>3 DEF Round, DequeueTake, Called, Registers, HandleReport, JavaReturns
  <2>2. CASE BatchSize > 0
    <3>1. BatchSize \in 1..Len(queue) /\ queue \in Seq(Queued)
      BY <2>2, LenProperties DEF BatchSize, TypeOK
    <3>2. batch' = SubSeq(queue, 1, BatchSize) /\ queue' = SubSeq(queue, BatchSize + 1, Len(queue))
      BY <1>3, <2>2 DEF Round, DequeueTake
    <3>3. /\ Elems(queue) = Elems(batch') \cup Elems(queue')
          /\ Single(batch', Reports) /\ Single(queue', Reports) /\ Elems(batch') \cap Elems(queue') \cap Reports = {}
      BY <3>1, <3>2, SplitElems DEF OnePlace
    <3>. QED
      BY <1>1, <2>1, <3>3 DEF OnePlace, Pending
  <2>3. CASE ~(BatchSize > 0)
    <3>1. UNCHANGED <<queue, batch>>
      BY <1>3, <2>3 DEF Round, DequeueTake
    <3>. QED
      BY <1>2, <2>1, <3>1
  <2>. QED
    BY <2>2, <2>3
<1>4. CASE DequeueHandle \/ DequeueDrop
  <2>1. dpc = "handle" /\ batch' = Tail(batch) /\ queue' = queue /\ batch # <<>> /\ ~HandleReport
    BY <1>4 DEF DequeueHandle, DequeueDrop, Registers, HandleReport, JavaReturns
  <2>2. Called = {} /\ Called' \subseteq {Head(batch)}
    BY <1>4, <2>1 DEF DequeueHandle, DequeueDrop, AfterHandling, Called
  <2>3. /\ Elems(batch) = {Head(batch)} \cup Elems(batch')
        /\ Single(batch', Reports) /\ Head(batch) \notin Elems(batch') \cap Reports
    BY <2>1, TailElems DEF OnePlace, TypeOK
  <2>. QED
    BY <1>1, <2>1, <2>2, <2>3 DEF OnePlace, Pending
<1>5. CASE HandleReport
  <2>1. UNCHANGED <<queue, batch>> /\ Called = {handling} /\ Called' = {} /\ handling \in Reports
    BY <1>5 DEF HandleReport, JavaReturns, AfterHandling, Called, Registers, Reports
  <2>2. OnePlace' /\ Pending' \subseteq Pending
    BY <1>1, <2>1 DEF OnePlace, Pending
  <2>3. handling \notin Pending'
    BY <1>1, <2>1 DEF OnePlace, Pending
  <2>. QED
    BY <1>1, <2>2, <2>3
<1>6. CASE HandleCommand \/ CommandOpens \/ CommandClientGone \/ UseAfterScope
  <2>1. UNCHANGED <<queue, batch>> /\ ~HandleReport
    BY <1>6 DEF HandleCommand, HandleReport, JavaReturns, CommandOpens, CommandClientGone, UseAfterScope, Crash, IsReport,
       Registers
  <2>2. Called' \subseteq Called
    BY <1>6 DEF HandleCommand, JavaReturns, AfterHandling, CommandOpens, CommandClientGone, UseAfterScope, Crash, Called
  <2>. QED
    BY <1>2, <2>1, <2>2
<1>7. CASE Round(DequeueLock) \/ Round(DequeueTest) \/ Round(DequeueNotified) \/ Round(DequeueTimeout)
  <2>1. UNCHANGED <<queue, batch>> /\ Called' = {} /\ ~HandleReport
    BY <1>7 DEF Round, DequeueLock, DequeueTest, DequeueNotified, DequeueTimeout, Called, HandleReport, JavaReturns
  <2>. QED
    BY <1>2, <2>1
<1>. QED
  BY <1>3, <1>4, <1>5, <1>6, <1>7 DEF DequeueStep

\* A report comes on top of what is pending, and only one that has not been told.
LEMMA WorldHandsOn ==
  ASSUME DrainInv, WorldStep
  PROVE  \/ HandsOn
         \/ \E k \in Kids, c \in {"NOTIFY", "COMPLETION"} :
              /\ OnePlace' /\ c \notin told[k] /\ Pending' \cap Reports \subseteq Pending \cup {Message(c, k)}
              /\ told' = [told EXCEPT ![k] = @ \cup {c}]
<1>. USE DEF DrainInv
<1>1. UNCHANGED <<queue, batch, msg, mpc, dpc, handling>>
  BY DEF WorldStep, LauncherReport, LauncherShutdown, Interrupt, ClientRequest, ClientLeaves, StatusAnswer
<1>2. Called' = Called /\ InMsg' = InMsg
  BY <1>1 DEF Called, InMsg
<1>3. ASSUME NEW m \in Received, Send(m), m \notin Pending \cap Reports
      PROVE  OnePlace' /\ Pending' \subseteq Pending \cup {m}
  <2>1. CASE mq' = mq
    BY <1>1, <1>2, <2>1 DEF OnePlace, Pending
  <2>2. CASE mq' = Append(mq, m)
    <3>1. Elems(mq') = Elems(mq) \cup {m} /\ Single(mq', Reports)
      BY <1>3, <2>2, AppendElems DEF TypeOK, OnePlace, Pending
    <3>. QED
      BY <1>1, <1>2, <1>3, <3>1 DEF OnePlace, Pending
  <2>. QED
    BY <1>3, <2>1, <2>2 DEF Send
<1>4. ASSUME NEW k \in Kids, NEW c \in {"NOTIFY", "COMPLETION"}, LauncherReport(k, c)
      PROVE  /\ OnePlace' /\ c \notin told[k] /\ Pending' \cap Reports \subseteq Pending \cup {Message(c, k)}
             /\ told' = [told EXCEPT ![k] = @ \cup {c}]
  <2>1. Message(c, k) \in Received /\ Message(c, k).cmd = c /\ Message(c, k).pid = k
    BY DEF Message, Received, Queued
  <2>2. Message(c, k) \notin Pending \cap Reports
    BY <1>4, <2>1 DEF LauncherReport, ToldOnce
  <2>. QED
    BY <1>3, <1>4, <2>1, <2>2 DEF LauncherReport
<1>5. ASSUME NEW m \in Received, Send(m), ~IsReport(m), told' = told
      PROVE  HandsOn
  BY <1>3, <1>5 DEF Reports, HandsOn
<1>6. CASE LauncherShutdown
  <2>1. Message("SHUTDOWN", None) \in Received /\ ~IsReport(Message("SHUTDOWN", None))
    BY DEF Message, Received, IsReport
  <2>. QED
    BY <1>5, <1>6, <2>1 DEF LauncherShutdown
<1>7. ASSUME NEW c \in Clients, ClientRequest(c)
      PROVE  HandsOn
  <2>. DEFINE m == Message(IF c \in Enquirers THEN "STATUS" ELSE "COMMAND", c)
  <2>1. m \in Received /\ ~IsReport(m)
    BY DEF Message, Received, Queued, Clients, IsReport
  <2>. QED
    BY <1>5, <1>7, <2>1 DEF ClientRequest
<1>8. ASSUME UNCHANGED <<mq, told>>
      PROVE  HandsOn
  BY <1>1, <1>2, <1>8 DEF OnePlace, Pending, HandsOn
<1>. QED
  BY <1>4, <1>6, <1>7, <1>8 DEF WorldStep, Interrupt, ClientLeaves, StatusAnswer

LEMMA JavaHandsOn ==
  ASSUME DrainInv, JavaStep \/ UNCHANGED vars
  PROVE  HandsOn
<1>1. UNCHANGED <<mq, queue, batch, msg, mpc, dpc, handling, told>>
  BY DEF vars, JavaStep, JavaMain, JavaMainDone, JavaMainThrows, AwaitSleep, AwaitWake, AwaitSpurious, AwaitReturns,
     DrainNext, DrainEnds
<1>. QED
  BY <1>1 DEF DrainInv, OnePlace, Pending, Called, InMsg, HandsOn

\* Who comes into the table: the child whose notice is handled.
LEMMA TableStep ==
  ASSUME DrainInv, [Next]_vars
  PROVE  /\ \A k \in childProcesses' : k \in childProcesses \/ (HandleReport /\ handling = Notice(k))
         /\ \A k \in snapshot' : k \in snapshot \/ k \in childProcesses
<1>1. CASE HandleReport
  <2>1. snapshot' = snapshot /\ handling \in Queued
    BY <1>1 DEF HandleReport, JavaReturns, DrainInv, Registers
  <2>2. CASE handling.cmd = "NOTIFY"
    <3>1. childProcesses' = childProcesses \cup {handling.pid}
      BY <1>1, <2>2 DEF HandleReport
    <3>2. handling = Notice(handling.pid)
      BY <2>1, <2>2 DEF Queued, Notice, Message
    <3>. QED
      BY <1>1, <2>1, <3>1, <3>2
  <2>3. CASE handling.cmd # "NOTIFY"
    BY <1>1, <2>1, <2>3 DEF HandleReport
  <2>. QED
    BY <2>2, <2>3
<1>2. CASE AwaitReturns
  BY <1>2 DEF AwaitReturns
<1>3. CASE childProcesses' \subseteq childProcesses /\ snapshot' = snapshot
  BY <1>3
<1>4. CASE MainStep
  BY <1>3, <1>4 DEF MainStep, OpenQueue, ReceiveShutdown, ReceiveStatus, ReceiveOther, BeginEnqueue, EndEnqueue,
     SignalAll, InterruptMain, LeaveLoop, Exit
<1>5. CASE DequeueStep
  BY <1>1, <1>3, <1>5 DEF DequeueStep, Round, DequeueHandle, DequeueDrop, HandleCommand, JavaReturns, CommandOpens,
     CommandClientGone, UseAfterScope, Crash
<1>6. CASE JavaStep
  BY <1>2, <1>3, <1>6 DEF JavaStep, JavaMain, JavaMainDone, JavaMainThrows, AwaitSleep, AwaitWake, AwaitSpurious,
     DrainNext, DrainEnds
<1>7. CASE WorldStep
  BY <1>3, <1>7 DEF WorldStep, LauncherReport, LauncherShutdown, Interrupt, ClientRequest, ClientLeaves, StatusAnswer
<1>8. CASE UNCHANGED vars
  BY <1>3, <1>8 DEF vars
<1>. QED
  BY <1>4, <1>5, <1>6, <1>7, <1>8 DEF Next

LEMMA ToldStep ==
  ASSUME DrainInv, [Next]_vars
  PROVE  OnePlace' /\ ToldOnce'
<1>1. \/ HandsOn /\ (HandleReport => handling \notin Pending')
      \/ \E k \in Kids, c \in {"NOTIFY", "COMPLETION"} :
           /\ OnePlace' /\ c \notin told[k] /\ Pending' \cap Reports \subseteq Pending \cup {Message(c, k)}
           /\ told' = [told EXCEPT ![k] = @ \cup {c}] /\ ~HandleReport
  <2>1. DequeueStep \/ ~HandleReport
    BY DEF DequeueStep
  <2>2. WorldStep => ~HandleReport
    BY DEF DrainInv, Registers, HandleReport, JavaReturns, AfterHandling, WorldStep, LauncherReport, LauncherShutdown, Interrupt,
       ClientRequest, ClientLeaves, StatusAnswer
  <2>. QED
    BY <2>1, <2>2, MainHandsOn, DequeueHandsOn, JavaHandsOn, WorldHandsOn DEF Next
<1>2. \A k \in Kids : Notice(k) \in Reports /\ Notice(k).cmd = "NOTIFY" /\ Notice(k).pid = k
  BY DEF Notice, Message, Reports, Queued, IsReport
<1>3. childProcesses' \cup snapshot' \cup childProcesses \cup snapshot \subseteq Kids
  <2>1. childProcesses \cup snapshot \subseteq Kids /\ (HandleReport => handling \in Queued)
    BY DEF DrainInv, TypeOK, Registers, HandleReport, JavaReturns
  <2>2. \A k : HandleReport /\ handling = Notice(k) => k \in Kids
    BY <2>1, MessageFacts DEF Notice, Message, IsReport
  <2>. QED
    BY <2>1, <2>2, TableStep
<1>4. \A k \in childProcesses' \cup snapshot' :
        \/ "NOTIFY" \in told[k] /\ Notice(k) \notin Pending
        \/ HandleReport /\ handling = Notice(k) /\ "NOTIFY" \in told[k]
  <2>1. \A k \in childProcesses \cup snapshot : "NOTIFY" \in told[k] /\ Notice(k) \notin Pending
    BY DEF DrainInv, ToldOnce
  <2>2. \A k \in Kids : HandleReport /\ handling = Notice(k) => "NOTIFY" \in told[k]
    <3>1. HandleReport => handling \in Pending
      BY DEF HandleReport, JavaReturns, Pending, Called
    <3>. QED
      BY <1>2, <3>1 DEF DrainInv, ToldOnce
  <2>. QED
    BY <1>3, <2>1, <2>2, TableStep
<1>5. CASE HandsOn /\ (HandleReport => handling \notin Pending')
  <2>1. \A m \in Pending' \cap Reports : m \in Pending /\ m.pid \in Kids
    BY <1>5, MessageFacts DEF HandsOn, Reports
  <2>2. \A m \in Pending' \cap Reports : m.cmd \in told'[m.pid]
    BY <1>5, <2>1 DEF HandsOn, DrainInv, ToldOnce
  <2>3. \A k \in childProcesses' \cup snapshot' : "NOTIFY" \in told'[k] /\ Notice(k) \notin Pending'
    BY <1>2, <1>3, <1>4, <1>5 DEF HandsOn
  <2>. QED
    BY <1>5, <2>2, <2>3 DEF HandsOn, ToldOnce, Notice
<1>6. ASSUME NEW j \in Kids, NEW c \in {"NOTIFY", "COMPLETION"},
             OnePlace', c \notin told[j], Pending' \cap Reports \subseteq Pending \cup {Message(c, j)},
             told' = [told EXCEPT ![j] = @ \cup {c}], ~HandleReport
      PROVE  OnePlace' /\ ToldOnce'
  <2>1. \A k \in Kids : told[k] \subseteq told'[k] /\ c \in told'[j]
    BY <1>6 DEF DrainInv, TypeOK
  <2>2. Message(c, j).cmd = c /\ Message(c, j).pid = j
    BY DEF Message
  <2>3. \A m \in Pending' \cap Reports : m.pid \in Kids /\ (m \in Pending \/ m = Message(c, j))
    BY <1>6, MessageFacts DEF Reports
  <2>4. \A m \in Pending' \cap Reports : m.cmd \in told'[m.pid]
    BY <2>1, <2>2, <2>3 DEF DrainInv, ToldOnce
  <2>5. ASSUME NEW k \in childProcesses' \cup snapshot'
        PROVE  "NOTIFY" \in told'[k] /\ Notice(k) \notin Pending'
    <3>1. "NOTIFY" \in told[k] /\ Notice(k) \notin Pending /\ k \in Kids
      BY <1>3, <1>4, <1>6
    <3>2. Notice(k) # Message(c, j)
      BY <1>2, <1>6, <2>2, <3>1
    <3>. QED
      BY <1>2, <1>6, <2>1, <3>1, <3>2
  <2>. QED
    BY <1>6, <2>4, <2>5 DEF ToldOnce, Notice
<1>. QED
  BY <1>1, <1>5, <1>6

LEMMA FoundStep ==
  ASSUME DrainInv, [Next]_vars
  PROVE  Found'
<1>. USE DEF DrainInv
<1>1. \A k \in snapshot : k \in Kids /\ told[k] \subseteq told'[k]
  <2>1. \A k \in Kids : told[k] \subseteq told'[k]
    <3>1. CASE \E k \in Kids, c \in {"NOTIFY", "COMPLETION"} : told' = [told EXCEPT ![k] = @ \cup {c}]
      BY <3>1 DEF TypeOK
    <3>. QED
      BY <3>1, MainHandsOn, DequeueHandsOn, JavaHandsOn, WorldHandsOn DEF Next, HandsOn
  <2>. QED
    BY <2>1 DEF TypeOK
<1>2. CASE UNCHANGED <<jpc, snapshot, all_pids, sigint, childProcesses>>
  BY <1>1, <1>2 DEF Found
<1>3. CASE HandleReport
  <2>1. UNCHANGED <<jpc, snapshot, all_pids, sigint, told>> /\ handling \in Pending \cap Reports
    BY <1>3 DEF HandleReport, JavaReturns, Pending, Called, Reports, Registers
  <2>2. handling.cmd \in told[handling.pid] /\ handling \in Queued
    BY <2>1 DEF ToldOnce, Reports
  <2>3. CASE handling.cmd = "NOTIFY"
    <3>1. handling = Notice(handling.pid)
      BY <2>2, <2>3 DEF Queued, Notice, Message
    <3>2. handling.pid \notin snapshot
      BY <2>1, <3>1 DEF ToldOnce
    <3>3. childProcesses' = childProcesses \cup {handling.pid}
      BY <1>3, <2>3 DEF HandleReport
    <3>. QED
      BY <2>1, <3>2, <3>3 DEF Found
  <2>4. CASE handling.cmd = "COMPLETION"
    <3>1. childProcesses' = childProcesses \ {handling.pid} /\ "COMPLETION" \in told[handling.pid]
      BY <1>3, <2>2, <2>4 DEF HandleReport
    <3>. QED
      BY <2>1, <3>1 DEF Found
  <2>. QED
    BY <1>3, <2>3, <2>4 DEF HandleReport, IsReport
<1>4. CASE JavaStep
  <2>1. CASE JavaMain \/ JavaMainDone \/ JavaMainThrows \/ AwaitSleep \/ AwaitWake \/ AwaitSpurious
    <3>1. snapshot = {} /\ snapshot' = {} /\ jpc' \notin {"drain", "done"}
      BY <2>1 DEF Found, JavaMain, JavaMainDone, JavaMainThrows, AwaitSleep, AwaitWake, AwaitSpurious
    <3>. QED
      BY <3>1 DEF Found
  <2>2. CASE AwaitReturns
    <3>1. snapshot = {} /\ childProcesses' = childProcesses
      BY <2>2 DEF Found, AwaitReturns
    <3>2. CASE SupervisorMode
      BY <2>2, <3>1, <3>2 DEF Found, AwaitReturns
    <3>3. CASE ~SupervisorMode
      BY <2>2, <3>1, <3>3 DEF Found, AwaitReturns
    <3>. QED
      BY <3>2, <3>3
  <2>3. CASE DrainNext
    <3>1. PICK k \in childProcesses \cap all_pids :
            /\ all_pids' = all_pids \ {k} /\ childProcesses' = childProcesses \ {k} /\ sigint' = sigint \cup {k}
      BY <2>3 DEF DrainNext
    <3>2. UNCHANGED <<jpc, snapshot, told>>
      BY <2>3 DEF DrainNext
    <3>. QED
      BY <3>1, <3>2 DEF Found
  <2>4. CASE DrainEnds
    BY <2>4 DEF DrainEnds, DrainDone, Found
  <2>. QED
    BY <1>4, <2>1, <2>2, <2>3, <2>4 DEF JavaStep
<1>5. CASE MainStep
  BY <1>2, <1>5 DEF MainStep, OpenQueue, ReceiveShutdown, ReceiveStatus, ReceiveOther, BeginEnqueue, EndEnqueue,
     SignalAll, InterruptMain, LeaveLoop, Exit
<1>6. CASE DequeueStep
  BY <1>2, <1>3, <1>6 DEF DequeueStep, Round, DequeueHandle, DequeueDrop, HandleCommand, JavaReturns, CommandOpens,
     CommandClientGone, UseAfterScope, Crash
<1>7. CASE WorldStep \/ UNCHANGED vars
  BY <1>2, <1>7 DEF vars, WorldStep, LauncherReport, LauncherShutdown, Interrupt, ClientRequest, ClientLeaves, StatusAnswer
<1>. QED
  BY <1>4, <1>5, <1>6, <1>7 DEF Next

\* The inductive invariant of the drain.
THEOREM DrainInvariant == Spec => []DrainInv
<1>1. Init => DrainInv
  BY SupInit, DrainInit DEF DrainInv
<1>2. DrainInv /\ [Next]_vars => DrainInv'
  BY SupTypes, ToldStep, FoundStep DEF DrainInv
<1>. QED
  BY <1>1, <1>2, PTL DEF Spec

(***************************************************************************)
(* When the drain has ended, every child that was in the table when it     *)
(* began is off it and has been signalled or reported as completed,        *)
(* whatever reports were underway and handled meanwhile.                   *)
(***************************************************************************)
THEOREM DrainReachesEveryChild == Spec => []DrainReachesAll
<1>1. DrainInv => DrainReachesAll
  BY DEF DrainInv, Found, DrainReachesAll
<1>. QED
  BY <1>1, DrainInvariant, PTL

-----------------------------------------------------------------------------
(***************************************************************************)
(* The table follows the reports.                                          *)
(***************************************************************************)

\* A message is held on its way to the work queue only, or for good by a process that is
\* gone; every way to the shutdown of the Java side, and to the end of the loop, raises the flag.
BoardInv ==
  /\ mpc \notin {"enqueue", "push", "gone"} => msg = None
  /\ mpc \in {"signal", "interrupt", "leave", "join"} => jvm_shutting_down
  /\ isSignaled \/ interrupted \/ jpc = "drain" => jvm_shutting_down

LEMMA BoardInvStep ==
  ASSUME TypeOK, BoardInv, [Next]_vars
  PROVE  BoardInv'
<1>. USE DEF BoardInv
<1>1. CASE UNCHANGED vars
  BY <1>1 DEF vars
<1>2. CASE MainStep
  BY <1>2 DEF MainStep, OpenQueue, ReceiveShutdown, ReceiveStatus, ReceiveOther, BeginEnqueue, EndEnqueue, SignalAll,
     InterruptMain, LeaveLoop, Exit, TakeMessage
<1>3. CASE DequeueStep
  <2>1. UNCHANGED <<msg, jvm_shutting_down, isSignaled, interrupted, jpc>> /\ mpc' \in {mpc, "gone"}
    BY <1>3 DEF DequeueStep, Round, DequeueHandle, DequeueDrop, HandleReport, HandleCommand, JavaReturns, CommandOpens,
       CommandClientGone, UseAfterScope, Crash
  <2>. QED
    BY <2>1
<1>4. CASE JavaStep
  <2>1. UNCHANGED <<msg, mpc, jvm_shutting_down>>
    BY <1>4 DEF JavaStep, JavaMain, JavaMainDone, JavaMainThrows, AwaitSleep, AwaitWake, AwaitSpurious, AwaitReturns,
       DrainNext, DrainEnds
  <2>2. CASE AwaitReturns
    <3>1. isSignaled \/ interrupted
      BY <2>2, Zenon DEF AwaitReturns
    <3>. QED
      BY <2>1, <3>1
  <2>3. CASE JavaMainDone
    <3>1. interrupted' = interrupted \/ interrupted' = FALSE
      BY <2>3, Zenon DEF JavaMainDone
    <3>2. isSignaled' = isSignaled /\ jpc' # "drain"
      BY <2>3 DEF JavaMainDone
    <3>3. isSignaled' \/ interrupted' \/ jpc' = "drain" => isSignaled \/ interrupted
      BY <3>1, <3>2
    <3>. QED
      BY <2>1, <3>3
  <2>4. CASE UNCHANGED <<isSignaled, interrupted>> /\ (jpc' = "drain" => jpc = "drain")
    BY <2>1, <2>4
  <2>5. CASE JavaMain \/ JavaMainThrows \/ AwaitSleep \/ AwaitWake \/ AwaitSpurious \/ DrainNext \/ DrainEnds
    <3>1. isSignaled' = isSignaled /\ interrupted' = interrupted
      BY <2>5, Zenon DEF JavaMain, JavaMainThrows, AwaitSleep, AwaitWake, AwaitSpurious, DrainNext, DrainEnds
    <3>2. jpc' = "drain" => jpc = "drain"
      BY <2>5 DEF JavaMain, JavaMainThrows, AwaitSleep, AwaitWake, AwaitSpurious, DrainNext, DrainEnds
    <3>. QED
      BY <2>4, <3>1, <3>2
  <2>. QED
    BY <1>4, <2>2, <2>3, <2>5 DEF JavaStep
<1>5. CASE WorldStep
  BY <1>5 DEF WorldStep, LauncherReport, LauncherShutdown, Interrupt, ClientRequest, ClientLeaves, StatusAnswer
<1>. QED
  BY <1>1, <1>2, <1>3, <1>4, <1>5 DEF Next

(***************************************************************************)
(* What a step does to the messages outstanding: they are kept, one is put *)
(* behind them, the oldest is taken off, one that is no report is taken    *)
(* out of their middle, or the youngest are cut off.                       *)
(***************************************************************************)
Pushed(m) == m \in Received /\ Outstanding' = Append(Outstanding, m)
Popped(m) == m \in Received /\ Outstanding = <<m>> \o Outstanding'
PassedOver(m) ==
  /\ m \in Received \ Reports
  /\ \E a, b \in Seq(Received) : Outstanding = (a \o <<m>>) \o b /\ Outstanding' = a \o b
CutOff == \E b \in Seq(Received) : Outstanding = Outstanding' \o b

\* The parts of Outstanding, and their concatenation from the front.
LEMMA OutstandingParts ==
  ASSUME TypeOK, Registers
  PROVE  /\ InJava \in Seq(Received) /\ batch \in Seq(Received) /\ queue \in Seq(Received)
         /\ Held \in Seq(Received) /\ mq \in Seq(Received)
         /\ InJava \o batch \in Seq(Received)
         /\ (InJava \o batch) \o queue \in Seq(Received)
         /\ ((InJava \o batch) \o queue) \o Held \in Seq(Received)
         /\ Outstanding \in Seq(Received)
<1>1. Seq(Queued) \subseteq Seq(Received)
  BY SeqMonotonic, MessageFacts
<1>2. \A m \in Queued : <<m>> \in Seq(Received)
  BY MessageFacts
<1>3. <<>> \in Seq(Received)
  BY EmptySeq
<1>4. InJava \in Seq(Received)
  BY <1>2, <1>3 DEF InJava, Registers
<1>5. Held \in Seq(Received)
  BY <1>2, <1>3 DEF Held, TypeOK
<1>6. batch \in Seq(Received) /\ queue \in Seq(Received) /\ mq \in Seq(Received)
  BY <1>1 DEF TypeOK
<1>. HIDE DEF InJava, Held
<1>7. InJava \o batch \in Seq(Received)
  BY <1>4, <1>6
<1>8. (InJava \o batch) \o queue \in Seq(Received)
  BY <1>6, <1>7
<1>9. ((InJava \o batch) \o queue) \o Held \in Seq(Received)
  BY <1>5, <1>8
<1>10. Outstanding \in Seq(Received)
  BY <1>6, <1>9 DEF Outstanding
<1>. QED
  BY <1>4, <1>5, <1>6, <1>7, <1>8, <1>9, <1>10

\* The main thread takes a message off the message queue.
LEMMA TakenMessage ==
  ASSUME TypeOK, Registers, BoardInv, TakeMessage, UNCHANGED <<InJava, batch, queue>>
  PROVE  /\ Head(mq) \in Received
         /\ Held' = Held /\ Head(mq) \notin Reports => PassedOver(Head(mq))
         /\ Held' = <<Head(mq)>> => Outstanding' = Outstanding
<1>. DEFINE front == (InJava \o batch) \o queue
            rest == Tail(mq)
            h == Head(mq)
<1>1. h \in Received /\ rest \in Seq(Received) /\ <<h>> \o rest = mq /\ mq' = rest
  BY SeqFacts, HeadFirst DEF TakeMessage, TypeOK
<1>2. front \in Seq(Received) /\ Held = <<>>
  BY OutstandingParts DEF Held, BoardInv, TakeMessage
<1>3. Outstanding = (front \o Held) \o mq /\ Outstanding' = (front \o Held') \o mq'
  BY DEF Outstanding
<1>4. front \o <<>> = front
  BY <1>2, ConcatEmptySeq
<1>. HIDE DEF front, rest, h
<1>5. front \o (<<h>> \o rest) = (front \o <<h>>) \o rest
  BY <1>1, <1>2
<1>6. Outstanding = (front \o <<h>>) \o rest
  BY <1>1, <1>2, <1>3, <1>4, <1>5
<1>7. ASSUME Held' = Held, h \notin Reports
      PROVE  PassedOver(h)
  <2>1. Outstanding' = front \o rest
    BY <1>1, <1>2, <1>3, <1>4, <1>7
  <2>. QED
    BY <1>1, <1>2, <1>6, <1>7, <2>1, Zenon DEF PassedOver
<1>8. ASSUME Held' = <<h>>
      PROVE  Outstanding' = Outstanding
  BY <1>1, <1>3, <1>6, <1>8
<1>. QED
  BY <1>1, <1>7, <1>8 DEF h

LEMMA MainOutstanding ==
  ASSUME TypeOK, Registers, BoardInv, MainStep
  PROVE  \/ Outstanding' = Outstanding
         \/ \E m \in Received : PassedOver(m)
         \/ jvm_shutting_down /\ CutOff
<1>1. InJava' = InJava /\ batch' = batch
  BY DEF MainStep, OpenQueue, ReceiveShutdown, ReceiveStatus, ReceiveOther, BeginEnqueue, LockForEnqueue, EndEnqueue,
     Enqueue, SignalAll, InterruptMain, LeaveLoop, Exit, InJava
<1>2. CASE OpenQueue \/ BeginEnqueue \/ SignalAll \/ InterruptMain \/ Exit
  <2>1. UNCHANGED <<mq, queue, msg>>
    BY <1>2 DEF OpenQueue, BeginEnqueue, LockForEnqueue, SignalAll, InterruptMain, Exit
  <2>. QED
    BY <1>1, <2>1 DEF Outstanding, Held
<1>3. CASE ReceiveShutdown \/ ReceiveStatus
  <2>1. TakeMessage /\ queue' = queue /\ msg' = msg
    BY <1>3 DEF ReceiveShutdown, ReceiveStatus, TakeMessage
  <2>2. Head(mq) \notin Reports
    BY <1>3 DEF ReceiveShutdown, ReceiveStatus, IsStatus, Reports, IsReport
  <2>3. Held' = Held
    BY <2>1 DEF Held
  <2>. QED
    BY <1>1, <2>1, <2>2, <2>3, TakenMessage
<1>4. CASE ReceiveOther
  <2>1. TakeMessage /\ queue' = queue /\ msg' = Head(mq)
    BY <1>4 DEF ReceiveOther, TakeMessage
  <2>2. Head(mq) \in Received
    BY <2>1, SeqFacts DEF TakeMessage, TypeOK
  <2>3. Head(mq) # None
    BY <1>4, <2>2, MessageFacts, NoneAssumption DEF ReceiveOther, Queued
  <2>4. Held' = <<Head(mq)>>
    BY <2>1, <2>3 DEF Held
  <2>. QED
    BY <1>1, <2>1, <2>4, TakenMessage
<1>5. CASE EndEnqueue
  <2>. DEFINE front == InJava \o batch
  <2>1. mq' = mq /\ queue' = Append(queue, msg) /\ msg' = None /\ msg \in Queued
    BY <1>5 DEF EndEnqueue, Enqueue, Registers
  <2>2. Held = <<msg>> /\ Held' = <<>>
    BY <2>1, NoneAssumption DEF Held, Queued
  <2>3. /\ front \in Seq(Received) /\ queue \in Seq(Received) /\ Held \in Seq(Received) /\ msg \in Received
        /\ Outstanding = ((front \o queue) \o Held) \o mq
        /\ Outstanding' = ((front \o queue') \o Held') \o mq
    BY <1>1, <2>1, OutstandingParts, MessageFacts DEF Outstanding
  <2>. HIDE DEF front
  <2>4. (front \o queue) \o Held = front \o queue'
    <3>1. queue' = queue \o Held
      BY <2>1, <2>2, <2>3, AppendIsConcat
    <3>2. (front \o queue) \o Held = front \o (queue \o Held)
      BY <2>3
    <3>. QED
      BY <3>1, <3>2
  <2>5. front \o queue' \in Seq(Received)
    <3>1. front \o queue \in Seq(Received)
      BY <2>3
    <3>. QED
      BY <2>3, <2>4, <3>1, ConcatProperties
  <2>6. (front \o queue') \o <<>> = front \o queue'
    BY <2>5, ConcatEmptySeq
  <2>. QED
    BY <2>2, <2>3, <2>4, <2>6
<1>6. CASE LeaveLoop
  <2>1. mq' = <<>> /\ UNCHANGED <<queue, msg>> /\ jvm_shutting_down
    BY <1>6 DEF LeaveLoop, BoardInv
  <2>. DEFINE front == ((InJava \o batch) \o queue) \o Held
  <2>2. front \in Seq(Received) /\ mq \in Seq(Received) /\ Outstanding = front \o mq
    BY OutstandingParts DEF Outstanding
  <2>3. Outstanding' = front \o <<>>
    BY <1>1, <2>1 DEF Outstanding, Held
  <2>. HIDE DEF front
  <2>4. Outstanding' = front
    BY <2>2, <2>3, ConcatEmptySeq
  <2>5. CutOff
    BY <2>2, <2>4, Zenon DEF CutOff
  <2>. QED
    BY <2>1, <2>5
<1>. QED
  BY <1>2, <1>3, <1>4, <1>5, <1>6 DEF MainStep

\* The de-queue thread has only the front of what is outstanding.
LEMMA FrontStep ==
  TypeOK /\ Registers /\ UNCHANGED <<queue, Held, mq>> =>
    /\ (InJava \o batch)' = InJava \o batch => Outstanding' = Outstanding
    /\ \A m \in Received, f \in Seq(Received) :
         InJava \o batch = <<m>> \o f /\ (InJava \o batch)' = f => Popped(m)
<1>1. SUFFICES ASSUME TypeOK, Registers, UNCHANGED <<queue, Held, mq>>
               PROVE  /\ (InJava \o batch)' = InJava \o batch => Outstanding' = Outstanding
                      /\ \A m \in Received, f \in Seq(Received) :
                           InJava \o batch = <<m>> \o f /\ (InJava \o batch)' = f => Popped(m)
  OBVIOUS
<1>2. /\ Outstanding = (((InJava \o batch) \o queue) \o Held) \o mq
      /\ Outstanding' = (((InJava \o batch)' \o queue) \o Held) \o mq
  BY <1>1 DEF Outstanding
<1>3. queue \in Seq(Received) /\ Held \in Seq(Received) /\ mq \in Seq(Received)
  BY <1>1, OutstandingParts
<1>4. SUFFICES ASSUME NEW m \in Received, NEW f, f \in Seq(Received), InJava \o batch = <<m>> \o f,
                      (InJava \o batch)' = f
               PROVE  Popped(m)
  BY <1>2, Zenon
<1>5. <<m>> \in Seq(Received)
  OBVIOUS
<1>6. (((<<m>> \o f) \o queue) \o Held) \o mq = <<m>> \o (((f \o queue) \o Held) \o mq)
  <2>1. SplitsOff(<<m>>, f, queue, Held, mq)
    BY <1>3, <1>4, <1>5, SplitOff, Zenon
  <2>. QED
    BY <2>1, Zenon DEF SplitsOff
<1>. QED
  BY <1>2, <1>4, <1>6, Zenon DEF Popped

LEMMA DequeueOutstanding ==
  ASSUME TypeOK, Registers, DequeueStep
  PROVE  \/ Outstanding' = Outstanding /\ childProcesses' = childProcesses
         \/ HandleReport /\ Popped(handling)
         \/ HandleCommand /\ handling \notin Reports /\ Popped(handling)
         \/ DequeueDrop /\ Popped(Head(batch))
<1>1. UNCHANGED <<mq, msg>> /\ Held' = Held
  BY DEF DequeueStep, Round, DequeueHandle, DequeueDrop, HandleReport, HandleCommand, JavaReturns, CommandOpens,
     CommandClientGone, UseAfterScope, Crash, Held
<1>2. CASE UNCHANGED <<queue, batch, childProcesses>> /\ InJava' = InJava
  BY <1>1, <1>2 DEF Outstanding
<1>3. CASE Round(DequeueLock) \/ Round(DequeueTest) \/ Round(DequeueNotified) \/ Round(DequeueTimeout)
  <2>1. UNCHANGED <<queue, batch, childProcesses>> /\ dpc # "java" /\ dpc' # "java"
    BY <1>3 DEF Round, DequeueLock, DequeueTest, DequeueNotified, DequeueTimeout
  <2>. QED
    BY <1>2, <2>1 DEF InJava
<1>4. CASE CommandOpens \/ CommandClientGone \/ UseAfterScope
  <2>1. UNCHANGED <<queue, batch, childProcesses, dpc, handling>>
    BY <1>4 DEF CommandOpens, CommandClientGone, UseAfterScope, Crash
  <2>. QED
    BY <1>2, <2>1 DEF InJava
<1>5. CASE Round(DequeueTake)
  <2>1. dpc = "take" /\ batch = <<>> /\ InJava = <<>> /\ childProcesses' = childProcesses
    BY <1>5 DEF Round, DequeueTake, Registers, InJava
  <2>2. CASE BatchSize > 0
    <3>1. BatchSize \in 1..Len(queue) /\ queue \in Seq(Queued)
      BY <2>2, LenProperties DEF BatchSize, TypeOK
    <3>2. batch' = SubSeq(queue, 1, BatchSize) /\ queue' = SubSeq(queue, BatchSize + 1, Len(queue)) /\ dpc' = "handle"
      BY <1>5, <2>2 DEF Round, DequeueTake
    <3>3. batch' \in Seq(Queued) /\ batch' \o queue' = queue /\ InJava' = <<>>
      BY <3>1, <3>2, SplitFacts DEF InJava
    <3>4. (InJava \o batch) \o queue = queue
      BY <2>1, <3>1, ConcatEmptySeq, EmptySeq
    <3>5. InJava' \o batch' = batch'
      BY <3>3, ConcatEmptySeq
    <3>. QED
      BY <1>1, <2>1, <3>3, <3>4, <3>5 DEF Outstanding
  <2>3. CASE ~(BatchSize > 0)
    <3>1. UNCHANGED <<queue, batch>> /\ dpc' # "java"
      BY <1>5, <2>3 DEF Round, DequeueTake
    <3>. QED
      BY <1>2, <2>1, <3>1 DEF InJava
  <2>. QED
    BY <2>2, <2>3
<1>6. CASE DequeueHandle \/ DequeueDrop
  <2>. DEFINE h == Head(batch)
              rest == Tail(batch)
  <2>1. dpc = "handle" /\ batch # <<>> /\ batch' = rest /\ UNCHANGED <<queue, childProcesses>>
    BY <1>6 DEF DequeueHandle, DequeueDrop, Registers
  <2>2. h \in Queued /\ rest \in Seq(Queued) /\ <<h>> \o rest = batch /\ batch \in Seq(Queued)
    BY <2>1, SeqFacts, HeadFirst DEF TypeOK
  <2>3. h \in Received /\ rest \in Seq(Received) /\ batch \in Seq(Received)
    BY <2>2, MessageFacts, SeqMonotonic
  <2>4. InJava \o batch = batch
    BY <2>1, <2>3, ConcatEmptySeq DEF InJava
  <2>. HIDE DEF h, rest
  <2>5. CASE DequeueHandle
    <3>1. InJava' = <<h>>
      BY <2>5 DEF DequeueHandle, InJava, h
    <3>2. (InJava \o batch)' = batch
      BY <2>1, <2>2, <3>1
    <3>3. Outstanding' = Outstanding
      BY <1>1, <2>1, <2>3, <2>4, <3>2, FrontStep, Zenon
    <3>. QED
      BY <2>1, <3>3
  <2>6. CASE DequeueDrop
    <3>1. InJava' = <<>>
      BY <2>6 DEF DequeueDrop, AfterHandling, InJava
    <3>2. (InJava \o batch)' = rest
      BY <2>1, <2>3, <3>1, ConcatEmptySeq
    <3>3. InJava \o batch = <<h>> \o rest
      BY <2>2, <2>4
    <3>4. Popped(h)
      BY <1>1, <2>1, <2>3, <3>2, <3>3, FrontStep, Zenon
    <3>. QED
      BY <2>6, <3>4 DEF h
  <2>. QED
    BY <1>6, <2>5, <2>6
<1>7. CASE HandleReport \/ HandleCommand
  <2>1. dpc = "java" /\ dpc' # "java" /\ UNCHANGED <<queue, batch>>
    BY <1>7 DEF HandleReport, HandleCommand, JavaReturns, AfterHandling
  <2>2. handling \in Received /\ InJava = <<handling>> /\ InJava' = <<>> /\ batch \in Seq(Received)
    BY <2>1, OutstandingParts, MessageFacts DEF InJava, Registers
  <2>3. (InJava \o batch)' = batch
    BY <2>1, <2>2, ConcatEmptySeq
  <2>4. InJava \o batch = <<handling>> \o batch
    BY <2>2
  <2>5. Popped(handling)
    BY <1>1, <2>1, <2>2, <2>3, <2>4, FrontStep, Zenon
  <2>6. HandleCommand => handling \notin Reports
    BY DEF HandleCommand, Reports, IsReport
  <2>. QED
    BY <1>7, <2>5, <2>6
<1>. QED
  BY <1>3, <1>4, <1>5, <1>6, <1>7 DEF DequeueStep

Posted == Selected(Outstanding, Reports)

LEMMA OutstandingType == TypeOK /\ Registers => Outstanding \in Seq(Received)
BY OutstandingParts

LEMMA PostedType == TypeOK /\ Registers => Posted \in Seq(Reports)
<1>1. Received \cap Reports \subseteq Reports
  OBVIOUS
<1>2. Seq(Received \cap Reports) \subseteq Seq(Reports)
  BY <1>1, SeqMonotonic
<1>. QED
  BY <1>2, OutstandingParts, SelectedType DEF Posted

\* What a step does to the reports among the messages outstanding.
LEMMA PostedStep ==
  ASSUME TypeOK, Registers, TypeOK', Registers'
  PROVE  /\ \A m : Pushed(m) => Posted' = IF m \in Reports THEN Append(Posted, m) ELSE Posted
         /\ \A m : Popped(m) => Posted = IF m \in Reports THEN <<m>> \o Posted' ELSE Posted'
         /\ \A m : PassedOver(m) => Posted' = Posted
         /\ CutOff => \E n \in 0..Len(Posted) : Posted' = SubSeq(Posted, 1, n)
<1>1. Outstanding \in Seq(Received) /\ Outstanding' \in Seq(Received)
  <2>1. (TypeOK /\ Registers => Outstanding \in Seq(Received))'
    BY OutstandingType, PTL
  <2>. QED
    BY <2>1, OutstandingType
<1>2. Posted \in Seq(Reports) /\ Posted' \in Seq(Reports)
  <2>1. (TypeOK /\ Registers => Posted \in Seq(Reports))'
    BY PostedType, PTL
  <2>. QED
    BY <2>1, PostedType
<1>3. \A a, b \in Seq(Received) : Selected(a \o b, Reports) = Selected(a, Reports) \o Selected(b, Reports)
  BY TakenOfConcat, Zenon
<1>4. \A m : Selected(<<m>>, Reports) = IF m \in Reports THEN <<m>> ELSE <<>>
  BY SelectedOne, Zenon
<1>5. \A m \in Received : <<m>> \in Seq(Received)
  OBVIOUS
<1>6. ASSUME NEW m, Pushed(m)
      PROVE  Posted' = IF m \in Reports THEN Append(Posted, m) ELSE Posted
  <2>1. m \in Received /\ Outstanding' = Outstanding \o <<m>>
    <3>1. m \in Received /\ Outstanding' = Append(Outstanding, m)
      BY <1>6 DEF Pushed
    <3>2. Append(Outstanding, m) = Outstanding \o <<m>>
      BY <1>1, <3>1, AppendIsConcat, Zenon
    <3>. QED
      BY <3>1, <3>2, Zenon
  <2>2. Posted' = Posted \o Selected(<<m>>, Reports)
    BY <1>1, <1>3, <1>5, <2>1, Zenon DEF Posted
  <2>3. CASE m \in Reports
    <3>1. Posted' = Posted \o <<m>>
      BY <1>4, <2>2, <2>3, Zenon
    <3>. QED
      BY <1>2, <2>3, <3>1, AppendIsConcat
  <2>4. CASE m \notin Reports
    <3>1. Posted' = Posted \o <<>>
      BY <1>4, <2>2, <2>4, Zenon
    <3>. QED
      BY <1>2, <2>4, <3>1, ConcatEmptySeq
  <2>. QED
    BY <2>3, <2>4
<1>7. ASSUME NEW m, Popped(m)
      PROVE  Posted = IF m \in Reports THEN <<m>> \o Posted' ELSE Posted'
  <2>1. m \in Received /\ Outstanding = <<m>> \o Outstanding'
    BY <1>7 DEF Popped
  <2>2. Posted = Selected(<<m>>, Reports) \o Posted'
    BY <1>1, <1>3, <1>5, <2>1, Zenon DEF Posted
  <2>3. CASE m \in Reports
    BY <1>4, <2>2, <2>3, Zenon
  <2>4. CASE m \notin Reports
    <3>1. Posted = <<>> \o Posted'
      BY <1>4, <2>2, <2>4, Zenon
    <3>. QED
      BY <1>2, <2>4, <3>1, ConcatEmptySeq
  <2>. QED
    BY <2>3, <2>4
<1>8. ASSUME NEW m, PassedOver(m)
      PROVE  Posted' = Posted
  <2>1. PICK a, b : /\ a \in Seq(Received) /\ b \in Seq(Received)
                    /\ Outstanding = (a \o <<m>>) \o b /\ Outstanding' = a \o b
    BY <1>8, Zenon DEF PassedOver
  <2>2. m \in Received /\ m \notin Reports
    BY <1>8 DEF PassedOver
  <2>3. a \o <<m>> \in Seq(Received) /\ Selected(a, Reports) \in Seq(Received \cap Reports)
    BY <1>5, <2>1, <2>2, SelectedType, ConcatProperties
  <2>4. Selected(a \o <<m>>, Reports) = Selected(a, Reports) \o <<>>
    BY <1>3, <1>4, <1>5, <2>1, <2>2, Zenon
  <2>5. Selected(a \o <<m>>, Reports) = Selected(a, Reports)
    BY <2>3, <2>4, ConcatEmptySeq
  <2>6. Posted = Selected(a \o <<m>>, Reports) \o Selected(b, Reports)
    BY <1>3, <2>1, <2>3, Zenon DEF Posted
  <2>7. Posted' = Selected(a, Reports) \o Selected(b, Reports)
    BY <1>3, <2>1, Zenon DEF Posted
  <2>. QED
    BY <2>5, <2>6, <2>7, Zenon
<1>9. ASSUME CutOff
      PROVE  \E n \in 0..Len(Posted) : Posted' = SubSeq(Posted, 1, n)
  <2>1. PICK b : b \in Seq(Received) /\ Outstanding = Outstanding' \o b
    BY <1>9, Zenon DEF CutOff
  <2>2. Posted = Posted' \o Selected(b, Reports)
    BY <1>1, <1>3, <2>1, Zenon DEF Posted
  <2>3. Selected(b, Reports) \in Seq(Reports)
    <3>1. Selected(b, Reports) \in Seq(Received \cap Reports)
      BY <2>1, SelectedType
    <3>. QED
      BY <3>1, SeqMonotonic
  <2>4. Len(Posted') \in 0..Len(Posted) /\ Posted' = SubSeq(Posted, 1, Len(Posted'))
    BY <1>2, <2>2, <2>3, FirstOfConcat, Zenon
  <2>. QED
    BY <2>4
<1>. QED
  BY <1>6, <1>7, <1>8, <1>9

\* What is sent comes last, and no step that sends raises the flag.
LEMMA WorldOutstanding ==
  ASSUME TypeOK, Registers, WorldStep
  PROVE  /\ Outstanding' = Outstanding \/ \E m \in Received : Pushed(m)
         /\ Interrupt => Outstanding' = Outstanding
         /\ childProcesses' = childProcesses
<1>1. UNCHANGED <<queue, batch, msg, dpc, handling, childProcesses>>
  BY DEF WorldStep, LauncherReport, LauncherShutdown, Interrupt, ClientRequest, ClientLeaves, StatusAnswer
<1>2. InJava' = InJava /\ Held' = Held
  BY <1>1 DEF InJava, Held
<1>3. CASE mq' = mq
  BY <1>1, <1>2, <1>3 DEF Outstanding
<1>4. ASSUME NEW m, m \in Received, mq' = Append(mq, m)
      PROVE  Pushed(m)
  <2>. DEFINE front == ((InJava \o batch) \o queue) \o Held
  <2>1. front \in Seq(Received) /\ mq \in Seq(Received) /\ Outstanding = front \o mq
    BY OutstandingParts DEF Outstanding
  <2>2. Outstanding' = front \o Append(mq, m)
    BY <1>1, <1>2, <1>4 DEF Outstanding
  <2>. HIDE DEF front
  <2>3. front \o Append(mq, m) = Append(front \o mq, m)
    BY <1>4, <2>1
  <2>. QED
    BY <1>4, <2>1, <2>2, <2>3, Zenon DEF Pushed
<1>5. ASSUME NEW m \in Received, Send(m)
      PROVE  mq' = mq \/ mq' = Append(mq, m)
  BY <1>5 DEF Send
<1>6. ASSUME NEW k \in Kids, NEW c \in {"NOTIFY", "COMPLETION"}, LauncherReport(k, c)
      PROVE  \E m \in Received : Send(m)
  <2>1. Message(c, k) \in Received
    BY DEF Message, Received, Queued
  <2>. QED
    BY <1>6, <2>1 DEF LauncherReport
<1>7. ASSUME LauncherShutdown
      PROVE  \E m \in Received : Send(m)
  <2>1. Message("SHUTDOWN", None) \in Received
    BY DEF Received
  <2>. QED
    BY <1>7, <2>1 DEF LauncherShutdown
<1>8. ASSUME NEW c \in Clients, ClientRequest(c)
      PROVE  \E m \in Received : Send(m)
  <2>. DEFINE m == Message(IF c \in Enquirers THEN "STATUS" ELSE "COMMAND", c)
  <2>1. m \in Received
    BY DEF Message, Received, Queued, Clients
  <2>. QED
    BY <1>8, <2>1 DEF ClientRequest
<1>9. CASE Interrupt \/ (\E c \in Clients : ClientLeaves(c)) \/ \E c \in Enquirers : StatusAnswer(c)
  BY <1>1, <1>3, <1>9 DEF Interrupt, ClientLeaves, StatusAnswer
<1>10. ASSUME \E m \in Received : Send(m)
       PROVE  Outstanding' = Outstanding \/ \E m \in Received : Pushed(m)
  BY <1>3, <1>4, <1>5, <1>10
<1>11. Interrupt => Outstanding' = Outstanding
  <2>1. Interrupt => mq' = mq
    BY DEF Interrupt
  <2>. QED
    BY <1>1, <1>2, <2>1 DEF Outstanding
<1>. QED
  BY <1>1, <1>6, <1>7, <1>8, <1>9, <1>10, <1>11 DEF WorldStep

LEMMA BoardMaps ==
  ASSUME TypeOK, Registers, BoardInv, [Next]_vars, TypeOK', Registers'
  PROVE  [Board!Next]_Board!vars
<1>. USE DEF Board!vars, Board!Next
<1>1. Board!Report = Reports
  BY DEF Board!Report, Reports, Queued, IsReport
<1>2. Posted \in Seq(Reports) /\ Posted' \in Seq(Reports)
  <2>1. (TypeOK /\ Registers => Posted \in Seq(Reports))'
    BY PostedType, PTL
  <2>. QED
    BY <2>1, PostedType
<1>3. Outstanding' = Outstanding => Posted' = Posted
  BY DEF Posted
<1>4. ASSUME NEW m \in Reports, Posted = <<m>> \o Posted'
      PROVE  Posted # <<>> /\ Posted' = Tail(Posted) /\ m = Head(Posted)
  BY <1>2, <1>4, FrontOfConcat, Zenon
<1>5. CASE UNCHANGED vars
  <2>1. UNCHANGED <<childProcesses, jvm_shutting_down>> /\ Outstanding' = Outstanding
    BY <1>5 DEF vars, Outstanding, InJava, Held
  <2>. QED
    BY <1>3, <2>1 DEF Posted
<1>6. CASE MainStep
  <2>1. childProcesses' = childProcesses /\ (jvm_shutting_down' = jvm_shutting_down \/ jvm_shutting_down' = TRUE)
    BY <1>6 DEF MainStep, OpenQueue, ReceiveShutdown, ReceiveStatus, ReceiveOther, BeginEnqueue, EndEnqueue, SignalAll,
       InterruptMain, LeaveLoop, Exit
  <2>2. CASE Posted' = Posted
    BY <2>1, <2>2 DEF Board!Close, Posted
  <2>3. CASE jvm_shutting_down /\ CutOff
    <3>1. \E n \in 0..Len(Posted) : Posted' = SubSeq(Posted, 1, n)
      BY <2>3, PostedStep
    <3>2. jvm_shutting_down' = jvm_shutting_down
      BY <2>1, <2>3
    <3>. QED
      BY <2>1, <2>3, <3>1, <3>2 DEF Board!DropLast, Posted
  <2>. QED
    BY <1>3, <1>6, <2>2, <2>3, MainOutstanding, PostedStep
<1>7. CASE DequeueStep
  <2>1. jvm_shutting_down' = jvm_shutting_down
    BY <1>7 DEF DequeueStep, Round, DequeueHandle, DequeueDrop, HandleReport, HandleCommand, JavaReturns, CommandOpens,
       CommandClientGone, UseAfterScope, Crash
  <2>2. CASE Outstanding' = Outstanding /\ childProcesses' = childProcesses
    BY <1>3, <2>1, <2>2 DEF Posted
  <2>3. CASE HandleReport /\ Popped(handling)
    <3>1. handling \in Reports
      BY <2>3 DEF HandleReport, JavaReturns, Registers, Reports
    <3>2. Posted # <<>> /\ Posted' = Tail(Posted) /\ handling = Head(Posted)
      BY <1>4, <2>3, <3>1, PostedStep
    <3>3. childProcesses' = IF handling.cmd = "NOTIFY"
                            THEN childProcesses \cup {handling.pid}
                            ELSE childProcesses \ {handling.pid}
      BY <2>3 DEF HandleReport
    <3>. QED
      BY <2>1, <3>2, <3>3 DEF Board!Apply, Posted
  <2>4. CASE HandleCommand /\ handling \notin Reports /\ Popped(handling)
    <3>1. Posted' = Posted
      BY <2>4, PostedStep
    <3>2. childProcesses' = childProcesses
      BY <2>4 DEF HandleCommand
    <3>. QED
      BY <2>1, <3>1, <3>2 DEF Posted
  <2>5. CASE DequeueDrop /\ Popped(Head(batch))
    <3>1. jvm_shutting_down /\ childProcesses' = childProcesses
      BY <2>5 DEF DequeueDrop
    <3>2. CASE Head(batch) \in Reports
      <4>1. Posted # <<>> /\ Posted' = Tail(Posted)
        BY <1>4, <2>5, <3>2, PostedStep
      <4>. QED
        BY <2>1, <3>1, <4>1 DEF Board!DropFirst, Posted
    <3>3. CASE Head(batch) \notin Reports
      <4>1. Posted' = Posted
        BY <2>5, <3>3, PostedStep
      <4>. QED
        BY <2>1, <3>1, <4>1 DEF Posted
    <3>. QED
      BY <3>2, <3>3
  <2>. QED
    BY <1>7, <2>2, <2>3, <2>4, <2>5, DequeueOutstanding
<1>8. CASE JavaStep
  <2>1. UNCHANGED <<mq, queue, batch, msg, dpc, handling, jvm_shutting_down>>
    BY <1>8 DEF JavaStep, JavaMain, JavaMainDone, JavaMainThrows, AwaitSleep, AwaitWake, AwaitSpurious, AwaitReturns,
       DrainNext, DrainEnds
  <2>2. Outstanding' = Outstanding
    BY <2>1 DEF Outstanding, InJava, Held
  <2>3. childProcesses' = childProcesses \/ DrainNext
    BY <1>8 DEF JavaStep, JavaMain, JavaMainDone, JavaMainThrows, AwaitSleep, AwaitWake, AwaitSpurious, AwaitReturns,
       DrainEnds
  <2>4. CASE DrainNext
    <3>1. PICK k \in childProcesses : childProcesses' = childProcesses \ {k}
      BY <2>4 DEF DrainNext
    <3>2. jvm_shutting_down /\ k \in Kids
      BY <2>4, <3>1 DEF DrainNext, BoardInv, TypeOK
    <3>. QED
      BY <1>3, <2>1, <2>2, <3>1, <3>2 DEF Board!Strike, Posted
  <2>. QED
    BY <1>3, <2>1, <2>2, <2>3, <2>4 DEF Posted
<1>9. CASE WorldStep
  <2>1. childProcesses' = childProcesses
    BY <1>9, WorldOutstanding
  <2>2. CASE Interrupt
    <3>1. jvm_shutting_down' = TRUE
      BY <2>2 DEF Interrupt
    <3>2. Posted' = Posted
      BY <1>3, <1>9, <2>2, WorldOutstanding
    <3>. QED
      BY <2>1, <3>1, <3>2 DEF Board!Close, Posted
  <2>3. CASE ~Interrupt
    <3>1. jvm_shutting_down' = jvm_shutting_down
      BY <1>9, <2>3 DEF WorldStep, LauncherReport, LauncherShutdown, ClientRequest, ClientLeaves, StatusAnswer
    <3>2. CASE Posted' = Posted
      BY <2>1, <3>1, <3>2 DEF Posted
    <3>3. ASSUME NEW m, Pushed(m)
          PROVE  Posted' = Posted \/ (m \in Reports /\ Posted' = Append(Posted, m))
      BY <3>3, PostedStep
    <3>4. ASSUME NEW m \in Reports, Posted' = Append(Posted, m)
          PROVE  \E r \in Board!Report : Board!Post(r)
      BY <1>1, <2>1, <3>1, <3>4 DEF Board!Post, Posted
    <3>. QED
      BY <1>3, <1>9, <3>2, <3>3, <3>4, WorldOutstanding
  <2>. QED
    BY <2>2, <2>3
<1>. QED
  BY <1>5, <1>6, <1>7, <1>8, <1>9 DEF Next

(***************************************************************************)
(* The table of children follows the reports of the launcher: in the order *)
(* of their sending each is applied once, none is lost, repeated or        *)
(* overtaken on its way through the message queue, the work queue, the     *)
(* batch and the Java call, until the shutdown.                            *)
(***************************************************************************)
THEOREM TableFollowsReports == Spec => FollowsReports
<1>1. Init => Board!Init /\ BoardInv
  <2>. SUFFICES ASSUME Init PROVE Board!Init /\ BoardInv
    OBVIOUS
  <2>1. InJava = <<>> /\ batch = <<>> /\ queue = <<>> /\ Held = <<>> /\ mq = <<>>
    BY DEF Init, DQInit, InJava, Held
  <2>2. Outstanding = <<>>
    BY <2>1, ConcatEmptySeq, EmptySeq DEF Outstanding
  <2>3. Selected(Outstanding, Reports) = <<>>
    BY <2>2, SelectedEmpty, Zenon
  <2>4. BoardInv
    BY DEF Init, BoardInv
  <2>. QED
    BY <2>3, <2>4 DEF Init, Board!Init
<1>2. TypeOK /\ Registers /\ BoardInv /\ [Next]_vars => BoardInv'
  BY BoardInvStep
<1>3. TypeOK /\ Registers /\ BoardInv /\ [Next]_vars /\ (TypeOK /\ Registers)' => [Board!Next]_Board!vars
  BY BoardMaps
<1>. QED
  BY <1>1, <1>2, <1>3, TypeCorrect, PTL DEF Spec, FollowsReports, Board!Spec
=============================================================================
