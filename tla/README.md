# Spartan launcher: TLA+ models, checks and proofs

Spartan is a Linux framework for Java services.  A native launcher forks a
*supervisor* process, which runs the service's Java `main()` in a JVM of its
own, and then forks one *worker* process with a JVM of its own for every worker
sub-command that a client sends.  This directory holds TLA+ models of the parts
of the system that are concurrent, that survive crashes, or that take text and
files apart, the TLC configurations that check them on small instances, and
TLAPS proofs about most of them.

All source paths below are relative to `src/main/cpp/` (C++) and
`src/main/java/spartan/` (Java).  `PROJECT.json` gives, for every definition,
the lines of the source it stands for.

## 1. The system

### 1.1 Components

| Component | State it keeps | Operations | Modelled in |
|---|---|---|---|
| Launcher process (`spartan.cpp`, `supervisor()` with `is_launcher_process`) | its message queue, `dispatch_msg_queue` and `qready` under the timed mutex `qm`, `child_process_count`, `prcs_grps`, `flag`, `shutting_down` | receive loop, de-queue thread and `handle_launcher_msg` (fork, `setpgid`, start report), waitid thread (slot, completion report), cleanup | `Launcher`, `DispatchQueue` |
| Supervisor process, native side (`spartan.cpp`, same function after the fork) | its message queue, its own copy of the work queue and count, `jvm_shutting_down` | receive loop with `--SHUTDOWN` and `--STATUS`, de-queue thread and `handle_supervisor_msg`, SIGINT handler, end of the process | `Supervisor`, `DispatchQueue` |
| Supervisor process, Java side (`SpartanBase.java`, `Spartan.java`) | `_childProcesses`, `_service_condition`, the context of the main thread | `main`, `enterSupervisorMode`, `supervisorShutdown`, child notifications, `drainKillProcessGroup` | `Supervisor`, `StatusBoard` |
| Client commands (`spartan.cpp`, `forkable_main_entry`) | none | send STOP, STATUS or a command line to one of the two queues, then echo the response | `Launcher` and `Supervisor` (as messages), `Services` (choice of queue), `ResponseStreams` (socket and streams), `ArgumentText` (text of the arguments) |
| Launching from Java (`launch-program.cpp`, `open-anon-pipes.cpp`, `fifo-pipe.cpp`, `LaunchProgram.java`) | a datagram socket and pipes per invocation, `termination_flag`, the pid file | `invokeCommand`, `invokeCommandEx`, `fork2main`, passing of pipe descriptors, kill helpers, `isFirstInstance` | `ResponseStreams` (without the kill helpers and `isFirstInstance`) |
| Echoing of response streams (`echo-streams.cpp`, `read-on-ready.cpp`, `read-multi-strm.cpp`, `stream-ctx.cpp`, `signal-handling.cpp`) | poll set, one context per stream with its asynchronous writer | poll, read, hand to the writer, remove at end of stream, Ctrl-C and Ctrl-Z | `EchoStreams` (without Ctrl-C and Ctrl-Z) |
| Session state (`session-state.cpp`, `shm.cpp`, `process-cmd-dispatch-info.cpp`, `CommandDispatchInfo.java`) | the tables of sub-commands found by the annotation scan | scan, publish in shared memory, read back in every process | `CommandTables`, `Services`, `SessionText` |
| `util/io/ReadLine.java` | a buffer and read positions | `readLine` over a stream that may be interrupted | `ReadLine` |
| Configuration and JVM creation (`createjvm.cpp`, `findfiles.cpp`) | options on their way to the JVM | consolidation of options, search for `libjvm.so` | `JvmOptions`, `FileTree` |
| Files (`walk-file-tree.cpp`, `util/io/Files.java`) | the directories that are open | walk of a tree with a visitor that may end it | `FileTree` |
| `fstreams/Flow.java`, `util/EnumAsStream.java`, string helpers, logging, examples | - | - | not modelled, see section 7 |

### 1.2 Interaction

    clients --(mq)--> launcher main --dispatch_msg_queue--> de-queue thread --fork--> workers
                          |                                      |                      |
                          | --SHUTDOWN (cleanup)                 | NOTIFY               | exit / stop
                          v                                      v                      v
                     supervisor's mq <---- COMPLETION ---- waitid thread  <----------- kernel
                          |
    clients --(mq)--------+
                          v
              supervisor main --dispatch_msg_queue--> de-queue thread --JNI--> _childProcesses
                   |  |                                                              |
            STATUS |  | SHUTDOWN: signalAll(), interrupt                             |
                   v  v                                                              v
            status thread   Java main thread: await(), then drainKillProcessGroup() --SIGINT--> workers

Both processes run the same code for the receive loop and the work queue; that
shared part is the module `DispatchQueue`.

### 1.3 What is hard in it

* Three threads in each process share a count that is changed with and without
  the lock; the wait of the de-queue thread ends by predicate, notification or
  after two seconds, and it goes on with a headroom computed earlier.
* Two loops collect children with `waitid(P_ALL)` while the launcher shuts
  down, and a count decides when one of them ends.
* Start and completion of a worker are reported by different threads.
* `mq_send()` blocks while a queue of ten is full, and drops the message while
  the queue does not exist.
* `--SHUTDOWN` is handled by the supervisor's receive loop and overtakes what
  is on the work queue; the Java main thread has to be woken although
  `signalAll()` may give up.
* The work queue and its lock are locals of `supervisor()` that a detached
  thread goes on using after the function has returned.
* The client polls up to three streams and waits for one writer thread per ready
  stream; the end of one stream removes all, and a writer may block on the
  end-point while the end-point blocks on the client.
* A requester, a child it forks to send its command, and whoever executes the
  command pass descriptors through sockets whose names threads draw at random
  and without a lock; every child inherits what the supervisor has open, so that
  an end of stream depends on copies nobody asked for.
* A service is found by the name of the program only.  Queues and shared memory
  of a service that crashed are still there when the next one starts, are taken
  for orphans, or for one's own; a second service of the same name may be
  running; the shared memory is rewritten in place while clients read it.
* Lines, options and directories are taken apart in pieces: an end-of-line in
  two fillings of a buffer, gaps in a list that is compacted in place, a walk
  that is ended deep in the tree.
* fork fails, the supervisor crashes, children are stopped and continued,
  clients go away, SIGINT comes at any time.

`PROJECT.json` lists each of these hazards at the line where it bites, with the
property that is about it, or why none is.

## 2. Modules

### `DispatchQueue`
`dispatch_msg_queue`, `qready`, `qm`, `qcv` and `child_process_count` with the
operations both processes share.  The critical section of
`en_queue_dispatch_msg` is two steps (`LockForEnqueue`, `Enqueue`) so that the
lock is really held in between; a round of the de-queue thread is
`DequeueLock`, `DequeueTest` (the wait predicate), `DequeueNotified` or
`DequeueTimeout` (the two ways to wake up) and `DequeueTake`.  After a time-out
the predicate is evaluated once more (`dpc = "lasttest"`) and the thread goes on
whatever it says, as `wait_for` does.  `Completion` is
`child_process_completion`, with the branch for a `try_lock` that fails.

### `Launcher`
The launcher process.  `mpc`, `dpc` and `rpc` are where its three threads are;
`proc[p]` follows a job from the message of its client to the process forked
for it and to the end of that process (`ProcStates`); `pgrp` and `prcs_grps`
are the process groups the kernel has and those the launcher has recorded.
Each action is one stretch of a thread between two points where another thread
can interfere; its comment names the function.  The children, the clients and
the supervisor appear as the launcher sees them (`WorldStep`,
`SupervisorStep`).

### `WorkerPool`
What the launcher promises its clients: accepted commands are started in the
order of acceptance, at most once, and never more processes than the limit.
`Launcher` implements it under the mapping `Pool` (accepted jobs; jobs waiting
= batch, then work queue, then the message the main thread holds; running =
children the kernel still knows).

### `Supervisor`
The supervisor process with its Java side.  `mpc` and `dpc` are the native main
thread and the de-queue thread, `jpc` the Java main thread.  `jpc = "await"` means
that it holds `_lock`, `"waiting"` that it sleeps and has given the lock up;
`SignalAll` therefore does nothing in state `"await"` (`tryLock()` fails), and
`InterruptMain` is the interrupt that follows.  A report occupies the de-queue
thread from `DequeueHandle` to `HandleReport`, a command from `DequeueHandle`
through `CommandOpens` to `HandleCommand`, which need never come.
`all_pids` is the snapshot the drain works on.  `snapshot`, a copy of it that
nothing strikes off, is a history variable for the properties.

### `StatusBoard`
What the table of children promises: reports are posted in one sequence and
applied in that sequence, each once and none left out, until the supervisor
begins to shut down; from then on reports may be dropped and entries struck off.
`Supervisor` implements it under the mapping `Board` (posted = the reports in
the Java call, the batch, the work queue, the main thread's hand and the message
queue, in that order).

### `EchoStreams`
The client while it echoes a response.  `pc` is the loop `multi_read_on_ready`,
`wpc[s]` the writer of stream `s`, which runs on a thread of its own: it reads
(`HangupRead`, `EchoRead`), writes (`WriteChunk`, `WriteFails`) and returns a
result (`HangupEnd`, `EchoReturns`); `Collect` is the loop over the futures.
`fd_map` are the streams still registered, `pipe[s]` what waits in each.  The
end-point, the user at the terminal and the signals are `World`; `childin` is
the end-point's input pipe, on which the writer of stdin may block.  `due` counts
what was written into a stream and not passed on; what went before is not counted,
so that streams may be endless.

### `ResponseStreams`
How a request gets the streams of its response.  `pc[r]` is the requester, a
client process or a thread of the supervisor's Java code; `sender[r]` the child
that such a thread forks to post its message; `st[r]` the execution, from the
message in the queue to the end of the method.  `inbox[r]` holds the datagrams at
the requester's socket, `fds` what the kernel knows: the descriptors of every
process, which a fork copies (`Fork`).  `wish` fixes what each request is:
kind, target and whether it has three streams.  Each failure path is an action
(`SendFails`, `SenderInterrupted`, `Drop`, `SupervisorAborts`, ...), and the descriptors
it closes, or does not, are part of it.  The executor fails to hand the streams over
because the requester's socket has gone (`failed`), or because the system refuses it
a socket, a pipe or a datagram (`refused`); requesters may be refused a socket
(`NoSocket`) or the numbers for the descriptors they are sent (`ReceiveFails`).

### `CommandTables` and `Services`
`CommandTables` has no variables: the scan of annotated methods into tables, the
settings and their defaults, what becomes of both in the published session, and
the look-ups by which clients choose a queue and processes find a method.
`Services` runs several services of one name after and beside each other.
`proc[s][k]` is where the launcher or the supervisor of service `s` is between
its start and its end or crash; `named[k]` the service to whose queue a name
leads, `mq` the messages in each queue also when no name leads to it any more,
`shm` the shared memory.  Opening a queue takes the three steps of the code
(`QueueExists`, `TryAgain`, `OpenQueue`), writing the shared memory two
(`Truncate`, `Fill`), since another service or a client may come in between.
`met` (the services that ran at the start of another) is a history variable:
properties are conditional on `Overlap`, which the code leaves to the user.

### `ReadLine`, `FileTree`, `JvmOptions`, `SessionText`, `ArgumentText`
Sequential parts, each against a reference written independently of the code.
`ReadLine` keeps the `CharBuffer` with position, limit and the stale characters
behind the limit; the reader delivers any piece, or fails.  `FileTree` has the
recursion of `walk_file_tree` as a stack of open directories, and the visitor
answers anything.  `JvmOptions` has the addition of the library
path, the loop with two indices that closes the gaps in `argv`, and the sorting of
what is left; an option is its prefix, what the code takes it for, and its value.
`SessionText` writes the session as a sequence of characters, a number being one,
and reads it back with a stream that has a buffer, a state and the values read so
far; `getline` and `>>` are external.  `ArgumentText` takes the `-pipe=` option out of
the arguments (`Filtered`), puts them between quotes and has popt's parser, external, as
the code uses it, one character after the other.

### `Selection`
The elements of a sequence that belong to a set, in their order: the reports among
the messages underway (`Supervisor`), the user's methods of a table and the hits of
a look-up (`CommandTables`), the arguments that are not empty (`ArgumentText`).  It is a recursive function of the length of a prefix,
so that what is true of it can be proved.

### `SequenceFacts` and the modules `...Proofs`
Lemmas about sequences and numbers, and the theorems about `Launcher`,
`Supervisor`, `EchoStreams`, `ResponseStreams` and `Services`; those about
`FileTree` and `ReadLine` are in `UtilitiesProofs`, those about `JvmOptions`,
`SessionText` and `ArgumentText` in `TextProofs`; see section 5.

### `MCLauncher`, `MCSupervisor`, `MCEchoStreams`, `MCResponseStreams`, `MCServices`, `MCUtilities`
Model values, the sub-command of each job, the symmetry of the workers, the
pairs of requests, the settings and class paths, the texts, trees, options and
invocations.  `MCUtilities` puts the five sequential modules side by
side: they share nothing, a behaviour is one of one of them.

## 3. Runs

| Run | Instance | Checks | Shows |
|---|---|---|---|
| `launcher` | 2 jobs, limit 2, queues of 2; fork may fail, the supervisor may crash, STOP and SIGINT at any time (471 thousand states) | `TypeOK`, `SlotsAccounted`, `ProcessLimit`, `CleanupWaitsForAll`, `ImplementsPool` | the slot count is exact although three threads change it, the limit holds, the cleanup collects every child, commands are started in order and once |
| `launcher_service` | 2 jobs of different sub-commands, children may be stopped and continued, the service is not told to stop (163 thousand) | `NoSlotLost`, `GroupsApart`, `JobsGetStarted` | no wake-up is lost for good, and the sub-commands never share a group |
| `launcher_quit` | 2 jobs, STOP and SIGINT, forks that fail (87 thousand) | `StopCompletes` | told to stop once the supervisor listens, the launcher ends |
| `supervisor` | 2 workers (interchangeable), 1 command, SIGINT, crashes (1.6 million) | `HeadroomRestored`, `DrainReachesAll`, `FollowsReports` | the table follows the reports, slots come back, the drain reaches the whole table |
| `supervisor_live` | 1 worker, 1 command that may never return and whose client may leave, 1 STATUS (455 thousand) | `TypeOK`, `ShutdownCompletes`, `StatusAnswered` | status and shutdown get past a command that hangs, and the Java main thread is always woken |
| `echo` | 3 streams, each of any length, pipes of 1; SIGTERM, outputs that fail, a shared terminal (213 thousand) | `TypeOK`, `SuccessMeansEnd`, `EchoEnds`, `ResponseFlows` | the client ends once the end-point has gone, goes on reading what it writes but for two cases, and does not report success without having got to an end |
| `handshake` | 2 requests in the seven pairs that meet in different ways (two threads, thread and de-queue thread, two on the de-queue thread, worker and supervisor, ...), 2 random numbers; sockets, pipes and datagrams may be refused (35 thousand) | `OwnAnswer`, `EndMeansOver`, `AbortHasCause`, `NothingLeaks`, `StreamsInv`, `Answered`, `StreamEnds` | every request gets its own streams or fails, ends are ends and are seen, the supervisor leaks nothing |
| `services` | 1 service under 5 settings and every order of the class path, 2 commands and the standard calls; or 2 services that may overlap and crash, 1 command (2 million) | `UsersFirst`, `InWorkers`, `FreshCommands`, `OwnTables`, `Reachable`, `Restartable`, `ObjectOfMain`, `NothingLeft` | what a crash leaves behind neither blocks the next service nor is executed by it; commands go where the annotations say |
| `utilities` | texts of up to 4 characters and buffers of 1 to 3; 3 trees walked by both users; up to 2 overriding and 3 configured options of 9, with prefixes in common; sessions with empty and odd fields; commands with up to one argument of 2 characters, `-pipe=` being one in either spelling (686 thousand) | `LinesOfText`, `LeftInOrder`, `NothingForgotten`, `OverridesWin`, `SessionComesThrough`, `ArgumentsArrive` | the sequential parts compute what their references say |
| `launcher_early_stop` | 1 job | `StopAlwaysCompletes` is violated | see section 6 |
| `launcher_told` | 1 job, children may be stopped | `ToldOnceTerminated` is violated | see section 6 |
| `echo_lost` | 3 streams | `OutputReachesInvoker` is violated | see section 6 |

Every passing property has a mutant in `PROJECT.json`: a variant of one
definition, kept in the module beside the right one and marked `Variant`, for
which TLC finds the property violated.

**Bounds.**  `Jobs`, `Kids`, `Commanders`, `Enquirers`: how many of each there
are; a client sends one message.  `MaxCount` stands for `ChildProcessMaxCount`
(the supervisor's process takes one slot, so a limit of 2 leaves one for workers
and makes the second job wait).  `MqMax`
stands for the ten messages of a queue: with 1 or 2 the queues fill up and
senders block.  One STOP is in the queue at a time, a child is stopped once.
Two jobs are enough for a batch that is cut short by the headroom, for a message
that arrives during a take, and for the reaper and the cleanup each to collect
one child; in `launcher_service` a stopped child gives its slot back, so that two
workers of different sub-commands live at a time.  Two workers
are needed for a drain of more than one round.  What the bounds leave open for
the launcher's safety properties is closed by the proofs.

`PipeCap`: with room for one chunk in the end-point's pipe, a writer of stdin gets
stuck with the next in its hand, and a stream that is refilled as soon as it is read
keeps its writer for ever: the two hard cases of `ResponseFlows`.  A chunk is what
one `read()` returns.  How many chunks a stream carries has no bound.

`Rnd`: with 2 of the 99 numbers two threads may draw the same name, and the
invocation of the second fails.  Two requests are enough for one's sender to hold the other's
descriptors.  `N = 2`: of two services the later finds what the earlier left, or
meets it; `MayCrash` lets the launcher, the supervisor or both crash at any
place, but the last service does not crash, so that there is somebody to whom
the properties apply.  A client sends one command.  The proofs are for every
number of requests and services.  A buffer of 1 to 3 characters makes a text of 4
cross every boundary: an end-of-line of two characters in two fillings, a line
longer than the buffer, a buffer doubled twice.  Three levels of directories are
enough for `TERMINATE` and `SKIP_SIBLINGS` with ancestors and siblings that must,
or must not, notice.

**Deadlock** is not checked anywhere, since everything modelled may stop: clients
of dropped messages wait for ever, services and the sequential parts end.  In
`Launcher` and `Supervisor` both processes come to an end (`mpc = "gone"`), and
in the launcher's and the supervisor's crash states nothing moves.  That they
end when they should is what `StopCompletes` and `ShutdownCompletes` say.

**Fairness.**  Every thread runs on (WF on its steps).  The timed mutex is
taken in loops by tries of three and five seconds, and held for a few statements
at a time, while the de-queue thread sleeps without it in between; so a thread
that keeps trying gets it (SF on the lock steps).  The de-queue thread's wait
times out after two seconds (SF on `DequeueTimeout`).  `mq_send()` to a full
queue succeeds if the reader keeps making room (SF on `DequeueNotify`,
`ReaperNotify`, `CleanupShutdown`).  Nothing is assumed of clients, signals,
crashes, failing forks, or of a supervisor command, which may hang; in
`launcher_quit` workers are assumed to end, because the launcher waits for them,
and the client's loop and its writers run on, whoever they wait for (`EchoStreams`).  In `ResponseStreams` threads and
senders run on, and nothing is assumed of how long a method runs or of a
client's patience.  `Services` and the sequential parts are checked for safety
only;
`JobsGetStarted` is conditional on slots coming free and on a supervisor
that is not stopped for good.  The user's `main()` is assumed to return, to
throw or to call `enterSupervisorMode()`.

## 4. Properties worth reading

* `SlotsAccounted`: `child_process_count` is exactly the processes that hold a
  slot plus the messages taken and not forked yet.  Taking adds under the lock,
  the reaper and the cleanup subtract without it, fork adds nothing; a failed
  fork keeps its slot for good, which the formula states openly.
* `ProcessLimit`: the headroom is stale when used, but every change in between
  is downwards.
* `CleanupWaitsForAll`: the cleanup ends its loop by `child_process_count-- <= 0`,
  a count the reaper decrements at the same time.
* `JobsGetStarted`: a slot freed in a full pool is announced to nobody, and
  `qready` is cleared by takes that leave messages behind; only the two-second
  time-out brings the work on.
* `FollowsReports`: the order of reports survives four queues and three
  threads.  It is the order in which they were *sent*; the launcher may send
  them in the wrong order (section 6).
* `ShutdownCompletes`: `signalAll()` gives up when the Java main thread happens
  to hold the lock, so everything hangs on the interrupt after it.
* `ResponseFlows`: one thread waits for three writers; the condition names the
  two cases in which an unread response may wait: the end-point does not read its
  own input, or another stream is fed without a pause (section 6).
* `EchoEnds`: ends of streams are seen whatever the writers are doing, also when
  one is blocked on a pipe nobody reads any more (SIGPIPE is ignored, the write
  fails).
* `DrainReachesAll`: the drain strikes children off a concurrent map that
  reports still change.
* `OwnAnswer`: a name may be drawn twice, and a socket outlives its owner in a
  sender forked meanwhile; still no datagram reaches a stranger.
* `StreamEnds`: copies of a write end in other children delay the end of the
  stream, but only until these have done what they do anyway.
* `AbortHasCause`: only commands on the de-queue thread end the supervisor, by a
  client that left or a socket, pipe or datagram that was refused; what goes wrong
  with workers, status requests and invocations stays with them.
* `Restartable`, `Reachable`: the first try to open a queue unlinks what is there
  twice over, and with two tries there is one left; a loop of one try, or an
  unlink by a worker that exits, would break a restart or a running service.
* `OwnTables`: if the scan of a restarted service fails it goes on with the
  tables of the service that crashed, and with no other.
* `FreshCommands`: a queue that is found is unlinked, never read, so that no
  command a crash left behind is executed twice or late.
* `UsersFirst`: jar files come in the order of the class path, and the library's
  test entries of a role are dropped entry by entry as the user's of that role
  come.  Across the roles they may still be in the way (section 6).
* `OverridesWin`: of the options with one prefix the first is left, in its place,
  whatever gaps the others leave; a second option of one list that has the same
  prefix is lost with them, which the property states openly (section 6).
* `ArgumentsArrive`: the `-pipe=` option taken out must be the one that was added,
  and not an argument.
* `LeftInOrder`, `NothingForgotten`: `TERMINATE` and `SKIP_SIBLINGS` travel through
  the same return values and must end different things.
* `LinesOfText`: all state of the reader is positions that compaction shifts.

## 5. Proofs

### 5.1 Launcher

`LauncherProofs` proves, for every finite set of jobs, every set of
sub-commands, every `MaxCount` and `MqMax`:

| Theorem | Statement |
|---|---|
| `TypeCorrect` | `Spec => [](TypeOK /\ Registers)` |
| `GroupsStayApart` | `Spec => []GroupsApart` |
| `SlotsAreNotLost` | `Spec => []NoSlotLost` |
| `SlotsAreAccounted` | `~ChildMayStop => (Spec => []SlotsAccounted)` |
| `LimitIsKept` | `~ChildMayStop => (Spec => []ProcessLimit)` |
| `CleanupCollectsAll` | `~ChildMayStop => (Spec => CleanupWaitsForAll)` |
| `LauncherIsAPool` | `~ChildMayStop => (Spec => ImplementsPool)` |

The constants are as in `LauncherAssumption` and `MaxCountAssumption`.
`~ChildMayStop` is a real precondition, not a convenience: a child stopped by a
signal gives its slot back twice (section 6), and with it the exact count, the
limit and the order of the pool fail.  `NoSlotLost` and `GroupsApart` need no
such assumption.

The argument.  None of the properties is inductive alone.  The inductive
invariant is `LauncherInv` (end of `Launcher.tla`), a conjunction of

* `TypeOK`, and `Registers`: a thread that has got to the use of a local has
  set it (the main thread its message, the de-queue thread a non-empty batch or
  the worker it has forked).  Without it the types of `proc'` and `pgrp'` are
  not preserved.
* `MessagesOnce`: a job is in one place of message queue, main thread's hand,
  work queue and batch only, and `proc` says which.  Without it a fork could
  count a process twice, and the order of the pool would be lost.
* `HeadroomSafe`: `count <= MaxCount`, and between test and take the headroom
  is at most `MaxCount - count`.  Without it a take could go over the limit.
* `CollectedOnce`: what the reaper and the cleanup have collected and not yet
  accounted for are two different processes.  Without it the same child could be
  counted down twice.
* `SlotsAccounted` itself, from which `ProcessLimit` follows because children
  hold slots.
* `GroupOfCommand`: a worker's group, and the recorded group of a sub-command,
  were started by a worker of the same sub-command.

`GroupsStayApart` and `SlotsAreNotLost` need only the conjuncts that survive
stopped children, and are proved from those.  Type correctness has one lemma per
thread with one case per action; for the slots the actions are sorted by what
they do to the count (`SlotsUnchanged`, `SlotsTaken`, `SlotsForked`,
`SlotsFreed`), for the order of jobs by what they do to the pending sequence
(`PendingReceive`, `PendingEnqueue`, `PendingTake`, `PendingFork`,
`PendingUnchanged`).  The lemmas about sequences (`SeqFacts`, `SplitFacts`, ...) are
in `SequenceFacts` and are cited by name.  The
refinement maps `Receive` to `Accept`, `DequeueFork` to `Start`,
`DequeueForkFails` to `GiveUp`, `ReaperWait` and `CleanupWait` to `End`, and the
rest to stuttering.

### 5.2 Supervisor

`SupervisorProofs`, for every set of children and clients, every limit on
messages and size of the queue (`SupervisorAssumption`):

| Theorem | Statement |
|---|---|
| `TypeCorrect` | `Spec => [](TypeOK /\ Registers)` |
| `SlotsComeBack` | `Spec => []HeadroomRestored` |
| `DrainInvariant` | `Spec => []DrainInv` |
| `DrainReachesEveryChild` | `Spec => []DrainReachesAll` |
| `TableFollowsReports` | `Spec => FollowsReports` |

`DrainInv` adds to the types: `OnePlace`, the report about a child is in one of
Java call, batch, work queue, main thread's hand and message queue only (else a
child struck off by the drain could be put on the table again by a second
notice); `ToldOnce`, what is pending has been sent by the launcher and the notice
of a child that is or was on the table is not pending; `Found`, a child of the
snapshot is still on the table and known to the drain, or was signalled or
reported as completed.

`TableFollowsReports` is a refinement: `posted` of `StatusBoard` is what `Selected`
keeps of everything underway between the launcher and Java (batch, work queue, main
thread's hand and message queue put together), `table` is the table.  A report moves
from one of these to the next; that the whole does not change is `TakenOfConcat`
(what is selected from two sequences put together), applied to the one place where
the step cuts.  Its invariant `BoardInv` says that the main thread holds a message
only between taking it and pushing it, and that all that wakes Java or comes after
the signal happens only once `jvm_shutting_down` is set.  A step is then a delivery of the first report, a report more, the loss of all of them,
or a stutter.

### 5.3 Echo

`EchoStreamsProofs`, for one and three streams of any length, endless ones too, pipes
of any size, with and without signals, failing outputs and other readers of the terminal
(`EchoAssumption`):

| Theorem | Statement |
|---|---|
| `EchoInvariant` | `Spec => []EchoInv` |
| `TypeCorrect` | `Spec => []TypeOK` |
| `SuccessIsEnd` | `Spec => []SuccessMeansEnd` |

`SuccessMeansEnd` says nothing of the writers, through which everything goes:
`EchoInv` accounts for each chunk (not passed on = in the pipe + in a writer's hand +
lost, `NothingLost`), ties the loss of a chunk to the last round
(`Rounds`), and says that writers see an end only of streams nobody writes to
(`EndsAreEnds`).

### 5.4 Handshake

`ResponseStreamsProofs`, for every finite set of requests of every kind and every
set of random numbers (`StreamsAssumption`):

| Theorem | Statement |
|---|---|
| `StreamsInvariant` | `Spec => []StreamsInv` |
| `TypeCorrect` | `Spec => []TypeOK` |
| `AnswersAreOwn` | `Spec => []OwnAnswer` |
| `EndIsOver` | `Spec => []EndMeansOver` |
| `AbortsAreCaused` | `Spec => []AbortHasCause` |
| `NothingIsLeaked` | `Spec => []NothingLeaks` |

`StreamsInv` (end of `ResponseStreams.tla`) is checked by the run as well.
`Phases` says how far requester, sender and execution can be from each other;
`Sockets` that a name in use leads to one socket; `Exchange` that what is at the
socket is what the requester has still to receive and the execution has already
sent; `WriteEndHeld` that whoever executes holds the write end; `Accounted` and
`OfRequests` what each descriptor of the supervisor is there for.

### 5.5 Services

`ServicesProofs`, for every number of services, every set of clients, methods,
settings and orders of the class path, and crashes of either process
(`ServicesAssumption`, `SharedAssumption`):

| Theorem | Statement |
|---|---|
| `ServicesInvariant` | `Spec => []ServicesInv` |
| `CommandsAreFresh` | `Spec => []FreshCommands` |
| `TablesAreOwn` | `Spec => []OwnTables` |
| `NamesReach` | `Spec => []Reachable` |
| `AlwaysRestartable` | `Spec => []Restartable` |
| `NothingIsLeft` | `Spec => []NothingLeft` |

The argument.  `OneRuns`: a service that has met no other is the only one that
runs, so that what it does to names and shared memory is not disturbed; steps of
others are then impossible, which is most of the proof.  `NamesServed`: a name
leads to a service that serves it or has crashed.  `SecondTry`: after the first
failed try the name leads nowhere, so the second succeeds; the counts before
the first try are needed to start with.  `ShmOfPublisher` and `TablesRead`: the
shared memory is of a service that published and has not ended in order, and
what a lone service has written it reads back.  `MessagesSent`: messages are in
the queue of the service they were sent to.  `Unstarted`: services are started
in the order of their numbers.

About the tables, in the same module and under the same assumptions
(`ServicesAssumption` has the set of methods finite, as every class path is):

| Theorem | Statement |
|---|---|
| `TablesInvariant` | `Spec => []TablesInv` |
| `UsersComeFirst` | `Spec => []UsersFirst` |
| `WorkersCommandsInWorkers` | `Spec => []InWorkers` |
| `ObjectIsOfMain` | `Spec => []ObjectOfMain` |

The argument has two halves.  About the data: after every method of the scan the
tables of both kinds are the user's methods followed by the library's
(`UsersInFront`, for each of the two roles), and no user's method scanned so far is missing (`ScanFacts`, by
induction over the class path; an order of a finite class path has every method,
`OrderFacts`).  A look-up therefore finds the user's before the library's
(`LookUpUsers`).  About the states: whatever can be read from shared memory is the
session of the case or zeroes (`Contents`), a command is in the queue that its
client chose by such a session (`Routed`), what was executed is what the full
session says (`Executed`), and the object is of a class that the session of its
service names (`Objects`; a session is read once, before any method is called).

### 5.6 Files and lines

`UtilitiesProofs`, for every set of trees (what is a directory can be listed,
`WalksAssumption`), every depth and visitor; and for every set of texts, whatever
their characters, and every initial size of the buffer (`ReadAssumption`):

| Theorem | Statement |
|---|---|
| `WalkInvariant` | `WalkSpec => []WalkInv` |
| `DirectoriesLeftInOrder` | `WalkSpec => []LeftInOrder` |
| `NoEntryForgotten` | `WalkSpec => []NothingForgotten` |
| `ReadInvariant` | `ReadSpec => []ReadInv` |
| `LinesRead` | `ReadSpec => []LinesOfText` |

The walk.  The open directories lie within each other (`ChainInv`), and everything
told since one of them was entered is of what is in it (`EnteredInv`); leaving one
therefore closes a bracket in the sequence of call-backs (`LeftInv`).  Of every entry
of a directory that was listed the visitor has been told, or it is passed over, or it
is still to come in an open directory (`CoveredInv`); at the end nothing is open.
A tree may have cycles by links; nothing is assumed of its size.

The reader.  What has been read and no line has taken is in the buffer from
`nextStartPos` to its limit (`WindowInv`); that compaction and doubling, which work
on positions, keep it so is `RoomFacts`, that a filling continues it `Refilled`.  The
match is the first end of line in the window (`MatchInv`).  The lines returned so far
are those of the text up to the window, and the window begins a line (`LinesInv`), so
that a carriage return just before the window is never part of its end of line.  With
`PartedSteady` (characters that end no line change nothing) and `SplitFollows` (the
lines of a beginning of the text are the first lines of the text) the property follows.

### 5.7 Options, session and arguments

`TextProofs`:

| Theorem | Statement |
|---|---|
| `OptionsConsolidated` | `OptionsSpec => []OptionsInvariant` |
| `AnnotationWins` | `OptionsSpec => []OverridesWin` |
| `SessionRead` | `TextSpec => []SessionComesThrough` |
| `ArgumentsAsSent` | `ArgumentsSpec => []ArgumentsArrive` |

For which constants.  The options: every two lists over any prefixes and values
(`OptionsAssumption`; only `-Djava.class.path` and `-Duser.dir` are bound to what
they mean, as the code compares their text).  The session: every alphabet with a
line feed and a return, every session with seven entry points whose names hold no
line feed and whose properties hold no return, tables and texts of any length;
what the digits of a number are read as is that number (`SessionAssumption`).
The arguments: every alphabet with the four characters popt knows, all commands and
lists of arguments, every option and socket that are `Plain` and do not begin with
`-pipe=`, and every set of its spellings (`ArgumentAssumption`).

The options.  In the loop that compacts, `argv` is at all times made of three parts
(`CompactInv`, `Halfway`): the options kept among the first `next` of the marked
list, a gap of empty places, and the rest of the list untouched; `gap` is the first
empty place if there is one, and the last option kept otherwise (`AtGap`).  This is
what says that one index may stand still while the other moves, and it is needed
because neither index alone says how many options are missing.  `HalfwayStep` is a
round of the loop.  At its end no untouched part is left, so that the first
`argc - removed_count` places hold the options kept, in their order (`KeptInv`; as
many are removed as are not kept, `KeptCounts`).  `SettingFacts` follows the sorting
by induction over the arguments; since of each prefix only one is kept
(`KeptDistinct`), the last class path set is the first given.

The session.  `Reads(steps, text, values)` says that from a good stream with any
text behind it the steps read these values and stop at the end of this text.  It
holds of a line, a property, a number and a line feed, and of what is put together
from texts of which it holds (`ReadsBoth`, and `ReadsAll` for the elements of a
table, by induction over them), because reading steps one after the other is
reading their concatenation (`StepsBoth`).  A vector is read by as many steps as
the number in front of it says (`VectorReads`), and nothing else in the session
depends on what was read.  That an element with an empty text is still an element
comes out of `UptoReads`: there is a separator to be found after it.

The arguments.  `FilteredArguments` says that the filter takes out the option of
`fork2main()` where there is one (`FilteredOne`) and nothing otherwise
(`FilteredNone`).  `FlattenedLaid` says where in the text each argument has its place,
between which quotes and before which space; only the last space is taken off.  From
outside of quotes, with nothing read, the parser leaves such a place with the argument
as its word (`ReadsQuoted`, induction over the characters), and the space adds it to
`argv` (`ReadsArgument`).  `ParsedAgain` is the induction over the arguments.  That they
are `Plain` is needed: with a quote or a backslash the property fails in the code.

### 5.8 Induction over data

The induction theorems of the library take a predicate as a parameter, which the
installed provers cannot instantiate.  `InductiveSet` in `SequenceFacts` is
induction for a *set* of numbers, which needs no such parameter: it follows from
the order of the sets `0..n` by inclusion being well founded.  `BoundedInduction`
is its form up to a bound, and `Recursion` follows: a function on `0..m` exists for a
first value and a function for each step.  `TakenExists`, `ScanExists`, `PartedFacts`,
`FlattenFacts`, `ReadingFacts`, `ReachedExists` and `SettingExists` show in this way that
the recursive functions of the models have solutions, and the facts about them follow.

### 5.9 Only model-checked

* All liveness (`JobsGetStarted`, `StopCompletes`, `ShutdownCompletes`,
  `StatusAnswered`, `EchoEnds`, `ResponseFlows`, `Answered`, `StreamEnds`): liveness
  under fairness is beyond the prover.

Every invariant and action property that a passing run checks is a theorem.

## 6. Findings

Three runs end in a counterexample to a sentence of the repository; the traces
are real behaviours of the code.

* `StopAlwaysCompletes` (README.md:201): `--STOP` while the supervisor still
  creates its JVM.  `--SHUTDOWN` goes to a queue that does not exist and is not
  repeated; the launcher waits for ever for a supervisor that was never told.
* `ToldOnceTerminated` (spartan.cpp:1229, 1243): a child that is only stopped
  is reported as terminated, and gives its slot back twice.
* `OutputReachesInvoker` (README.md:270, 778): when the error output or the
  client's stdin ends first (`< /dev/null` is enough), all streams of the
  invocation are removed; the response is not read to its end and the client
  reports success.

More were met while modelling.  The models contain the behaviour, but no
run is spent on it:

* A worker that ends at once may be reported as completed before it is reported
  as started, and then stays in the status (README.md:202, spartan.cpp:1299).
* Once all workers of a sub-command have ended, the recorded process group is
  dead and the next worker stays in the launcher's own group (README.md:311,
  spartan.cpp:1296).
* `--SHUTDOWN` overtakes a start report on the supervisor's work queue: the drain
  does not know that worker, it is not told to quit, and the launcher waits for
  it (README.md:201, spartan.cpp:1515).
* Without `-Djava.library.path` in `CommandLineArgs` the option is "added"
  (session-state.cpp:602) in small letters, the text that lowercased options are
  compared with (session-state.cpp:616): no JVM knows it, and it is ignored
  (createjvm.cpp:285).  `OwnLibrary` has the prefix as it is written.
* Of two options with one prefix the second is lost, whatever follows the prefix:
  of several `-XX:` or `-javaagent:` options in `CommandLineArgs` only the first
  gets to the JVM (createjvm.cpp:179-193).  `Wins` and `OverridesWin` say so.
* A user's supervisor command whose name is that of a worker command of the
  library's test class (`CDC`, `GENESIS`, test.java:270, 286) is never executed if
  its jar file is scanned before the library's: test entries are removed role by
  role (CommandDispatchInfo.java:556-562), clients send every word of a worker
  command to the launcher (spartan.cpp:411-418), and the test method runs.
  `UsersFirst` therefore speaks of one role.
* A stdin that never runs dry (`< /dev/zero`, `yes |`) starves the response: its
  writer reads on until it finds the stream empty (read-on-ready.cpp:168-200), and
  the loop waits for it (read-on-ready.cpp:278).  `ResponseFlows` has this as one of
  its two exceptions.
* A failing `pipe()` or `socket()` on the de-queue thread ends the supervisor
  (open-anon-pipes.cpp:42-46, launch-program.cpp:95-97, spartan.cpp:1739, 1747), as
  a client that has left does.
* On a command line an argument that begins with `-pipe=`, in any spelling, is
  swallowed (spartan.cpp:438-451), and an argument with a double quote or a backslash
  arrives changed, an empty one not at all (send-mq-msg.cpp:177-186).
  `ArgumentsArrive` is conditional on their absence.

## 7. What is not modelled, and why

Left out of the modelled components:

* the five-second time-out of the enqueue lock (spartan.cpp:1481) and errors of
  `mq_timedreceive()` other than the time-out (spartan.cpp:1566): the lock is
  never held that long, and no step of the model makes the descriptor invalid;
* pid reuse (a job is its process; a recorded process group whose number is that of
  another process is therefore not met), SIGTERM to the launcher, `System.exit()` by
  user code other than as a crash of the supervisor;
* in `EchoStreams`: SIGINT, which ends the client; `stdout` and `stderr` that
  block for ever; read errors other than EAGAIN; `StdOutCapture` and
  `memBufStream`, which collect output in memory;
* the ctrl-c and ctrl-z handlers (`signal-handling.cpp`): they need signal
  dispositions per process and pending signals per thread, and the mutexes that
  handlers take; the hazard at line 74 has therefore no property;
* in the supervisor: `awaitWithReset()`, the `pids` argument of
  `enterSupervisorMode`, the text of the status, what user commands do;
* in `ResponseStreams`: `recvfrom()` that fails or is interrupted, and a datagram
  of which only some descriptors fit (`MSG_CTRUNC`); a sender that nobody waits for
  after `ReceiveFails` stays a zombie.  A worker or a status thread that is refused its
  pipes leaves its requester waiting for ever, as a dropped message does; `Answered`
  excuses both;
* in `FileTree`: a Java exception thrown by the visitor's call-back
  (walk-file-tree.cpp:229-262, which does not check for one),
  the exception for a path that is too long (findfiles.cpp:93-96), and errors of
  `readdir()`, which the code takes for the end of the directory;
* in the launching of programs: `find_program_path`, the kill helpers (single
  calls of `kill()`), `isFirstInstance` (a pid file that the user may consult;
  `Services` therefore lets services overlap);
* in the clients: options of the command line itself and `--help`;
* in the configuration: the parsers of `config.ini` (`ini.cpp` and `cfgparse` are
  vendored or pure input), `path_concat`.

Components not modelled at all: logging and exceptions (no control); string
helpers (`string-view.h` is vendored, `str_split` and `format2str` are wording);
the `Path` and `BasicFileAttributes` wrappers of the file utilities; `Flow.java`
and `EnumAsStream.java` (stream adapters over `java.util.stream`, no state of
their own); the examples and test programs.

Undefined behaviour is kept as a choice: after the receive loop has returned,
the detached de-queue thread works on destroyed objects; the model lets it go on
as before or lets the process die (`UseAfterScope`).

## 8. Plan

1. *Done:* `DispatchQueue`, `Launcher`, `WorkerPool`, `LauncherProofs`.
2. *Done:* `Supervisor`, `StatusBoard`, `SupervisorProofs`.
3. *Done:* `ResponseStreams` and `ResponseStreamsProofs`.
4. *Done:* `EchoStreams` and `EchoStreamsProofs`, except for the ctrl-c and ctrl-z
   handlers.
5. *Done:* `CommandTables`, `Services` and `ServicesProofs`.
6. *Done:* `ReadLine`, `FileTree` and `UtilitiesProofs`.
7. *Done:* `JvmOptions`, `SessionText`, `ArgumentText` and `TextProofs`.
8. *Left:* `Spartan`, `Launcher` and `Supervisor` composed through the
   supervisor's queue, with the end-to-end properties: a stopped service leaves
   no process, the table converges to the children alive.  Each side is checked
   today against an abstract other side (`SupervisorStep` in `Launcher`, the
   environment's reports in `Supervisor`); the product is beyond TLC at the sizes
   at which either is interesting alone.
9. *Left:* signal handling of the clients, with dispositions and handlers that
   run on any thread.
