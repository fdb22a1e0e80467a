---------------------------- MODULE ResponseStreams ----------------------------
(***************************************************************************)
(* How a request gets the streams of its response.  The requester binds a  *)
(* Unix datagram socket to a name of its own and sends the name along with *)
(* the command; whoever executes the command makes one pipe, or three for  *)
(* a react-style method, and sends first its pid and their number, then    *)
(* the requester's ends of them, to that name.                             *)
(*                                                                         *)
(* Requesters are clients on the command line, each a process, and threads *)
(* of the supervisor's Java code that call Spartan.invokeCommand: they     *)
(* fork the supervisor, and the child (the sender) posts the message.  A   *)
(* sender inherits every descriptor the supervisor has at that moment.     *)
(* fds holds what the kernel knows: the descriptors of every process.      *)
(***************************************************************************)
EXTENDS Naturals, Sequences, FiniteSets

CONSTANTS
  Requests,   \* identities of requests
  Rnd,        \* the random numbers of names; 1..99 in the code
  Mixes,      \* the assignments of requests to be looked at
  None

Wishes == [kind : {"client", "status", "invoke", "invokeEx"},
           target : {"worker", "supervisor"}, react : BOOLEAN]

ASSUME StreamsAssumption ==
  /\ IsFiniteSet(Requests) /\ Rnd # {}
  /\ Mixes \subseteq [Requests -> Wishes]
  /\ \A m \in Mixes, r \in Requests :
       m[r].kind = "status" => m[r].target = "supervisor" /\ ~m[r].react

VARIABLES
  wish,      \* what each request is: kind, who executes it, react-style or not
  pc,        \* where its requester is
  sender,    \* its forked sender: "none", "run", "posted", "exited", "killed"
  st,        \* where its execution is
  name,      \* the name its socket is bound to
  inbox,     \* datagrams waiting at its socket
  told,      \* the datagram with pid and number, once received
  got,       \* the descriptors it has been handed
  fds,       \* the descriptors of each process
  supUp      \* the supervisor runs

reqVars == <<pc, told, got>>
vars == <<wish, reqVars, sender, st, name, inbox, fds, supUp>>

-----------------------------------------------------------------------------
(* Processes and descriptors.                                              *)

Sup == <<"supervisor">>
Procs == {Sup} \cup ({"client", "sender", "worker"} \X Requests)

IsInvoke(r) == wish[r].kind \in {"invoke", "invokeEx"}
Requester(r) == IF IsInvoke(r) THEN Sup ELSE <<"client", r>>
Executor(r) == IF wish[r].target = "worker" THEN <<"worker", r>> ELSE Sup

\* The message asks for three streams, or the method takes three.
Extended(r) == wish[r].kind = "invokeEx" \/ wish[r].react

Sock(r) == <<r, "socket">>
ReadRsp(r) == <<r, "read rsp">>
WriteRsp(r) == <<r, "write rsp">>
RequesterEnds(r) == {ReadRsp(r)} \cup (IF Extended(r) THEN {<<r, "read err">>, <<r, "write wrt">>} ELSE {})
ExecutorEnds(r) == {WriteRsp(r)} \cup (IF Extended(r) THEN {<<r, "write err">>, <<r, "read wrt">>} ELSE {})

Descriptors == Requests \X {"socket", "read rsp", "read err", "write wrt", "write rsp", "write err", "read wrt"}

Open(d) == \E p \in Procs : d \in fds[p]
Has(p, ds) == fds' = [fds EXCEPT ![p] = @ \cup ds]
Closes(p, ds) == fds' = [fds EXCEPT ![p] = @ \ ds]

\* The sockets that are bound to the name n: one at most, says bind().
BoundTo(n) == {q \in Requests : name[q] = n /\ Open(Sock(q))}

Goto(r, where) == pc' = [pc EXCEPT ![r] = where]
Execution(r, where) == st' = [st EXCEPT ![r] = where]

-----------------------------------------------------------------------------
(***************************************************************************)
(* The requester: make_fifo_pipe_name() makes a name of the pid and a      *)
(* random number.  A client has its pid for itself; the threads of the     *)
(* supervisor share theirs, and seed is not guarded.                       *)
(***************************************************************************)
Names(r) == IF IsInvoke(r) THEN {<<Sup, n>> : n \in Rnd} ELSE {<<Requester(r), 1>>}

\* Variant: an address in use is not an error.
InUseNever(n) == FALSE

InUse(n) == BoundTo(n) # {}

Bind(r) ==
  /\ pc[r] = "start"
  /\ IsInvoke(r) => supUp /\ wish[r].target = "worker"
  /\ \E n \in Names(r) :
       IF InUse(n)
       THEN Goto(r, "failed") /\ UNCHANGED <<name, fds>>
       ELSE /\ name' = [name EXCEPT ![r] = n]
            /\ Has(Requester(r), {Sock(r)})
            /\ Goto(r, "send")
  /\ UNCHANGED <<wish, told, got, sender, st, inbox, supUp>>

\* socket() fails: the process has no descriptor left.
NoSocket(r) ==
  /\ pc[r] = "start"
  /\ IsInvoke(r) => supUp /\ wish[r].target = "worker"
  /\ Goto(r, "failed")
  /\ UNCHANGED <<wish, told, got, sender, st, name, inbox, fds, supUp>>

\* The Java API knows the commands of workers only: InvokeCommandException.
Refuse(r) ==
  /\ pc[r] = "start"
  /\ IsInvoke(r) /\ wish[r].target = "supervisor"
  /\ Goto(r, "failed")
  /\ UNCHANGED <<wish, told, got, sender, st, name, inbox, fds, supUp>>

\* The launcher's and the supervisor's queue take messages while the service runs.
ClientSends(r) ==
  /\ pc[r] = "send"
  /\ ~IsInvoke(r)
  /\ Goto(r, "recv")
  /\ Execution(r, "posted")
  /\ UNCHANGED <<wish, told, got, sender, name, inbox, fds, supUp>>

ClientCannotSend(r) ==
  /\ pc[r] = "send"
  /\ ~IsInvoke(r)
  /\ Goto(r, "failed")
  /\ fds' = [fds EXCEPT ![Requester(r)] = {}]
  /\ UNCHANGED <<wish, told, got, sender, st, name, inbox, supUp>>

\* fork2main(): the child has a copy of all descriptors...
Fork(r) ==
  /\ pc[r] = "send"
  /\ IsInvoke(r)
  /\ sender' = [sender EXCEPT ![r] = "run"]
  /\ fds' = [fds EXCEPT ![<<"sender", r>>] = fds[Sup]]
  /\ Goto(r, "recv")
  /\ UNCHANGED <<wish, told, got, st, name, inbox, supUp>>

ForkFails(r) ==
  /\ pc[r] = "send"
  /\ IsInvoke(r)
  /\ Goto(r, "failed")
  /\ Closes(Sup, {Sock(r)})
  /\ UNCHANGED <<wish, told, got, sender, st, name, inbox, supUp>>

\* ... runs forkable_main_entry(), which posts the message, or fails to...
SenderPosts(r) ==
  /\ sender[r] = "run"
  /\ sender' = [sender EXCEPT ![r] = "posted"]
  /\ st' \in {st, [st EXCEPT ![r] = "posted"]}
  /\ UNCHANGED <<wish, reqVars, name, inbox, fds, supUp>>

\* ... and ends.  A signal may end it before that.
SenderEnds(r, how) ==
  /\ sender[r] \in (IF how = "killed" THEN {"run", "posted"} ELSE {"posted"})
  /\ sender' = [sender EXCEPT ![r] = how]
  /\ fds' = [fds EXCEPT ![<<"sender", r>>] = {}]
  /\ UNCHANGED <<wish, reqVars, st, name, inbox, supUp>>

-----------------------------------------------------------------------------
(* obtain_response_stream(): no time-out, no other way out.                *)

Datagram(r) ==
  /\ inbox[r] # <<>>
  /\ inbox' = [inbox EXCEPT ![r] = Tail(@)]

\* Variant: the socket is closed as soon as the pid is known.
ReceivePidAndClose(r) ==
  /\ pc[r] = "recv"
  /\ Datagram(r)
  /\ told' = [told EXCEPT ![r] = Head(inbox[r])]
  /\ Goto(r, "recv2")
  /\ Closes(Requester(r), {Sock(r)})
  /\ UNCHANGED <<wish, got, sender, st, name, supUp>>

ReceivePid(r) ==
  /\ pc[r] = "recv"
  /\ Datagram(r)
  /\ told' = [told EXCEPT ![r] = Head(inbox[r])]
  /\ Goto(r, "recv2")
  /\ UNCHANGED <<wish, got, sender, st, name, fds, supUp>>

\* The socket goes out of scope as the function returns.
ReceiveFds(r) ==
  /\ pc[r] = "recv2"
  /\ Datagram(r)
  /\ got' = [got EXCEPT ![r] = Head(inbox[r]).fds]
  /\ fds' = [fds EXCEPT ![Requester(r)] = (@ \cup Head(inbox[r]).fds) \ {Sock(r)}]
  /\ Goto(r, IF IsInvoke(r) THEN "waitpid" ELSE "read")
  /\ UNCHANGED <<wish, told, sender, st, name, supUp>>

\* The supervisor has no number left for the descriptors that come: recvmsg() returns none.
ReceiveFails(r) ==
  /\ pc[r] = "recv2"
  /\ IsInvoke(r)
  /\ Datagram(r)
  /\ Goto(r, "failed")
  /\ Closes(Sup, {Sock(r)})
  /\ UNCHANGED <<wish, told, got, sender, st, name, supUp>>

\* launch_program_helper() waits for the sender, whose exit code does not matter.
SenderReaped(r) ==
  /\ pc[r] = "waitpid"
  /\ sender[r] = "exited"
  /\ Goto(r, "wrap")
  /\ UNCHANGED <<wish, told, got, sender, st, name, inbox, fds, supUp>>

\* InterruptedException, although the command has been posted and is executed.
SenderInterrupted(r) ==
  /\ pc[r] = "waitpid"
  /\ sender[r] = "killed"
  /\ Goto(r, "failed")
  /\ Closes(Sup, RequesterEnds(r))
  /\ UNCHANGED <<wish, told, got, sender, st, name, inbox, supUp>>

\* invokeCommand() has no use for the streams of errors and input, and closes them.
Unwanted(r) == IF wish[r].kind = "invoke" THEN RequesterEnds(r) \ {ReadRsp(r)} ELSE {}

\* The descriptors become Java streams of an InvokeResponse...
Wrap(r) ==
  /\ pc[r] = "wrap"
  /\ Goto(r, "read")
  /\ Closes(Sup, Unwanted(r))
  /\ UNCHANGED <<wish, told, got, sender, st, name, inbox, supUp>>

\* ... or an object cannot be made, and all are closed.
WrapFails(r) ==
  /\ pc[r] = "wrap"
  /\ Goto(r, "failed")
  /\ Closes(Sup, RequesterEnds(r))
  /\ UNCHANGED <<wish, told, got, sender, st, name, inbox, supUp>>

\* End of stream: nobody has the write end of the response any more.
EndOfStream(r) ==
  /\ pc[r] = "read"
  /\ ~Open(WriteRsp(r))
  /\ Goto(r, "done")
  /\ Closes(Requester(r), RequesterEnds(r))
  /\ UNCHANGED <<wish, told, got, sender, st, name, inbox, supUp>>

ClientLeaves(r) ==
  /\ ~IsInvoke(r)
  /\ pc[r] \in {"send", "recv", "recv2", "read"}
  /\ Goto(r, "left")
  /\ fds' = [fds EXCEPT ![Requester(r)] = {}]
  /\ UNCHANGED <<wish, told, got, sender, st, name, inbox, supUp>>

-----------------------------------------------------------------------------
(***************************************************************************)
(* The execution: a worker, forked by the launcher, which has none of      *)
(* these descriptors; the supervisor's de-queue thread, one command at a   *)
(* time; or a thread of its own for --STATUS.                              *)
(***************************************************************************)
OnDequeueThread(r) == wish[r].kind = "client" /\ wish[r].target = "supervisor"
Executing == {"open", "counted", "running"}
DequeueThreadFree == ~\E q \in Requests : OnDequeueThread(q) /\ st[q] \in Executing

\* Variant: --STATUS waits for its turn too.
StatusWaits(r) == wish[r].target = "supervisor" /\ ~DequeueThreadFree

Waits(r) == OnDequeueThread(r) /\ ~DequeueThreadFree

\* The fork or the JVM of the worker fails, or the service stops with the message queued.
Drop(r) ==
  /\ st[r] = "posted"
  /\ Execution(r, "lost")
  /\ UNCHANGED <<wish, reqVars, sender, name, inbox, fds, supUp>>

Begins(r) ==
  /\ st[r] = "posted"
  /\ wish[r].target = "supervisor" => supUp
  /\ ~Waits(r)

OpenPipes(r) ==
  /\ Begins(r)
  /\ Execution(r, "open")
  /\ Has(Executor(r), RequesterEnds(r) \cup ExecutorEnds(r))
  /\ UNCHANGED <<wish, reqVars, sender, name, inbox, supUp>>

Deliver(r, d) ==
  \E q \in BoundTo(name[r]) : inbox' = [inbox EXCEPT ![q] = Append(@, d)]

SendPid(r) ==
  /\ st[r] = "open"
  /\ Deliver(r, [pid |-> Executor(r), count |-> IF Extended(r) THEN 3 ELSE 1])
  /\ Execution(r, "counted")
  /\ UNCHANGED <<wish, reqVars, sender, name, fds, supUp>>

\* Variants: the executor keeps its copies of the requester's ends; it closes its own ends too.
PassedOnKept(r) == {}
PassedOnAll(r) == RequesterEnds(r) \cup ExecutorEnds(r)

\* The copies of the requester's ends are closed when they have been sent.
PassedOn(r) == RequesterEnds(r)

SendFds(r) ==
  /\ st[r] = "counted"
  /\ Deliver(r, [fds |-> RequesterEnds(r)])
  /\ Execution(r, "running")
  /\ Closes(Executor(r), PassedOn(r))
  /\ UNCHANGED <<wish, reqVars, sender, name, supUp>>

(***************************************************************************)
(* The streams cannot be handed over: the requester's socket has gone      *)
(* (failed), or the system refuses a socket, a pipe or a datagram          *)
(* (refused).  A worker catches the exception and exits, the packaged_task *)
(* of --STATUS keeps it; on the de-queue thread nothing catches it and the *)
(* supervisor ends.                                                        *)
(***************************************************************************)
CannotSend(r) == st[r] \in {"open", "counted"} /\ BoundTo(name[r]) = {}
MayBeRefused(r) == Begins(r) \/ st[r] \in {"open", "counted"}
Failures(r) == {how \in {"failed", "refused"} : IF how = "failed" THEN CannotSend(r) ELSE MayBeRefused(r)}

SendFails(r) ==
  /\ ~OnDequeueThread(r)
  /\ \E how \in Failures(r) : Execution(r, how)
  /\ Closes(Executor(r), RequesterEnds(r) \cup ExecutorEnds(r))
  /\ UNCHANGED <<wish, reqVars, sender, name, inbox, supUp>>

SupervisorAborts(r) ==
  /\ OnDequeueThread(r)
  /\ \E how \in Failures(r) :
       st' = [q \in Requests |->
               IF q = r THEN how
               ELSE IF Executor(q) = Sup /\ st[q] \in Executing \cup {"posted"} THEN "failed" ELSE st[q]]
  /\ supUp' = FALSE
  /\ fds' = [fds EXCEPT ![Sup] = {}]
  /\ pc' = [q \in Requests |-> IF IsInvoke(q) THEN "gone" ELSE pc[q]]
  /\ UNCHANGED <<wish, told, got, sender, name, inbox>>

\* Variant: the end of the method does not close the streams.
ClosedAtEndNone(r) == {}

\* The worker exits, or the Java code closes the streams it was given.
ClosedAtEnd(r) == ExecutorEnds(r)

MethodEnds(r) ==
  /\ st[r] = "running"
  /\ Execution(r, "ended")
  /\ Closes(Executor(r), ClosedAtEnd(r))
  /\ UNCHANGED <<wish, reqVars, sender, name, inbox, supUp>>

-----------------------------------------------------------------------------
Init ==
  /\ wish \in Mixes
  /\ pc = [r \in Requests |-> "start"]
  /\ sender = [r \in Requests |-> "none"]
  /\ st = [r \in Requests |-> "none"]
  /\ name = [r \in Requests |-> None]
  /\ inbox = [r \in Requests |-> <<>>]
  /\ told = [r \in Requests |-> None]
  /\ got = [r \in Requests |-> {}]
  /\ fds = [p \in Procs |-> {}]
  /\ supUp = TRUE

Requesting(r) ==
  \/ Bind(r) \/ NoSocket(r) \/ Refuse(r) \/ ClientSends(r) \/ ClientCannotSend(r) \/ Fork(r) \/ ForkFails(r)
  \/ ReceivePid(r) \/ ReceiveFds(r) \/ ReceiveFails(r) \/ SenderReaped(r) \/ SenderInterrupted(r)
  \/ Wrap(r) \/ WrapFails(r) \/ EndOfStream(r) \/ ClientLeaves(r)

Sending(r) == SenderPosts(r) \/ SenderEnds(r, "exited") \/ SenderEnds(r, "killed")

Answering(r) ==
  \/ Drop(r) \/ OpenPipes(r) \/ SendPid(r) \/ SendFds(r)
  \/ SendFails(r) \/ SupervisorAborts(r) \/ MethodEnds(r)

Next == \E r \in Requests : Requesting(r) \/ Sending(r) \/ Answering(r)

Spec == Init /\ [][Next]_vars

\* Processes and threads run on; whether a method ends is up to the user's code.
FairSpec ==
  /\ Spec
  /\ \A r \in Requests :
       /\ WF_vars(ReceivePid(r) \/ ReceiveFds(r) \/ SenderReaped(r) \/ SenderInterrupted(r)
                  \/ Wrap(r) \/ EndOfStream(r))
       /\ WF_vars(SenderPosts(r) \/ SenderEnds(r, "exited"))
       /\ WF_vars(OpenPipes(r)) /\ WF_vars(SendPid(r) \/ SendFds(r) \/ SendFails(r))

-----------------------------------------------------------------------------
(* Properties.                                                             *)

(***************************************************************************)
(* A requester gets the pid and the streams of the execution of its own    *)
(* request, as many as the number it was told, although threads of one     *)
(* process may draw the same name and sockets outlive their owner in a     *)
(* sender.                                                                 *)
(***************************************************************************)
OwnAnswer ==
  \A r \in Requests :
    got[r] # {} =>
      /\ got[r] = RequesterEnds(r)
      /\ told[r] = [pid |-> Executor(r), count |-> Cardinality(got[r])]

(***************************************************************************)
(* The end of the response stream means that the execution is over: no     *)
(* output is cut off, unless the supervisor ended meanwhile.               *)
(***************************************************************************)
EndMeansOver ==
  \A r \in Requests : pc[r] = "done" => st[r] = "ended" \/ ~supUp

(***************************************************************************)
(* The supervisor goes down only by a command on its own de-queue thread,  *)
(* and then because the command's client went away before it had its       *)
(* streams, or because the system refused a socket, a pipe or a datagram:  *)
(* never by what goes wrong with a worker's command, a status request or   *)
(* an invocation of its own, nor by a client that keeps waiting.           *)
(***************************************************************************)
AbortHasCause ==
  ~supUp => \E r \in Requests :
              OnDequeueThread(r) /\ (st[r] = "refused" \/ (st[r] = "failed" /\ pc[r] = "left"))

(***************************************************************************)
(* The supervisor, which runs for long, keeps no descriptor of a request   *)
(* that is over on both sides, whatever failed on the way.                 *)
(***************************************************************************)
NothingLeaks ==
  \A r \in Requests :
    /\ pc[r] \in {"done", "failed", "left"} /\ st[r] \notin Executing
    => \A d \in fds[Sup] : d[1] # r

(***************************************************************************)
(* A request for a worker or for the status that has been posted gets its  *)
(* streams unless it is dropped or the system refuses them, however long   *)
(* supervisor commands run.                                                *)
(***************************************************************************)
Answered ==
  \A r \in Requests :
    st[r] = "posted" /\ ~OnDequeueThread(r)
      ~> got[r] # {} \/ st[r] \in {"lost", "refused"} \/ pc[r] \in {"failed", "left", "gone"} \/ ~supUp

(***************************************************************************)
(* Once the method has ended the requester sees the end of the stream,     *)
(* although senders forked meanwhile have copies of the write end.         *)
(***************************************************************************)
StreamEnds ==
  \A r \in Requests :
    st[r] = "ended" ~> pc[r] \in {"done", "failed", "left", "gone"}

-----------------------------------------------------------------------------
(* The inductive invariant of ResponseStreamsProofs.                       *)

Datagrams == [pid : Procs, count : {1, 3}] \cup [fds : SUBSET Descriptors]

(***************************************************************************)
(* Types: where requesters, senders and executions are; a name is that of  *)
(* a process and a number; descriptors are those of requests.              *)
(***************************************************************************)
TypeOK ==
  /\ wish \in Mixes
  /\ pc \in [Requests -> {"start", "send", "recv", "recv2", "waitpid", "wrap", "read",
                          "done", "failed", "left", "gone"}]
  /\ sender \in [Requests -> {"none", "run", "posted", "exited", "killed"}]
  /\ st \in [Requests -> {"none", "posted", "lost", "failed", "refused", "ended"} \cup Executing]
  /\ name \in [Requests -> {None} \cup (Procs \X (Rnd \cup {1}))]
  /\ inbox \in [Requests -> Seq(Datagrams)]
  /\ told \in [Requests -> {None} \cup Datagrams]
  /\ got \in [Requests -> SUBSET Descriptors]
  /\ fds \in [Procs -> SUBSET Descriptors]
  /\ supUp \in BOOLEAN

\* The execution of r, or the sender that will bring it about, may still write to r's name.
Awaited(r) == sender[r] = "run" \/ st[r] \in {"posted", "open", "counted"}

\* How far the requester is, compared with its sender and the execution.
Phases ==
  \A r \in Requests :
    /\ pc[r] \in {"start", "send"} => sender[r] = "none" /\ st[r] = "none" /\ inbox[r] = <<>>
    /\ sender[r] # "none" => IsInvoke(r)
    /\ sender[r] = "run" => st[r] = "none"
    /\ pc[r] = "left" => ~IsInvoke(r)
    /\ pc[r] = "gone" => ~supUp
    /\ Awaited(r) => pc[r] \in {"recv", "recv2", "left", "gone"}
    /\ IsInvoke(r) /\ (pc[r] \notin {"start", "failed", "gone"} \/ sender[r] # "none" \/ st[r] # "none")
         => wish[r].target = "worker"
    /\ st[r] = "failed" => ~supUp \/ pc[r] = "left"

\* A name leads to one socket, and as long as r is awaited to no other than r's.
Sockets ==
  /\ \A r \in Requests :
       /\ pc[r] \in {"send", "recv", "recv2"} => Sock(r) \in fds[Requester(r)]
       /\ Open(Sock(r)) \/ Awaited(r) => pc[r] # "start" /\ name[r] \in Names(r)
  /\ \A q, r \in Requests :
       q # r /\ Open(Sock(q)) /\ (Open(Sock(r)) \/ Awaited(r)) => name[q] # name[r]

Pid(r) == [pid |-> Executor(r), count |-> IF Extended(r) THEN 3 ELSE 1]
Ends(r) == [fds |-> RequesterEnds(r)]
Sent == {"running", "ended", "failed"}

\* What the requester waits for is what the execution has still to send.
ExchangeOf(r) ==
  /\ pc[r] = "recv" =>
       \/ inbox[r] = <<>> /\ st[r] \in {"none", "posted", "lost", "open", "failed", "refused"}
       \/ inbox[r] = <<Pid(r)>> /\ st[r] \in {"counted", "failed", "refused"}
       \/ inbox[r] = <<Pid(r), Ends(r)>> /\ st[r] \in Sent
  /\ pc[r] = "recv2" =>
       /\ told[r] = Pid(r)
       /\ \/ inbox[r] = <<>> /\ st[r] \in {"counted", "failed", "refused"}
          \/ inbox[r] = <<Ends(r)>> /\ st[r] \in Sent
  /\ pc[r] \in {"waitpid", "wrap", "read", "done"} => st[r] \in Sent
  /\ pc[r] = "done" => st[r] # "running"
  /\ pc[r] \in {"start", "send", "recv", "recv2"} => got[r] = {}
  /\ got[r] # {} => got[r] = RequesterEnds(r) /\ told[r] = Pid(r)

Exchange == \A r \in Requests : ExchangeOf(r)

\* Who executes has the write end of the response until the execution is over.
WriteEndHeld ==
  \A r \in Requests : st[r] \in Executing => WriteRsp(r) \in fds[Executor(r)]

\* What a descriptor of the supervisor is there for.
Accounted ==
  \A r \in Requests :
    /\ Sock(r) \in fds[Sup] => IsInvoke(r) /\ pc[r] \in {"send", "recv", "recv2"}
    /\ fds[Sup] \cap RequesterEnds(r) # {} =>
         \/ IsInvoke(r) /\ pc[r] \in {"waitpid", "wrap", "read"}
         \/ Executor(r) = Sup /\ st[r] \in {"open", "counted"}
    /\ fds[Sup] \cap ExecutorEnds(r) # {} => Executor(r) = Sup /\ st[r] \in Executing

OfRequests == \A d \in fds[Sup] : \E r \in Requests : d \in {Sock(r)} \cup RequesterEnds(r) \cup ExecutorEnds(r)

(***************************************************************************)
(* Requester, sender and execution of a request are in step: an execution  *)
(* that is awaited finds one socket of the name it was given, the          *)
(* datagrams at it are the ones it has still to receive, and every         *)
(* descriptor of the supervisor is of a request that needs it.             *)
(***************************************************************************)
StreamsInv ==
  /\ TypeOK /\ Phases /\ Sockets /\ Exchange /\ WriteEndHeld /\ Accounted /\ OfRequests
  /\ AbortHasCause
===============================================================================
