------------------------- MODULE ResponseStreamsProofs -------------------------
(***************************************************************************)
(* Proofs about ResponseStreams, for every finite set of requests, every   *)
(* set of numbers for names and every mix of kinds of requests.            *)
(***************************************************************************)
EXTENDS ResponseStreams, FiniteSetTheorems, SequenceTheorems, TLAPS

USE DEF reqVars

-----------------------------------------------------------------------------
(* Processes and descriptors.                                              *)

\* Who takes part in a request.
LEMMA Processes ==
  ASSUME NEW r \in Requests
  PROVE  /\ Sup \in Procs /\ <<"sender", r>> \in Procs /\ <<"client", r>> \in Procs
         /\ Requester(r) \in Procs /\ Executor(r) \in Procs
         /\ <<"sender", r>> # Sup /\ <<"sender", r>> # Requester(r) /\ <<"sender", r>> # Executor(r)
         /\ IsInvoke(r) <=> Requester(r) = Sup
         /\ ~IsInvoke(r) => Requester(r) = <<"client", r>> /\ Requester(r) # Executor(r)
         /\ wish[r].target = "worker" => Executor(r) = <<"worker", r>>
         /\ (wish[r].target # "worker") <=> Executor(r) = Sup
<1>1. Sup # <<"sender", r>> /\ Sup # <<"client", r>> /\ Sup # <<"worker", r>>
  BY DEF Sup
<1>. QED
  BY <1>1 DEF Procs, Requester, Executor

\* The clients, workers and senders of two requests are different processes.
LEMMA OthersProcesses ==
  ASSUME NEW q \in Requests, NEW r \in Requests, q # r
  PROVE  /\ <<"sender", q>> # <<"sender", r>> /\ <<"sender", q>> # Executor(r) /\ <<"sender", q>> # Requester(r)
         /\ ~IsInvoke(q) => Requester(q) # Requester(r)
         /\ ~IsInvoke(q) => Requester(q) # Executor(r)
         /\ wish[q].target = "worker" => Executor(q) # Executor(r) /\ Executor(q) # Requester(r)
<1>1. \A k \in {"client", "sender", "worker"} : Sup # <<k, r>> /\ Sup # <<k, q>>
  BY DEF Sup
<1>. QED
  BY <1>1 DEF Procs, Requester, Executor

\* The descriptors of a request are of three sorts, and not those of another.
LEMMA Sorts ==
  ASSUME NEW r \in Requests
  PROVE  /\ Sock(r) \in Descriptors
         /\ RequesterEnds(r) \subseteq Descriptors /\ ExecutorEnds(r) \subseteq Descriptors
         /\ Sock(r) \notin RequesterEnds(r) /\ Sock(r) \notin ExecutorEnds(r)
         /\ RequesterEnds(r) \cap ExecutorEnds(r) = {}
         /\ ReadRsp(r) \in RequesterEnds(r) /\ WriteRsp(r) \in ExecutorEnds(r)
         /\ Sock(r)[1] = r /\ \A d \in RequesterEnds(r) \cup ExecutorEnds(r) : d[1] = r
<1>. DEFINE reqKinds == {"read rsp", "read err", "write wrt"}
            excKinds == {"write rsp", "write err", "read wrt"}
<1>1. \A d \in RequesterEnds(r) : \E k \in reqKinds : d = <<r, k>>
  BY DEF RequesterEnds, ReadRsp
<1>2. \A d \in ExecutorEnds(r) : \E k \in excKinds : d = <<r, k>>
  BY DEF ExecutorEnds, WriteRsp
<1>3. \A k \in reqKinds \cup excKinds \cup {"socket"} : <<r, k>> \in Descriptors /\ <<r, k>>[1] = r /\ <<r, k>>[2] = k
  BY DEF Descriptors
<1>4. \A d \in RequesterEnds(r) : d[2] \in reqKinds /\ d[1] = r /\ d \in Descriptors
  <2>. HIDE DEF reqKinds, excKinds
  <2>1. TAKE d \in RequesterEnds(r)
  <2>2. PICK k \in reqKinds : d = <<r, k>>
    BY <1>1
  <2>. QED
    BY <2>2, <1>3
<1>5. \A d \in ExecutorEnds(r) : d[2] \in excKinds /\ d[1] = r /\ d \in Descriptors
  <2>. HIDE DEF reqKinds, excKinds
  <2>1. TAKE d \in ExecutorEnds(r)
  <2>2. PICK k \in excKinds : d = <<r, k>>
    BY <1>2
  <2>. QED
    BY <2>2, <1>3
<1>6. Sock(r)[2] = "socket" /\ Sock(r)[1] = r /\ Sock(r) \in Descriptors
  BY <1>3 DEF Sock
<1>7. ReadRsp(r) \in RequesterEnds(r) /\ WriteRsp(r) \in ExecutorEnds(r)
  BY DEF RequesterEnds, ExecutorEnds
<1>8. \A k \in reqKinds : k \notin excKinds /\ k # "socket"
  OBVIOUS
<1>9. "socket" \notin excKinds
  OBVIOUS
<1>10. RequesterEnds(r) \cap ExecutorEnds(r) = {} /\ Sock(r) \notin RequesterEnds(r) /\ Sock(r) \notin ExecutorEnds(r)
  <2>. HIDE DEF reqKinds, excKinds
  <2>. QED
    BY <1>4, <1>5, <1>6, <1>8, <1>9
<1>. QED
  BY <1>4, <1>5, <1>6, <1>7, <1>10

LEMMA OthersDescriptors ==
  ASSUME NEW q \in Requests, NEW r \in Requests, q # r
  PROVE  LET Of(p) == {Sock(p)} \cup RequesterEnds(p) \cup ExecutorEnds(p)
         IN Of(q) \cap Of(r) = {}
BY Sorts

\* What a request is does not change.
LEMMA WishStays ==
  ASSUME wish' = wish, NEW r
  PROVE  /\ IsInvoke(r)' <=> IsInvoke(r)
         /\ Requester(r)' = Requester(r) /\ Executor(r)' = Executor(r)
         /\ Extended(r)' <=> Extended(r)
         /\ RequesterEnds(r)' = RequesterEnds(r) /\ ExecutorEnds(r)' = ExecutorEnds(r)
         /\ Names(r)' = Names(r)
         /\ Pid(r)' = Pid(r) /\ Ends(r)' = Ends(r)
<1>1. (IsInvoke(r)' <=> IsInvoke(r)) /\ (Extended(r)' <=> Extended(r)) /\ Executor(r)' = Executor(r)
  BY DEF IsInvoke, Extended, Executor
<1>2. Requester(r)' = Requester(r)
  BY <1>1 DEF Requester
<1>3. RequesterEnds(r)' = RequesterEnds(r) /\ ExecutorEnds(r)' = ExecutorEnds(r)
  BY <1>1 DEF RequesterEnds, ExecutorEnds
<1>4. Names(r)' = Names(r)
  BY <1>1, <1>2 DEF Names
<1>5. Pid(r)' = Pid(r) /\ Ends(r)' = Ends(r)
  BY <1>1, <1>3 DEF Pid, Ends
<1>. QED
  BY <1>1, <1>2, <1>3, <1>4, <1>5

-----------------------------------------------------------------------------
(* Types.                                                                  *)

LEMMA TypeInit == Init => TypeOK
BY EmptySeq DEF Init, TypeOK

\* A datagram that is received, and one that is sent.
LEMMA DatagramFacts ==
  ASSUME TypeOK, NEW r \in Requests
  PROVE  /\ inbox[r] # <<>> => Head(inbox[r]) \in Datagrams /\ Tail(inbox[r]) \in Seq(Datagrams)
         /\ Pid(r) \in Datagrams /\ Ends(r) \in Datagrams
         /\ \A q \in Requests, d \in Datagrams : Append(inbox[q], d) \in Seq(Datagrams)
<1>1. inbox[r] # <<>> => Head(inbox[r]) \in Datagrams /\ Tail(inbox[r]) \in Seq(Datagrams)
  BY HeadTailProperties, EmptySeq DEF TypeOK
<1>2. Pid(r) \in Datagrams
  BY Processes DEF Pid, Datagrams
<1>3. Ends(r) \in Datagrams
  BY Sorts DEF Ends, Datagrams
<1>4. \A q \in Requests, d \in Datagrams : Append(inbox[q], d) \in Seq(Datagrams)
  BY AppendProperties DEF TypeOK
<1>. QED
  BY <1>1, <1>2, <1>3, <1>4

\* Only the socket of r has r's name while the execution of r is to answer.
LEMMA DeliverOwn ==
  ASSUME TypeOK, Sockets, NEW r \in Requests, st[r] \in {"open", "counted"}, NEW d \in Datagrams, Deliver(r, d)
  PROVE  Open(Sock(r)) /\ inbox' = [inbox EXCEPT ![r] = Append(@, d)]
<1>1. PICK q \in BoundTo(name[r]) : inbox' = [inbox EXCEPT ![q] = Append(@, d)]
  BY DEF Deliver
<1>2. q = r
  BY <1>1 DEF Sockets, Awaited, BoundTo
<1>. QED
  BY <1>1, <1>2 DEF BoundTo

LEMMA NamesType ==
  ASSUME NEW r \in Requests
  PROVE  Names(r) \subseteq Procs \X (Rnd \cup {1})
<1>1. \A n \in Names(r) : \E p \in Procs, k \in Rnd \cup {1} : n = <<p, k>>
  <2>1. CASE IsInvoke(r)
    <3>1. Names(r) = {<<Sup, n>> : n \in Rnd}
      BY <2>1 DEF Names
    <3>. QED
      BY <3>1, Processes
  <2>2. CASE ~IsInvoke(r)
    <3>1. Names(r) = {<<Requester(r), 1>>}
      BY <2>2 DEF Names
    <3>. QED
      BY <3>1, Processes
  <2>. QED
    BY <2>1, <2>2
<1>. QED
  BY <1>1

LEMMA TypeRequesting ==
  ASSUME TypeOK, Exchange, NEW r \in Requests, Requesting(r)
  PROVE  TypeOK'
<1>. USE Processes, Sorts DEF TypeOK, Has, Closes, Goto, Execution
<1>1. CASE Bind(r)
  <2>1. PICK n \in Names(r) :
           \/ Goto(r, "failed") /\ UNCHANGED <<name, fds>>
           \/ name' = [name EXCEPT ![r] = n] /\ Has(Requester(r), {Sock(r)}) /\ Goto(r, "send")
    BY <1>1 DEF Bind
  <2>2. n \in Procs \X (Rnd \cup {1})
    BY NamesType
  <2>3. UNCHANGED <<wish, told, got, sender, st, inbox, supUp>>
    BY <1>1 DEF Bind
  <2>. DEFINE names == Procs \X (Rnd \cup {1})
  <2>4. name' \in [Requests -> {None} \cup names]
    <3>1. name \in [Requests -> {None} \cup names]
      OBVIOUS
    <3>2. n \in names
      BY <2>2
    <3>. HIDE DEF names
    <3>3. name' \in {name, [name EXCEPT ![r] = n]}
      BY <2>1
    <3>. QED
      BY SMTT(60), <3>1, <3>2, <3>3
  <2>5. fds' \in [Procs -> SUBSET Descriptors]
    <3>1. Requester(r) \in Procs /\ Sock(r) \in Descriptors /\ fds \in [Procs -> SUBSET Descriptors]
      OBVIOUS
    <3>2. fds' \in {fds, [fds EXCEPT ![Requester(r)] = @ \cup {Sock(r)}]}
      BY <2>1
    <3>. QED
      BY ONLY <3>1, <3>2
  <2>6. pc' \in {[pc EXCEPT ![r] = "failed"], [pc EXCEPT ![r] = "send"]}
    BY <2>1
  <2>. QED
    BY <2>3, <2>4, <2>5, <2>6
<1>2. CASE Refuse(r)
  BY <1>2 DEF Refuse
<1>3. CASE ClientSends(r)
  BY <1>3 DEF ClientSends
<1>4. CASE ClientCannotSend(r)
  BY <1>4 DEF ClientCannotSend
<1>5. CASE Fork(r)
  BY <1>5 DEF Fork
<1>6. CASE ForkFails(r)
  BY <1>6 DEF ForkFails
<1>7. CASE ReceivePid(r)
  BY <1>7, DatagramFacts DEF ReceivePid, Datagram
<1>8. CASE ReceiveFds(r)
  <2>1. Head(inbox[r]) = Ends(r)
    BY <1>8, HeadTailProperties DEF ReceiveFds, Datagram, Exchange, ExchangeOf
  <2>2. Head(inbox[r]).fds \subseteq Descriptors
    BY <2>1 DEF Ends
  <2>. QED
    BY <1>8, <2>2, DatagramFacts DEF ReceiveFds, Datagram
<1>9. CASE SenderReaped(r)
  BY <1>9 DEF SenderReaped
<1>10. CASE SenderInterrupted(r)
  BY <1>10 DEF SenderInterrupted
<1>11. CASE Wrap(r)
  BY <1>11 DEF Wrap, Unwanted
<1>12. CASE WrapFails(r)
  BY <1>12 DEF WrapFails
<1>13. CASE EndOfStream(r)
  BY <1>13 DEF EndOfStream
<1>14. CASE ClientLeaves(r)
  BY <1>14 DEF ClientLeaves
<1>15. CASE NoSocket(r)
  BY <1>15 DEF NoSocket
<1>16. CASE ReceiveFails(r)
  BY <1>16, DatagramFacts DEF ReceiveFails, Datagram
<1>. QED
  BY <1>1, <1>2, <1>3, <1>4, <1>5, <1>6, <1>7, <1>8, <1>9, <1>10, <1>11, <1>12, <1>13, <1>14, <1>15, <1>16
  DEF Requesting

LEMMA TypeSending ==
  ASSUME TypeOK, NEW r \in Requests, Sending(r)
  PROVE  TypeOK'
<1>. USE Processes DEF TypeOK
<1>1. CASE SenderPosts(r)
  BY <1>1 DEF SenderPosts
<1>2. ASSUME NEW how \in {"exited", "killed"}, SenderEnds(r, how)
      PROVE  TypeOK'
  BY <1>2 DEF SenderEnds
<1>. QED
  BY <1>1, <1>2 DEF Sending

\* How the handing over may fail, and where it is then.
LEMMA FailureFacts ==
  ASSUME NEW r \in Requests, NEW how \in Failures(r)
  PROVE  /\ how \in {"failed", "refused"}
         /\ how = "failed" => CannotSend(r)
         /\ st[r] \in {"posted", "open", "counted"}
  BY DEF Failures, CannotSend, MayBeRefused, Begins

\* What becomes of the executions when the supervisor ends.
LEMMA AbortFacts ==
  ASSUME TypeOK, NEW r \in Requests, SupervisorAborts(r)
  PROVE  \A q \in Requests :
           \/ st'[q] = st[q]
           \/ st'[q] = "refused" /\ st[q] \in {"posted", "open", "counted"}
           \/ st'[q] = "failed" /\ st[q] \in {"posted", "open", "counted", "running"}
<1>1. PICK how \in Failures(r) :
        st' = [q \in Requests |->
                IF q = r THEN how
                ELSE IF Executor(q) = Sup /\ st[q] \in Executing \cup {"posted"} THEN "failed" ELSE st[q]]
  BY DEF SupervisorAborts
<1>2. how \in {"failed", "refused"} /\ st[r] \in {"posted", "open", "counted"}
  BY FailureFacts
<1>. QED
  BY <1>1, <1>2 DEF Executing

LEMMA TypeAnswering ==
  ASSUME TypeOK, Sockets, NEW r \in Requests, Answering(r)
  PROVE  TypeOK'
<1>. USE Processes, Sorts DEF TypeOK, Has, Closes, Execution, Executing
<1>1. CASE Drop(r)
  BY <1>1 DEF Drop
<1>2. CASE OpenPipes(r)
  BY <1>2 DEF OpenPipes, Begins
<1>3. CASE SendPid(r)
  <2>1. inbox' = [inbox EXCEPT ![r] = Append(@, Pid(r))]
    BY <1>3, DeliverOwn, DatagramFacts DEF SendPid, Pid
  <2>2. inbox' \in [Requests -> Seq(Datagrams)]
    BY <2>1, DatagramFacts
  <2>. QED
    BY <1>3, <2>2 DEF SendPid
<1>4. CASE SendFds(r)
  <2>1. inbox' = [inbox EXCEPT ![r] = Append(@, Ends(r))]
    BY <1>4, DeliverOwn, DatagramFacts DEF SendFds, Ends
  <2>2. inbox' \in [Requests -> Seq(Datagrams)]
    BY <2>1, DatagramFacts
  <2>. QED
    BY <1>4, <2>2 DEF SendFds
<1>5. CASE SendFails(r)
  <2>1. PICK how \in Failures(r) : Execution(r, how)
    BY <1>5 DEF SendFails
  <2>. QED
    BY <1>5, <2>1, FailureFacts DEF SendFails
<1>6. CASE SupervisorAborts(r)
  <2>1. st' \in [Requests -> {"none", "posted", "lost", "failed", "refused", "ended"} \cup Executing]
    <3>1. st' = [q \in Requests |-> st'[q]]
      BY <1>6 DEF SupervisorAborts
    <3>2. \A q \in Requests : st'[q] \in {"none", "posted", "lost", "failed", "refused", "ended"} \cup Executing
      BY <1>6, AbortFacts
    <3>. QED
      BY <3>1, <3>2
  <2>. QED
    BY <1>6, <2>1 DEF SupervisorAborts
<1>7. CASE MethodEnds(r)
  BY <1>7 DEF MethodEnds, ClosedAtEnd
<1>. QED
  BY <1>1, <1>2, <1>3, <1>4, <1>5, <1>6, <1>7 DEF Answering

-----------------------------------------------------------------------------
(* How far requesters, senders and executions are.                         *)

LEMMA PhasesRequesting ==
  ASSUME TypeOK, Phases, Exchange, NEW r \in Requests, Requesting(r)
  PROVE  Phases'
<1>. USE WishStays DEF TypeOK, Phases, Awaited, Goto, Execution
<1>1. CASE Bind(r)
  BY <1>1 DEF Bind
<1>2. CASE Refuse(r)
  BY <1>2 DEF Refuse
<1>3. CASE ClientSends(r)
  BY <1>3 DEF ClientSends
<1>4. CASE ClientCannotSend(r)
  BY <1>4 DEF ClientCannotSend
<1>5. CASE Fork(r)
  BY <1>5 DEF Fork
<1>6. CASE ForkFails(r)
  BY <1>6 DEF ForkFails
<1>7. CASE ReceivePid(r)
  BY <1>7 DEF ReceivePid, Datagram
<1>8. CASE ReceiveFds(r)
  BY <1>8 DEF ReceiveFds, Datagram, Exchange, ExchangeOf, Sent
<1>9. CASE SenderReaped(r)
  BY <1>9 DEF SenderReaped
<1>10. CASE SenderInterrupted(r)
  BY <1>10 DEF SenderInterrupted
<1>11. CASE Wrap(r)
  BY <1>11 DEF Wrap
<1>12. CASE WrapFails(r)
  BY <1>12 DEF WrapFails
<1>13. CASE EndOfStream(r)
  BY <1>13 DEF EndOfStream
<1>14. CASE ClientLeaves(r)
  BY <1>14 DEF ClientLeaves
<1>15. CASE NoSocket(r)
  BY <1>15 DEF NoSocket
<1>16. CASE ReceiveFails(r)
  BY <1>16 DEF ReceiveFails, Datagram, Exchange, ExchangeOf, Sent
<1>. QED
  BY <1>1, <1>2, <1>3, <1>4, <1>5, <1>6, <1>7, <1>8, <1>9, <1>10, <1>11, <1>12, <1>13, <1>14, <1>15, <1>16
  DEF Requesting

LEMMA PhasesSending ==
  ASSUME TypeOK, Phases, NEW r \in Requests, Sending(r)
  PROVE  Phases'
<1>. USE WishStays DEF TypeOK, Phases, Awaited
<1>1. CASE SenderPosts(r)
  BY <1>1 DEF SenderPosts
<1>2. ASSUME NEW how \in {"exited", "killed"}, SenderEnds(r, how)
      PROVE  Phases'
  BY <1>2 DEF SenderEnds
<1>. QED
  BY <1>1, <1>2 DEF Sending

LEMMA PhasesAnswering ==
  ASSUME TypeOK, Phases, Sockets, Exchange, NEW r \in Requests, Answering(r)
  PROVE  Phases'
<1>. USE WishStays DEF TypeOK, Phases, Awaited, Execution, Executing
<1>1. CASE Drop(r)
  BY <1>1 DEF Drop
<1>2. CASE OpenPipes(r)
  BY <1>2 DEF OpenPipes, Begins
<1>3. CASE SendPid(r)
  BY ZenonT(60), <1>3, DeliverOwn, DatagramFacts DEF SendPid, Pid
<1>4. CASE SendFds(r)
  BY ZenonT(60), <1>4, DeliverOwn, DatagramFacts DEF SendFds, Ends
<1>5. CASE SendFails(r)
  <2>1. PICK how \in Failures(r) : Execution(r, how)
    BY <1>5 DEF SendFails
  <2>2. CASE how = "failed"
    <3>1. CannotSend(r) /\ pc[r] \notin {"recv", "recv2"}
      BY <2>1, <2>2, Processes DEF Failures, CannotSend, BoundTo, Sockets, Open
    <3>. QED
      BY <1>5, <2>1, <2>2, <3>1 DEF SendFails, CannotSend
  <2>3. CASE how = "refused"
    <3>1. st[r] \in {"posted", "open", "counted"}
      BY <2>1, <2>3 DEF Failures, MayBeRefused, Begins
    <3>. QED
      BY <1>5, <2>1, <2>3, <3>1 DEF SendFails
  <2>. QED
    BY <2>1, <2>2, <2>3 DEF Failures
<1>6. CASE SupervisorAborts(r)
  BY <1>6, AbortFacts DEF SupervisorAborts
<1>7. CASE MethodEnds(r)
  BY <1>7 DEF MethodEnds
<1>. QED
  BY <1>1, <1>2, <1>3, <1>4, <1>5, <1>6, <1>7 DEF Answering

-----------------------------------------------------------------------------
(* Sockets and their names.                                                *)

\* A client's name is nobody else's.
LEMMA NamesApart ==
  ASSUME NEW q \in Requests, NEW r \in Requests, q # r, ~IsInvoke(q) \/ ~IsInvoke(r),
         NEW m \in Names(q), NEW n \in Names(r)
  PROVE  m # n
<1>1. m[1] = Requester(q) /\ n[1] = Requester(r)
  <2>1. \A p \in Requests : \A k \in Names(p) : k[1] = Requester(p)
    <3>1. TAKE p \in Requests
    <3>2. CASE IsInvoke(p)
      <4>1. Requester(p) = Sup /\ Names(p) = {<<Sup, n1>> : n1 \in Rnd}
        BY <3>2, Processes DEF Names
      <4>. QED
        BY <4>1
    <3>3. CASE ~IsInvoke(p)
      <4>1. Names(p) = {<<Requester(p), 1>>}
        BY <3>3 DEF Names
      <4>. QED
        BY <4>1
    <3>. QED
      BY <3>2, <3>3
  <2>. QED
    BY <2>1
<1>2. Requester(q) # Requester(r)
  BY OthersProcesses
<1>. QED
  BY <1>1, <1>2

\* No step but Bind(r) opens a socket.
LEMMA OpenRequesting ==
  ASSUME TypeOK, Exchange, NEW r \in Requests, Requesting(r), ~Bind(r), NEW q \in Requests
  PROVE  Open(Sock(q))' => Open(Sock(q))
<1>. SUFFICES ASSUME NEW p \in Procs, Sock(q) \in fds'[p], Sock(q) \notin fds[p]
              PROVE  \E o \in Procs : Sock(q) \in fds[o]
  BY DEF Open
<1>. USE Processes DEF TypeOK, Has, Closes
<1>1. CASE UNCHANGED fds
  BY <1>1
<1>2. CASE Fork(r)
  BY <1>2 DEF Fork
<1>3. CASE ReceiveFds(r)
  <2>1. Head(inbox[r]).fds = RequesterEnds(r)
    BY <1>3, HeadTailProperties DEF ReceiveFds, Datagram, Exchange, ExchangeOf, Ends
  <2>2. Sock(q) \notin RequesterEnds(r)
    BY Sorts, OthersDescriptors
  <2>. QED
    BY <1>3, <2>1, <2>2 DEF ReceiveFds
<1>4. CASE ClientCannotSend(r)
  BY <1>4 DEF ClientCannotSend
<1>5. CASE ForkFails(r)
  BY <1>5 DEF ForkFails
<1>6. CASE SenderInterrupted(r)
  BY <1>6 DEF SenderInterrupted
<1>7. CASE Wrap(r)
  BY <1>7 DEF Wrap, Unwanted
<1>8. CASE WrapFails(r)
  BY <1>8 DEF WrapFails
<1>9. CASE EndOfStream(r)
  BY <1>9 DEF EndOfStream
<1>10. CASE ClientLeaves(r)
  BY <1>10 DEF ClientLeaves
<1>11. CASE ReceiveFails(r)
  BY <1>11 DEF ReceiveFails
<1>. QED
  BY <1>1, <1>2, <1>3, <1>4, <1>5, <1>6, <1>7, <1>8, <1>9, <1>10, <1>11
  DEF Requesting, NoSocket, Refuse, ClientSends, ReceivePid, SenderReaped

LEMMA OpenSending ==
  ASSUME TypeOK, NEW r \in Requests, Sending(r), NEW q \in Requests
  PROVE  Open(Sock(q))' => Open(Sock(q))
<1>. SUFFICES ASSUME NEW p \in Procs, Sock(q) \in fds'[p], Sock(q) \notin fds[p]
              PROVE  FALSE
  BY DEF Open
<1>. QED
  BY Processes DEF TypeOK, Sending, SenderPosts, SenderEnds

LEMMA OpenAnswering ==
  ASSUME TypeOK, NEW r \in Requests, Answering(r), NEW q \in Requests
  PROVE  Open(Sock(q))' => Open(Sock(q))
<1>. SUFFICES ASSUME NEW p \in Procs, Sock(q) \in fds'[p], Sock(q) \notin fds[p]
              PROVE  FALSE
  BY DEF Open
<1>. USE Processes DEF TypeOK, Has, Closes
<1>1. CASE OpenPipes(r)
  <2>1. Sock(q) \notin RequesterEnds(r) \cup ExecutorEnds(r)
    BY Sorts, OthersDescriptors
  <2>. QED
    BY <1>1, <2>1 DEF OpenPipes, Begins
<1>. QED
  BY <1>1 DEF Answering, Drop, SendPid, SendFds, SendFails, SupervisorAborts, MethodEnds

\* Requesters keep their sockets until they have been answered.
KeepsSocket(q) == pc[q] \in {"send", "recv", "recv2"} => Sock(q) \in fds[Requester(q)]

LEMMA KeepRequesting ==
  ASSUME TypeOK, Exchange, NEW r \in Requests, Requesting(r), NEW q \in Requests, KeepsSocket(q)
  PROVE  KeepsSocket(q)'
<1>. USE Processes, WishStays DEF TypeOK, KeepsSocket, Has, Closes, Goto
<1>1. CASE Bind(r)
  <2>1. \/ UNCHANGED fds /\ pc' = [pc EXCEPT ![r] = "failed"]
        \/ Has(Requester(r), {Sock(r)}) /\ pc' = [pc EXCEPT ![r] = "send"]
    BY <1>1 DEF Bind
  <2>2. wish' = wish
    BY <1>1 DEF Bind
  <2>3. Requester(q)' = Requester(q)
    BY <2>2
  <2>4. CASE UNCHANGED fds /\ pc' = [pc EXCEPT ![r] = "failed"]
    BY <2>3, <2>4
  <2>5. CASE Has(Requester(r), {Sock(r)}) /\ pc' = [pc EXCEPT ![r] = "send"]
    BY <2>3, <2>5
  <2>. QED
    BY <2>1, <2>4, <2>5
<1>2. CASE Refuse(r)
  BY <1>2 DEF Refuse
<1>3. CASE ClientSends(r)
  BY <1>3 DEF ClientSends
<1>4. CASE ReceivePid(r)
  BY <1>4 DEF ReceivePid
<1>5. CASE SenderReaped(r)
  BY <1>5 DEF SenderReaped
<1>6. CASE Fork(r)
  <2>1. <<"sender", r>> # Requester(q)
    BY OthersProcesses
  <2>. QED
    BY <1>6, <2>1 DEF Fork
<1>7. q # r => Sock(q) # Sock(r) /\ Sock(q) \notin RequesterEnds(r)
  BY Sorts, OthersDescriptors
<1>8. Unwanted(r) \subseteq RequesterEnds(r)
  BY DEF Unwanted
<1>9. CASE ForkFails(r)
  BY <1>9, <1>7, <1>8 DEF ForkFails
<1>10. CASE ReceiveFds(r)
  BY <1>10, <1>7, <1>8 DEF ReceiveFds
<1>11. CASE SenderInterrupted(r)
  BY <1>11, <1>7, <1>8 DEF SenderInterrupted
<1>12. CASE Wrap(r)
  BY <1>12, <1>7, <1>8 DEF Wrap
<1>13. CASE WrapFails(r)
  BY <1>13, <1>7, <1>8 DEF WrapFails
<1>14. CASE EndOfStream(r)
  BY <1>14, <1>7, <1>8 DEF EndOfStream
<1>15. CASE ClientCannotSend(r)
  <2>1. q # r => Requester(q) # Requester(r)
    BY <1>15, OthersProcesses DEF ClientCannotSend
  <2>. QED
    BY <1>15, <2>1 DEF ClientCannotSend
<1>16. CASE ClientLeaves(r)
  <2>1. q # r => Requester(q) # Requester(r)
    BY <1>16, OthersProcesses DEF ClientLeaves
  <2>. QED
    BY <1>16, <2>1 DEF ClientLeaves
<1>17. CASE NoSocket(r)
  BY <1>17 DEF NoSocket
<1>18. CASE ReceiveFails(r)
  BY <1>18, <1>7 DEF ReceiveFails
<1>. QED
  BY <1>1, <1>2, <1>3, <1>4, <1>5, <1>6, <1>7, <1>8, <1>9, <1>10, <1>11, <1>12, <1>13, <1>14, <1>15, <1>16, <1>17,
     <1>18 DEF Requesting

LEMMA KeepSending ==
  ASSUME TypeOK, NEW r \in Requests, Sending(r), NEW q \in Requests, KeepsSocket(q)
  PROVE  KeepsSocket(q)'
<1>1. <<"sender", r>> # Requester(q)
  BY Processes, OthersProcesses
<1>. QED
  BY ZenonT(60), <1>1, Processes, WishStays DEF TypeOK, KeepsSocket, Sending, SenderPosts, SenderEnds

LEMMA KeepAnswering ==
  ASSUME TypeOK, NEW r \in Requests, Answering(r), NEW q \in Requests, KeepsSocket(q)
  PROVE  KeepsSocket(q)'
<1>. USE Processes, WishStays DEF TypeOK, KeepsSocket
<1>1. CASE SupervisorAborts(r)
  BY <1>1 DEF SupervisorAborts, Failures
<1>2. CASE ~SupervisorAborts(r)
  <2>1. Sock(q) \notin RequesterEnds(r) \cup ExecutorEnds(r)
    BY Sorts, OthersDescriptors
  <2>. USE <2>1 DEF Has, Closes
  <2>2. CASE Drop(r)
    BY <2>2 DEF Drop
  <2>3. CASE OpenPipes(r)
    BY <2>3 DEF OpenPipes, Begins
  <2>4. CASE SendPid(r)
    BY <2>4 DEF SendPid
  <2>5. CASE SendFds(r)
    BY <2>5 DEF SendFds, PassedOn
  <2>6. CASE SendFails(r)
    BY <2>6 DEF SendFails, Failures
  <2>7. CASE MethodEnds(r)
    BY <2>7 DEF MethodEnds, ClosedAtEnd
  <2>. QED
    BY <1>2, <2>2, <2>3, <2>4, <2>5, <2>6, <2>7 DEF Answering
<1>. QED
  BY <1>1, <1>2

\* Whoever is awaited and not gone has a socket, or is a client that has left.
LEMMA AwaitedOpen ==
  ASSUME TypeOK, Phases, Sockets, NEW q \in Requests, Awaited(q), supUp
  PROVE  Open(Sock(q)) \/ ~IsInvoke(q)
BY Processes DEF TypeOK, Phases, Sockets, Open

\* A name that Bind(r) takes leads to nobody else.
LEMMA BoundAlone ==
  ASSUME TypeOK, Phases, Sockets, NEW r \in Requests, Bind(r), pc'[r] = "send",
         NEW q \in Requests, q # r, Open(Sock(q)) \/ Awaited(q)
  PROVE  name'[r] \in Names(r) /\ name[q] # name'[r]
<1>1. PICK n \in Names(r) : ~InUse(n) /\ name' = [name EXCEPT ![r] = n]
  BY DEF Bind, Goto, TypeOK
<1>2. name[q] \in Names(q)
  BY DEF Sockets
<1>3. name'[r] = n
  BY <1>1 DEF TypeOK
<1>4. CASE ~IsInvoke(q) \/ ~IsInvoke(r)
  BY <1>2, <1>3, <1>4, NamesApart
<1>5. CASE IsInvoke(q) /\ IsInvoke(r)
  <2>1. supUp
    BY <1>5 DEF Bind
  <2>2. Open(Sock(q))
    BY <1>5, <2>1, AwaitedOpen
  <2>. QED
    BY <1>1, <1>3, <2>2 DEF InUse, BoundTo
<1>. QED
  BY <1>1, <1>3, <1>4, <1>5

\* A step that opens no socket, changes no name and awaits nobody new keeps the names apart.
LEMMA SocketsKept ==
  ASSUME TypeOK, Sockets, wish' = wish, name' = name,
         \A q \in Requests : Open(Sock(q))' => Open(Sock(q)),
         \A q \in Requests : Awaited(q)' => Awaited(q) \/ Open(Sock(q)),
         \A q \in Requests : pc[q] # "start" => pc'[q] # "start",
         \A q \in Requests : KeepsSocket(q)'
  PROVE  Sockets'
BY WishStays DEF Sockets, KeepsSocket

LEMMA SocketsRequesting ==
  ASSUME TypeOK, Phases, Sockets, Exchange, NEW r \in Requests, Requesting(r)
  PROVE  Sockets'
<1>1. wish' = wish /\ \A q \in Requests : KeepsSocket(q)'
  <2>1. wish' = wish
    BY DEF Requesting, Bind, NoSocket, Refuse, ClientSends, ClientCannotSend, Fork, ForkFails, ReceivePid, ReceiveFds, ReceiveFails,
       SenderReaped, SenderInterrupted, Wrap, WrapFails, EndOfStream, ClientLeaves
  <2>2. \A q \in Requests : KeepsSocket(q)
    BY DEF Sockets, KeepsSocket
  <2>. QED
    BY <2>1, <2>2, KeepRequesting
<1>2. CASE Bind(r)
  <2>1. \A q \in Requests : Awaited(q)' <=> Awaited(q)
    BY <1>2 DEF Bind, Awaited
  <2>2. ~Awaited(r) /\ ~Open(Sock(r)) /\ pc[r] = "start"
    BY <1>2 DEF Bind, Phases, Awaited, Sockets
  <2>3. CASE pc' = [pc EXCEPT ![r] = "failed"] /\ UNCHANGED <<name, fds>>
    <3>1. \A q \in Requests : Open(Sock(q))' => Open(Sock(q))
      BY <2>3 DEF Open
    <3>. QED
      BY <1>1, <2>1, <2>3, <3>1, SocketsKept DEF TypeOK
  <2>4. CASE pc' = [pc EXCEPT ![r] = "send"] /\ Has(Requester(r), {Sock(r)})
    <3>1. \A q \in Requests : q # r => (Open(Sock(q))' => Open(Sock(q)))
      BY <2>4, Sorts, OthersDescriptors, Processes DEF Open, Has, TypeOK
    <3>2. \A q \in Requests : q # r => name'[q] = name[q]
      BY <1>2 DEF Bind, TypeOK
    <3>3. \A q \in Requests : q # r /\ (Open(Sock(q)) \/ Awaited(q)) => name'[r] \in Names(r) /\ name[q] # name'[r]
      BY <1>2, <2>4, BoundAlone DEF TypeOK
    <3>4. name'[r] \in Names(r) /\ pc'[r] = "send"
      BY <1>2, <2>4 DEF Bind, Goto, TypeOK
    <3>5. \A q \in Requests : q # r => pc'[q] = pc[q]
      BY <2>4 DEF TypeOK
    <3>. QED
      BY <1>1, <2>1, <2>2, <3>1, <3>2, <3>3, <3>4, <3>5, WishStays DEF Sockets, KeepsSocket
  <2>. QED
    BY <1>2, <2>3, <2>4 DEF Bind, Goto
<1>3. CASE ~Bind(r)
  <2>1. \A q \in Requests : Open(Sock(q))' => Open(Sock(q))
    BY <1>3, OpenRequesting
  <2>2. \A q \in Requests : Awaited(q)' => Awaited(q) \/ Open(Sock(q))
    <3>1. CASE ClientSends(r) \/ Fork(r)
      <4>1. Open(Sock(r))
        BY <3>1, Processes DEF ClientSends, Fork, Sockets, Open
      <4>. QED
        BY <3>1, <4>1 DEF ClientSends, Fork, Awaited, TypeOK, Execution
    <3>2. CASE UNCHANGED <<sender, st>>
      BY <3>2 DEF Awaited
    <3>. QED
      BY <1>3, <3>1, <3>2 DEF Requesting, NoSocket, Refuse, ClientCannotSend, ForkFails, ReceivePid, ReceiveFds, ReceiveFails,
         SenderReaped, SenderInterrupted, Wrap, WrapFails, EndOfStream, ClientLeaves
  <2>3. name' = name
    BY <1>3 DEF Requesting, NoSocket, Refuse, ClientSends, ClientCannotSend, Fork, ForkFails, ReceivePid, ReceiveFds, ReceiveFails,
       SenderReaped, SenderInterrupted, Wrap, WrapFails, EndOfStream, ClientLeaves
  <2>4. \A q \in Requests : pc[q] # "start" => pc'[q] # "start"
    BY <1>3 DEF TypeOK, Goto, Requesting, NoSocket, Refuse, ClientSends, ClientCannotSend, Fork, ForkFails, ReceivePid,
       ReceiveFds, ReceiveFails, SenderReaped, SenderInterrupted, Wrap, WrapFails, EndOfStream, ClientLeaves
  <2>. QED
    BY <1>1, <2>1, <2>2, <2>3, <2>4, SocketsKept
<1>. QED
  BY <1>2, <1>3

LEMMA SocketsSending ==
  ASSUME TypeOK, Sockets, NEW r \in Requests, Sending(r)
  PROVE  Sockets'
<1>1. wish' = wish /\ name' = name /\ pc' = pc
  BY DEF Sending, SenderPosts, SenderEnds
<1>2. \A q \in Requests : Awaited(q)' => Awaited(q)
  BY DEF Sending, SenderPosts, SenderEnds, Awaited, TypeOK
<1>3. \A q \in Requests : KeepsSocket(q)'
  BY KeepSending DEF Sockets, KeepsSocket
<1>. QED
  BY <1>1, <1>2, <1>3, OpenSending, SocketsKept

LEMMA SocketsAnswering ==
  ASSUME TypeOK, Sockets, NEW r \in Requests, Answering(r)
  PROVE  Sockets'
<1>. USE DEF Answering, Drop, OpenPipes, SendPid, SendFds, SendFails, SupervisorAborts, MethodEnds
<1>1. wish' = wish /\ name' = name
  OBVIOUS
<1>2. \A q \in Requests : Awaited(q)' => Awaited(q)
  <2>1. CASE SupervisorAborts(r)
    BY <2>1, AbortFacts DEF Awaited
  <2>2. CASE SendFails(r)
    <3>1. PICK how \in Failures(r) : Execution(r, how)
      BY <2>2 DEF SendFails
    <3>. QED
      BY <2>2, <3>1, FailureFacts DEF SendFails, Awaited, TypeOK, Execution
  <2>3. CASE ~SupervisorAborts(r) /\ ~SendFails(r)
    BY <2>3 DEF Awaited, TypeOK, Execution, Executing, Begins
  <2>. QED
    BY <2>1, <2>2, <2>3
<1>3. \A q \in Requests : KeepsSocket(q)'
  BY KeepAnswering DEF Sockets, KeepsSocket
<1>4. \A q \in Requests : pc[q] # "start" => pc'[q] # "start"
  BY DEF TypeOK
<1>. QED
  BY <1>1, <1>2, <1>3, <1>4, OpenAnswering, SocketsKept

-----------------------------------------------------------------------------
(* What has been sent and received.                                        *)

\* Sequences of one and of two.
LEMMA Pairs ==
  ASSUME NEW a, NEW b
  PROVE  /\ Tail(<<a>>) = <<>> /\ Tail(<<a, b>>) = <<b>>
         /\ Append(<<>>, a) = <<a>> /\ Append(<<a>>, b) = <<a, b>>
<1>1. Tail(<<a>>) = <<>> /\ Tail(<<a, b>>) = <<b>>
  OBVIOUS
<1>2. Append(<<>>, a) = <<a>>
  OBVIOUS
<1>3. Append(<<a>>, b) = <<a, b>>
  <2>. DEFINE S == {a, b}
              s == <<a>>
              t == <<a, b>>
              u == Append(s, b)
  <2>1. s \in Seq(S) /\ t \in Seq(S) /\ b \in S /\ s # <<>>
    OBVIOUS
  <2>2. Len(s) = 1 /\ Len(t) = 2 /\ Head(s) = t[1] /\ t[2] = b
    OBVIOUS
  <2>. HIDE DEF S, s, t
  <2>3. u \in Seq(S)
    BY <2>1, AppendProperties
  <2>4. Len(u) = Len(s) + 1 /\ u[Len(s) + 1] = b
    BY <2>1, AppendProperties
  <2>5. Head(u) = Head(s)
    BY <2>1, HeadTailAppend, Zenon
  <2>. HIDE DEF u
  <2>6. Len(u) = 2 /\ u[2] = t[2]
    BY <2>2, <2>4
  <2>7. u[1] = t[1]
    BY <2>2, <2>3, <2>5, <2>6
  <2>8. \A i \in 1..2 : u[i] = t[i]
    BY <2>6, <2>7
  <2>9. u = t
    BY <2>1, <2>2, <2>3, <2>6, <2>8, SeqEqual
  <2>. QED
    BY <2>9 DEF s, t, u
<1>. QED
  BY <1>1, <1>2, <1>3

LEMMA ExchangeRequesting ==
  ASSUME TypeOK, Phases, Exchange, WriteEndHeld, NEW r \in Requests, Requesting(r)
  PROVE  Exchange'
<1>. USE WishStays DEF TypeOK, Exchange, ExchangeOf, Goto
<1>1. CASE Bind(r)
  BY <1>1 DEF Bind, Phases
<1>2. CASE Refuse(r)
  BY <1>2 DEF Refuse
<1>3. CASE ClientSends(r)
  BY <1>3 DEF ClientSends, Execution, Phases
<1>4. CASE ClientCannotSend(r)
  BY <1>4 DEF ClientCannotSend
<1>5. CASE Fork(r)
  BY <1>5 DEF Fork, Phases
<1>6. CASE ForkFails(r)
  BY <1>6 DEF ForkFails
<1>7. CASE ReceivePid(r)
  <2>1. Head(inbox[r]) = Pid(r) /\ st[r] \in {"counted", "failed", "refused"} \cup Sent
    BY <1>7 DEF ReceivePid, Datagram, Sent
  <2>2. \/ Tail(inbox[r]) = <<>> /\ st[r] \in {"counted", "failed", "refused"}
        \/ Tail(inbox[r]) = <<Ends(r)>> /\ st[r] \in Sent
    <3>1. CASE inbox[r] = <<Pid(r)>> /\ st[r] \in {"counted", "failed", "refused"}
      BY <3>1, Pairs
    <3>2. CASE inbox[r] = <<Pid(r), Ends(r)>> /\ st[r] \in Sent
      BY <3>2, Pairs
    <3>. QED
      BY <1>7, <3>1, <3>2 DEF ReceivePid, Datagram
  <2>. QED
    BY <1>7, <2>1, <2>2 DEF ReceivePid, Datagram
<1>8. CASE ReceiveFds(r)
  <2>1. Head(inbox[r]) = Ends(r) /\ st[r] \in Sent /\ told[r] = Pid(r)
    BY <1>8 DEF ReceiveFds, Datagram
  <2>2. Head(inbox[r]).fds = RequesterEnds(r)
    BY <2>1 DEF Ends
  <2>. QED
    BY <1>8, <2>1, <2>2 DEF ReceiveFds, Datagram
<1>9. CASE SenderReaped(r)
  BY <1>9 DEF SenderReaped
<1>10. CASE SenderInterrupted(r)
  BY <1>10 DEF SenderInterrupted
<1>11. CASE Wrap(r)
  BY <1>11 DEF Wrap
<1>12. CASE WrapFails(r)
  BY <1>12 DEF WrapFails
<1>13. CASE EndOfStream(r)
  <2>1. st[r] # "running"
    BY <1>13, Processes DEF EndOfStream, Open, WriteEndHeld, Executing
  <2>. QED
    BY <1>13, <2>1 DEF EndOfStream
<1>14. CASE ClientLeaves(r)
  BY <1>14 DEF ClientLeaves
<1>15. CASE NoSocket(r)
  BY <1>15 DEF NoSocket
<1>16. CASE ReceiveFails(r)
  BY <1>16 DEF ReceiveFails, Datagram
<1>. QED
  BY <1>1, <1>2, <1>3, <1>4, <1>5, <1>6, <1>7, <1>8, <1>9, <1>10, <1>11, <1>12, <1>13, <1>14, <1>15, <1>16
  DEF Requesting

LEMMA ExchangeSending ==
  ASSUME TypeOK, Phases, Exchange, NEW r \in Requests, Sending(r)
  PROVE  Exchange'
<1>. USE WishStays DEF TypeOK, Exchange, ExchangeOf, Phases
<1>1. CASE SenderPosts(r)
  <2>1. CASE st' = st
    BY <1>1, <2>1 DEF SenderPosts
  <2>2. CASE st' = [st EXCEPT ![r] = "posted"]
    <3>1. st[r] = "none" /\ IsInvoke(r) /\ pc[r] \in {"recv", "recv2", "gone"}
      BY <1>1 DEF SenderPosts, Awaited
    <3>. QED
      BY <1>1, <2>2, <3>1 DEF SenderPosts, Sent
  <2>. QED
    BY <1>1, <2>1, <2>2 DEF SenderPosts
<1>2. ASSUME NEW how \in {"exited", "killed"}, SenderEnds(r, how)
      PROVE  Exchange'
  BY SMTT(30), <1>2 DEF SenderEnds
<1>. QED
  BY <1>1, <1>2 DEF Sending

LEMMA ExchangeAnswering ==
  ASSUME TypeOK, Phases, Sockets, Exchange, NEW r \in Requests, Answering(r)
  PROVE  Exchange'
<1>. USE WishStays DEF TypeOK, Exchange, ExchangeOf, Sent, Execution, Executing
<1>1. CASE Drop(r)
  BY <1>1 DEF Drop
<1>2. CASE OpenPipes(r)
  BY <1>2 DEF OpenPipes, Begins
<1>3. CASE SendPid(r)
  <2>1. inbox' = [inbox EXCEPT ![r] = Append(@, Pid(r))]
    BY <1>3, DeliverOwn, DatagramFacts DEF SendPid, Pid
  <2>2. Append(<<>>, Pid(r)) = <<Pid(r)>>
    BY Pairs
  <2>3. st[r] = "open" /\ st' = [st EXCEPT ![r] = "counted"] /\ wish' = wish /\ UNCHANGED <<pc, told, got>>
    BY <1>3 DEF SendPid
  <2>4. pc[r] = "recv" => inbox[r] = <<>>
    BY <2>3
  <2>5. pc[r] \notin {"recv2", "waitpid", "wrap", "read", "done"}
    BY <2>3
  <2>6. \A q \in Requests \ {r} : inbox'[q] = inbox[q] /\ st'[q] = st[q]
    BY <2>1, <2>3
  <2>7. st'[r] = "counted" /\ (pc[r] = "recv" => inbox'[r] = <<Pid(r)>>)
    BY <2>1, <2>2, <2>3, <2>4
  <2>8. \A q \in Requests : Pid(q)' = Pid(q) /\ Ends(q)' = Ends(q) /\ RequesterEnds(q)' = RequesterEnds(q)
    BY <2>3
  <2>. SUFFICES ASSUME NEW q \in Requests
                PROVE  ExchangeOf(q)'
    BY DEF Exchange
  <2>9. ExchangeOf(q)
    BY DEF ExchangeOf
  <2>. HIDE DEF Exchange, ExchangeOf
  <2>10. CASE q # r
    BY <2>3, <2>6, <2>8, <2>9, <2>10 DEF ExchangeOf
  <2>11. CASE q = r
    BY <2>3, <2>5, <2>7, <2>8, <2>9, <2>11 DEF ExchangeOf
  <2>. QED
    BY <2>10, <2>11
<1>4. CASE SendFds(r)
  <2>1. inbox' = [inbox EXCEPT ![r] = Append(@, Ends(r))]
    BY <1>4, DeliverOwn, DatagramFacts DEF SendFds, Ends
  <2>2. Append(<<>>, Ends(r)) = <<Ends(r)>> /\ Append(<<Pid(r)>>, Ends(r)) = <<Pid(r), Ends(r)>>
    BY Pairs
  <2>3. st[r] = "counted" /\ st' = [st EXCEPT ![r] = "running"] /\ wish' = wish /\ UNCHANGED <<pc, told, got>>
    BY <1>4 DEF SendFds
  <2>4. pc[r] = "recv" => inbox[r] = <<Pid(r)>>
    BY <2>3
  <2>5. pc[r] = "recv2" => inbox[r] = <<>>
    BY <2>3
  <2>6. \A q \in Requests \ {r} : inbox'[q] = inbox[q] /\ st'[q] = st[q]
    BY <2>1, <2>3
  <2>7. st'[r] = "running" /\ inbox'[r] = Append(inbox[r], Ends(r))
    BY <2>1, <2>3
  <2>8. pc[r] = "recv" => inbox'[r] = <<Pid(r), Ends(r)>>
    BY <2>2, <2>4, <2>7
  <2>9. pc[r] = "recv2" => inbox'[r] = <<Ends(r)>>
    BY <2>2, <2>5, <2>7
  <2>10. \A q \in Requests : Pid(q)' = Pid(q) /\ Ends(q)' = Ends(q) /\ RequesterEnds(q)' = RequesterEnds(q)
    BY <2>3
  <2>11. pc[r] \notin {"waitpid", "wrap", "read", "done"}
    BY <2>3
  <2>. SUFFICES ASSUME NEW q \in Requests
                PROVE  ExchangeOf(q)'
    BY DEF Exchange
  <2>12. ExchangeOf(q)
    BY DEF ExchangeOf
  <2>. HIDE DEF Exchange, ExchangeOf
  <2>13. CASE q # r
    BY <2>3, <2>6, <2>10, <2>12, <2>13 DEF ExchangeOf
  <2>14. CASE q = r
    BY <2>3, <2>7, <2>8, <2>9, <2>10, <2>11, <2>12, <2>14 DEF ExchangeOf
  <2>. QED
    BY <2>13, <2>14
<1>5. CASE SendFails(r)
  <2>1. PICK how \in Failures(r) : Execution(r, how)
    BY <1>5 DEF SendFails
  <2>2. CASE how = "failed"
    <3>1. CannotSend(r) /\ pc[r] \notin {"recv", "recv2"}
      BY <2>1, <2>2, Processes DEF Failures, CannotSend, BoundTo, Sockets, Open
    <3>. QED
      BY <1>5, <2>1, <2>2, <3>1 DEF SendFails, CannotSend
  <2>3. CASE how = "refused"
    <3>1. st[r] \in {"posted", "open", "counted"}
      BY <2>1, <2>3 DEF Failures, MayBeRefused, Begins
    <3>. QED
      BY <1>5, <2>1, <2>3, <3>1 DEF SendFails
  <2>. QED
    BY <2>1, <2>2, <2>3 DEF Failures
<1>6. CASE SupervisorAborts(r)
  <2>1. /\ UNCHANGED <<wish, told, got, inbox>>
        /\ \A q \in Requests : pc'[q] \in {pc[q], "gone"}
    BY <1>6 DEF SupervisorAborts
  <2>2. \A q \in Requests : Pid(q)' = Pid(q) /\ Ends(q)' = Ends(q) /\ RequesterEnds(q)' = RequesterEnds(q)
    BY <2>1
  <2>. SUFFICES ASSUME NEW q \in Requests
                PROVE  ExchangeOf(q)'
    BY DEF Exchange
  <2>3. \/ st'[q] = st[q]
        \/ st'[q] = "refused" /\ st[q] \in {"posted", "open", "counted"}
        \/ st'[q] = "failed" /\ st[q] \in {"posted", "open", "counted", "running"}
    BY <1>6, AbortFacts
  <2>4. ExchangeOf(q)
    BY DEF ExchangeOf
  <2>. HIDE DEF Exchange, ExchangeOf
  <2>. QED
    BY <2>1, <2>2, <2>3, <2>4 DEF ExchangeOf
<1>7. CASE MethodEnds(r)
  BY <1>7 DEF MethodEnds
<1>. QED
  BY <1>1, <1>2, <1>3, <1>4, <1>5, <1>6, <1>7 DEF Answering

-----------------------------------------------------------------------------
(* Write ends of responses.                                                *)

LEMMA HeldRequesting ==
  ASSUME TypeOK, Phases, Exchange, WriteEndHeld, NEW r \in Requests, Requesting(r)
  PROVE  WriteEndHeld'
<1>. SUFFICES ASSUME NEW q \in Requests, st'[q] \in Executing
              PROVE  (WriteRsp(q) \in fds[Executor(q)])'
  BY DEF WriteEndHeld
<1>1. st[q] \in Executing /\ wish' = wish
  BY DEF TypeOK, Execution, Executing, Requesting, Bind, NoSocket, Refuse, ClientSends, ClientCannotSend, Fork, ForkFails,
     ReceivePid, ReceiveFds, ReceiveFails, SenderReaped, SenderInterrupted, Wrap, WrapFails, EndOfStream, ClientLeaves
<1>2. WriteRsp(q) \in fds[Executor(q)] /\ Executor(q)' = Executor(q)
  BY <1>1, WishStays DEF WriteEndHeld
<1>3. WriteRsp(q) # Sock(r) /\ WriteRsp(q) \notin RequesterEnds(r)
  BY Sorts, OthersDescriptors
<1>4. Executor(q) # <<"sender", r>> /\ (~IsInvoke(r) => Executor(q) # Requester(r))
  BY Processes, OthersProcesses
<1>. USE <1>2, <1>3, <1>4, Processes DEF TypeOK, Has, Closes
<1>5. CASE Bind(r)
  <2>1. UNCHANGED fds \/ Has(Requester(r), {Sock(r)})
    BY <1>5 DEF Bind
  <2>2. CASE UNCHANGED fds
    BY <2>2
  <2>3. CASE Has(Requester(r), {Sock(r)})
    BY <2>3
  <2>. QED
    BY <2>1, <2>2, <2>3
<1>6. CASE UNCHANGED fds
  BY <1>6
<1>7. CASE ClientCannotSend(r)
  BY <1>7 DEF ClientCannotSend
<1>8. CASE Fork(r)
  BY <1>8 DEF Fork
<1>9. CASE ForkFails(r)
  BY <1>9 DEF ForkFails
<1>10. CASE ReceiveFds(r)
  BY <1>10 DEF ReceiveFds
<1>11. CASE SenderInterrupted(r)
  BY <1>11 DEF SenderInterrupted
<1>12. CASE Wrap(r)
  BY <1>12 DEF Wrap, Unwanted
<1>13. CASE WrapFails(r)
  BY <1>13 DEF WrapFails
<1>14. CASE EndOfStream(r)
  BY <1>14 DEF EndOfStream
<1>15. CASE ClientLeaves(r)
  BY <1>15 DEF ClientLeaves
<1>16. CASE ReceiveFails(r)
  BY <1>16 DEF ReceiveFails
<1>. QED
  BY <1>5, <1>6, <1>7, <1>8, <1>9, <1>10, <1>11, <1>12, <1>13, <1>14, <1>15, <1>16
  DEF Requesting, NoSocket, Refuse, ClientSends, ReceivePid, SenderReaped

LEMMA HeldSending ==
  ASSUME TypeOK, WriteEndHeld, NEW r \in Requests, Sending(r)
  PROVE  WriteEndHeld'
<1>. SUFFICES ASSUME NEW q \in Requests, st'[q] \in Executing
              PROVE  (WriteRsp(q) \in fds[Executor(q)])'
  BY DEF WriteEndHeld
<1>1. st[q] \in Executing /\ wish' = wish
  BY DEF TypeOK, Executing, Sending, SenderPosts, SenderEnds
<1>2. WriteRsp(q) \in fds[Executor(q)] /\ Executor(q)' = Executor(q)
  BY <1>1, WishStays DEF WriteEndHeld
<1>3. Executor(q) # <<"sender", r>>
  BY Processes, OthersProcesses
<1>. QED
  BY <1>2, <1>3, Processes DEF TypeOK, Sending, SenderPosts, SenderEnds

LEMMA HeldAnswering ==
  ASSUME TypeOK, WriteEndHeld, NEW r \in Requests, Answering(r)
  PROVE  WriteEndHeld'
<1>. SUFFICES ASSUME NEW q \in Requests, st'[q] \in Executing
              PROVE  (WriteRsp(q) \in fds[Executor(q)])'
  BY DEF WriteEndHeld
<1>1. wish' = wish /\ Executor(q)' = Executor(q)
  BY WishStays DEF Answering, Drop, OpenPipes, SendPid, SendFds, SendFails, SupervisorAborts, MethodEnds
<1>2. q # r => WriteRsp(q) \notin RequesterEnds(r) \cup ExecutorEnds(r)
  BY Sorts, OthersDescriptors
<1>3. WriteRsp(q) \in ExecutorEnds(q) /\ WriteRsp(q) \notin RequesterEnds(q)
  BY Sorts
<1>4. st[q] \in Executing => WriteRsp(q) \in fds[Executor(q)]
  BY DEF WriteEndHeld
<1>. USE <1>1, <1>2, <1>3, <1>4, Processes DEF TypeOK, Has, Closes, Execution, Executing
<1>5. CASE Drop(r)
  BY <1>5 DEF Drop
<1>6. CASE OpenPipes(r)
  BY <1>6 DEF OpenPipes, Begins
<1>7. CASE SendPid(r)
  BY <1>7 DEF SendPid
<1>8. CASE SendFds(r)
  BY <1>8 DEF SendFds, PassedOn
<1>9. CASE SendFails(r)
  BY <1>9 DEF SendFails, Failures
<1>10. CASE SupervisorAborts(r)
  BY <1>10 DEF SupervisorAborts, Failures
<1>11. CASE MethodEnds(r)
  BY <1>11 DEF MethodEnds, ClosedAtEnd
<1>. QED
  BY <1>5, <1>6, <1>7, <1>8, <1>9, <1>10, <1>11 DEF Answering


-----------------------------------------------------------------------------
(* What the supervisor's descriptors are there for.                        *)

OfRequest(r) == {Sock(r)} \cup RequesterEnds(r) \cup ExecutorEnds(r)

AccountedOf(r) ==
  /\ Sock(r) \in fds[Sup] => IsInvoke(r) /\ pc[r] \in {"send", "recv", "recv2"}
  /\ fds[Sup] \cap RequesterEnds(r) # {} =>
       \/ IsInvoke(r) /\ pc[r] \in {"waitpid", "wrap", "read"}
       \/ Executor(r) = Sup /\ st[r] \in {"open", "counted"}
  /\ fds[Sup] \cap ExecutorEnds(r) # {} => Executor(r) = Sup /\ st[r] \in Executing

\* A step for r gives the supervisor descriptors of r only, and leaves the other requests alone.
StepOf(r) ==
  /\ wish' = wish
  /\ fds'[Sup] \subseteq fds[Sup] \cup OfRequest(r)
  /\ \A q \in Requests : q # r => pc'[q] = pc[q] /\ st'[q] = st[q]

LEMMA StepRequesting ==
  ASSUME TypeOK, Exchange, NEW r \in Requests, Requesting(r)
  PROVE  StepOf(r)
<1>. USE Processes DEF TypeOK, StepOf, OfRequest, Has, Closes, Goto, Execution
<1>1. CASE Bind(r)
  <2>1. UNCHANGED fds \/ Has(Requester(r), {Sock(r)})
    BY <1>1 DEF Bind
  <2>2. fds'[Sup] \subseteq fds[Sup] \cup OfRequest(r)
    BY <2>1
  <2>. QED
    BY <1>1, <2>2 DEF Bind
<1>2. CASE Refuse(r)
  BY <1>2 DEF Refuse
<1>3. CASE ClientSends(r)
  BY <1>3 DEF ClientSends
<1>4. CASE ClientCannotSend(r)
  BY <1>4 DEF ClientCannotSend
<1>5. CASE Fork(r)
  BY <1>5 DEF Fork
<1>6. CASE ForkFails(r)
  BY <1>6 DEF ForkFails
<1>7. CASE ReceivePid(r)
  BY <1>7 DEF ReceivePid
<1>8. CASE ReceiveFds(r)
  <2>1. Head(inbox[r]).fds = RequesterEnds(r)
    BY <1>8, HeadTailProperties DEF ReceiveFds, Datagram, Exchange, ExchangeOf, Ends
  <2>. QED
    BY <1>8, <2>1 DEF ReceiveFds
<1>9. CASE SenderReaped(r)
  BY <1>9 DEF SenderReaped
<1>10. CASE SenderInterrupted(r)
  BY <1>10 DEF SenderInterrupted
<1>11. CASE Wrap(r)
  BY <1>11 DEF Wrap
<1>12. CASE WrapFails(r)
  BY <1>12 DEF WrapFails
<1>13. CASE EndOfStream(r)
  BY <1>13 DEF EndOfStream
<1>14. CASE ClientLeaves(r)
  BY <1>14 DEF ClientLeaves
<1>15. CASE NoSocket(r)
  BY <1>15 DEF NoSocket
<1>16. CASE ReceiveFails(r)
  BY <1>16 DEF ReceiveFails
<1>. QED
  BY <1>1, <1>2, <1>3, <1>4, <1>5, <1>6, <1>7, <1>8, <1>9, <1>10, <1>11, <1>12, <1>13, <1>14, <1>15, <1>16
  DEF Requesting

LEMMA StepSending ==
  ASSUME TypeOK, NEW r \in Requests, Sending(r)
  PROVE  StepOf(r)
<1>1. fds'[Sup] = fds[Sup]
  BY Processes DEF TypeOK, Sending, SenderPosts, SenderEnds
<1>2. wish' = wish /\ pc' = pc
  BY DEF Sending, SenderPosts, SenderEnds
<1>3. \A q \in Requests : q # r => st'[q] = st[q]
  BY DEF TypeOK, Sending, SenderPosts, SenderEnds
<1>. QED
  BY <1>1, <1>2, <1>3 DEF StepOf

LEMMA StepAnswering ==
  ASSUME TypeOK, NEW r \in Requests, Answering(r), ~SupervisorAborts(r)
  PROVE  StepOf(r)
<1>. USE Processes DEF TypeOK, StepOf, OfRequest, Has, Closes, Execution
<1>1. CASE Drop(r)
  BY <1>1 DEF Drop
<1>2. CASE OpenPipes(r)
  BY <1>2 DEF OpenPipes, Begins
<1>3. CASE SendPid(r)
  BY <1>3 DEF SendPid
<1>4. CASE SendFds(r)
  BY <1>4 DEF SendFds
<1>5. CASE SendFails(r)
  BY <1>5 DEF SendFails, Failures
<1>6. CASE MethodEnds(r)
  BY <1>6 DEF MethodEnds
<1>. QED
  BY <1>1, <1>2, <1>3, <1>4, <1>5, <1>6 DEF Answering

\* The step's own request.
LEMMA AccountedFrom ==
  ASSUME wish' = wish, NEW r,
         Sock(r) \in fds'[Sup] => IsInvoke(r) /\ pc'[r] \in {"send", "recv", "recv2"},
         fds'[Sup] \cap RequesterEnds(r) # {} =>
           \/ IsInvoke(r) /\ pc'[r] \in {"waitpid", "wrap", "read"}
           \/ Executor(r) = Sup /\ st'[r] \in {"open", "counted"},
         fds'[Sup] \cap ExecutorEnds(r) # {} => Executor(r) = Sup /\ st'[r] \in Executing
  PROVE  AccountedOf(r)'
BY WishStays DEF AccountedOf, Executing

LEMMA AccountedRequesting ==
  ASSUME TypeOK, Phases, Exchange, NEW r \in Requests, AccountedOf(r), Requesting(r)
  PROVE  AccountedOf(r)'
<1>. DEFINE S == fds[Sup]
            T == fds'[Sup]
<1>1. /\ Requester(r) = Sup <=> IsInvoke(r)
      /\ Sock(r) \notin RequesterEnds(r) /\ Sock(r) \notin ExecutorEnds(r)
      /\ RequesterEnds(r) \cap ExecutorEnds(r) = {}
  BY Processes, Sorts
<1>2. Sup \in Procs /\ Requester(r) \in Procs
  BY Processes
<1>3. /\ Sock(r) \in S => IsInvoke(r) /\ pc[r] \in {"send", "recv", "recv2"}
      /\ S \cap RequesterEnds(r) # {} =>
           \/ IsInvoke(r) /\ pc[r] \in {"waitpid", "wrap", "read"}
           \/ Executor(r) = Sup /\ st[r] \in {"open", "counted"}
      /\ S \cap ExecutorEnds(r) # {} => Executor(r) = Sup /\ st[r] \in Executing
  BY DEF AccountedOf
<1>4. IsInvoke(r) /\ pc[r] \notin {"start", "failed", "gone"} => Executor(r) # Sup
  BY Processes DEF Phases
<1>5. wish' = wish
  BY DEF Requesting, Bind, NoSocket, Refuse, ClientSends, ClientCannotSend, Fork, ForkFails, ReceivePid, ReceiveFds, ReceiveFails,
     SenderReaped, SenderInterrupted, Wrap, WrapFails, EndOfStream, ClientLeaves
<1>6. CASE Bind(r)
  <2>1. pc[r] = "start" /\ st[r] = "none" /\ st' = st
    BY <1>6 DEF Bind, Phases
  <2>2. T = S \/ (pc'[r] = "send" /\ T = (IF IsInvoke(r) THEN S \cup {Sock(r)} ELSE S))
    <3>1. \/ UNCHANGED fds
          \/ Has(Requester(r), {Sock(r)}) /\ Goto(r, "send")
      BY <1>6 DEF Bind
    <3>2. CASE UNCHANGED fds
      BY <3>2
    <3>3. CASE Has(Requester(r), {Sock(r)}) /\ Goto(r, "send")
      BY <1>1, <1>2, <3>3 DEF Has, Goto, TypeOK
    <3>. QED
      BY <3>1, <3>2, <3>3
  <2>. HIDE DEF S, T
  <2>3. T \cap RequesterEnds(r) = {} /\ T \cap ExecutorEnds(r) = {}
    BY <1>1, <1>3, <2>1, <2>2 DEF Executing
  <2>4. Sock(r) \in T => IsInvoke(r) /\ pc'[r] = "send"
    BY <1>3, <2>1, <2>2
  <2>. QED
    BY <1>5, <2>3, <2>4, AccountedFrom DEF T
<1>7. CASE ClientSends(r) \/ ReceivePid(r) \/ SenderReaped(r) \/ Refuse(r)
  <2>1. T = S /\ ~(pc[r] \in {"waitpid", "wrap", "read"} /\ pc'[r] \notin {"waitpid", "wrap", "read"})
    BY <1>7 DEF ClientSends, ReceivePid, SenderReaped, Refuse, Goto, TypeOK
  <2>2. pc[r] \in {"send", "recv", "recv2"} => pc'[r] \in {"send", "recv", "recv2"}
    BY <1>7 DEF ClientSends, ReceivePid, SenderReaped, Refuse, Goto, TypeOK
  <2>3. st'[r] = st[r] \/ st[r] = "none"
    BY <1>7 DEF ClientSends, ReceivePid, SenderReaped, Refuse, Phases
  <2>. HIDE DEF S, T
  <2>. QED
    BY <1>3, <1>5, <2>1, <2>2, <2>3, AccountedFrom DEF T, Executing
<1>8. CASE ClientCannotSend(r) \/ ClientLeaves(r)
  <2>1. T = S /\ ~IsInvoke(r) /\ st' = st
    BY <1>1, <1>2, <1>8 DEF ClientCannotSend, ClientLeaves, TypeOK
  <2>. HIDE DEF S, T
  <2>. QED
    BY <1>3, <1>5, <2>1, AccountedFrom DEF T
<1>9. CASE Fork(r)
  <2>1. T = S /\ pc[r] = "send" /\ pc'[r] = "recv" /\ st' = st
    BY <1>2, <1>9, Processes DEF Fork, Goto, TypeOK
  <2>. HIDE DEF S, T
  <2>. QED
    BY <1>3, <1>5, <2>1, AccountedFrom DEF T
<1>10. CASE ForkFails(r)
  <2>1. T = S \ {Sock(r)} /\ pc[r] = "send" /\ pc'[r] = "failed" /\ st' = st
    BY <1>2, <1>10 DEF ForkFails, Closes, Goto, TypeOK
  <2>. HIDE DEF S, T
  <2>. QED
    BY <1>3, <1>5, <2>1, AccountedFrom DEF T
<1>11. CASE ReceiveFds(r)
  <2>1. Head(inbox[r]).fds = RequesterEnds(r)
    BY <1>11, HeadTailProperties DEF TypeOK, ReceiveFds, Datagram, Exchange, ExchangeOf, Ends
  <2>2. T = IF IsInvoke(r) THEN (S \cup RequesterEnds(r)) \ {Sock(r)} ELSE S
    BY <1>1, <1>2, <1>11, <2>1 DEF ReceiveFds, TypeOK
  <2>3. pc[r] = "recv2" /\ st' = st /\ (IsInvoke(r) => pc'[r] = "waitpid")
    BY <1>11 DEF ReceiveFds, Goto, TypeOK
  <2>. HIDE DEF S, T
  <2>4. Sock(r) \notin T
    BY <1>3, <2>2
  <2>5. T \cap RequesterEnds(r) # {} =>
          \/ IsInvoke(r) /\ pc'[r] = "waitpid"
          \/ Executor(r) = Sup /\ st'[r] \in {"open", "counted"}
    <3>1. CASE IsInvoke(r)
      BY <2>3, <3>1
    <3>2. CASE ~IsInvoke(r)
      BY <1>3, <2>2, <2>3, <3>2
    <3>. QED
      BY <3>1, <3>2
  <2>6. T \cap ExecutorEnds(r) # {} => Executor(r) = Sup /\ st'[r] \in Executing
    BY <1>1, <1>3, <2>2, <2>3
  <2>. QED
    BY <1>5, <2>4, <2>5, <2>6, AccountedFrom DEF T
<1>12. CASE SenderInterrupted(r) \/ WrapFails(r)
  <2>1. T = S \ RequesterEnds(r) /\ st' = st /\ pc[r] \in {"waitpid", "wrap"}
    BY <1>2, <1>12 DEF SenderInterrupted, WrapFails, Closes, TypeOK
  <2>. HIDE DEF S, T
  <2>. QED
    BY <1>3, <1>5, <2>1, AccountedFrom DEF T
<1>13. CASE Wrap(r)
  <2>1. T \subseteq S /\ st' = st /\ pc[r] = "wrap" /\ pc'[r] = "read"
    BY <1>2, <1>13 DEF Wrap, Closes, Goto, TypeOK
  <2>. HIDE DEF S, T
  <2>2. Sock(r) \notin T
    BY <1>3, <2>1
  <2>3. T \cap RequesterEnds(r) # {} => S \cap RequesterEnds(r) # {}
    BY <2>1
  <2>4. T \cap ExecutorEnds(r) # {} => S \cap ExecutorEnds(r) # {}
    BY <2>1
  <2>. QED
    BY <1>3, <1>5, <2>1, <2>2, <2>3, <2>4, AccountedFrom DEF T
<1>14. CASE EndOfStream(r)
  <2>1. T = (IF IsInvoke(r) THEN S \ RequesterEnds(r) ELSE S) /\ st' = st /\ pc[r] = "read"
    BY <1>1, <1>2, <1>14 DEF EndOfStream, Closes, TypeOK
  <2>. HIDE DEF S, T
  <2>2. Sock(r) \notin T
    BY <1>3, <2>1
  <2>3. T \cap RequesterEnds(r) # {} => Executor(r) = Sup /\ st[r] \in {"open", "counted"}
    BY <1>3, <2>1
  <2>4. T \cap ExecutorEnds(r) # {} => S \cap ExecutorEnds(r) # {}
    BY <2>1
  <2>. QED
    BY <1>3, <1>5, <2>1, <2>2, <2>3, <2>4, AccountedFrom DEF T
<1>15. CASE NoSocket(r)
  <2>1. T = S /\ pc[r] = "start" /\ st' = st
    BY <1>15 DEF NoSocket
  <2>. HIDE DEF S, T
  <2>. QED
    BY <1>3, <1>5, <2>1, AccountedFrom DEF T
<1>16. CASE ReceiveFails(r)
  <2>1. T = S \ {Sock(r)} /\ pc[r] = "recv2" /\ st' = st
    BY <1>2, <1>16 DEF ReceiveFails, Closes, TypeOK
  <2>. HIDE DEF S, T
  <2>. QED
    BY <1>3, <1>5, <2>1, AccountedFrom DEF T
<1>. QED
  BY <1>6, <1>7, <1>8, <1>9, <1>10, <1>11, <1>12, <1>13, <1>14, <1>15, <1>16 DEF Requesting

LEMMA AccountedSending ==
  ASSUME TypeOK, Phases, NEW r \in Requests, AccountedOf(r), Sending(r)
  PROVE  AccountedOf(r)'
<1>1. fds'[Sup] = fds[Sup] /\ wish' = wish /\ pc' = pc
  BY Processes DEF TypeOK, Sending, SenderPosts, SenderEnds
<1>2. st'[r] = st[r] \/ st[r] = "none"
  BY DEF Phases, Sending, SenderPosts, SenderEnds
<1>. QED
  BY <1>1, <1>2, AccountedFrom DEF AccountedOf, Executing

LEMMA AccountedAnswering ==
  ASSUME TypeOK, Phases, NEW r \in Requests, AccountedOf(r), Answering(r), ~SupervisorAborts(r)
  PROVE  AccountedOf(r)'
<1>. DEFINE S == fds[Sup]
            T == fds'[Sup]
<1>1. /\ Sock(r) \notin RequesterEnds(r) /\ Sock(r) \notin ExecutorEnds(r)
      /\ RequesterEnds(r) \cap ExecutorEnds(r) = {}
      /\ Sup \in Procs /\ Executor(r) \in Procs
  BY Processes, Sorts
<1>2. /\ Sock(r) \in S => IsInvoke(r) /\ pc[r] \in {"send", "recv", "recv2"}
      /\ S \cap RequesterEnds(r) # {} =>
           \/ IsInvoke(r) /\ pc[r] \in {"waitpid", "wrap", "read"}
           \/ Executor(r) = Sup /\ st[r] \in {"open", "counted"}
      /\ S \cap ExecutorEnds(r) # {} => Executor(r) = Sup /\ st[r] \in Executing
  BY DEF AccountedOf
<1>3. wish' = wish /\ pc' = pc
  BY DEF Answering, Drop, OpenPipes, SendPid, SendFds, SendFails, MethodEnds
<1>4. CASE Drop(r)
  <2>1. T = S /\ st[r] = "posted"
    BY <1>4 DEF Drop
  <2>. HIDE DEF S, T
  <2>. QED
    BY <1>2, <1>3, <2>1, AccountedFrom DEF T, Executing
<1>5. CASE OpenPipes(r)
  <2>1. /\ T = IF Executor(r) = Sup THEN S \cup (RequesterEnds(r) \cup ExecutorEnds(r)) ELSE S
        /\ st[r] = "posted" /\ st'[r] = "open"
    BY <1>1, <1>5 DEF OpenPipes, Begins, Has, Execution, TypeOK
  <2>. HIDE DEF S, T
  <2>2. Sock(r) \in T => Sock(r) \in S
    BY <1>1, <2>1
  <2>. QED
    BY <1>2, <1>3, <2>1, <2>2, AccountedFrom DEF T, Executing
<1>6. CASE SendPid(r)
  <2>1. T = S /\ st[r] = "open" /\ st'[r] = "counted"
    BY <1>6 DEF SendPid, Execution, TypeOK
  <2>. HIDE DEF S, T
  <2>. QED
    BY <1>2, <1>3, <2>1, AccountedFrom DEF T, Executing
<1>7. CASE SendFds(r)
  <2>1. /\ T = IF Executor(r) = Sup THEN S \ RequesterEnds(r) ELSE S
        /\ st[r] = "counted" /\ st'[r] = "running"
    BY <1>1, <1>7 DEF SendFds, Closes, PassedOn, Execution, TypeOK
  <2>. HIDE DEF S, T
  <2>. QED
    BY <1>2, <1>3, <2>1, AccountedFrom DEF T, Executing
<1>8. CASE SendFails(r)
  <2>1. /\ T = IF Executor(r) = Sup THEN S \ (RequesterEnds(r) \cup ExecutorEnds(r)) ELSE S
        /\ st[r] \in {"posted", "open", "counted"}
    BY <1>1, <1>8 DEF SendFails, Failures, CannotSend, MayBeRefused, Begins, Closes, TypeOK
  <2>. HIDE DEF S, T
  <2>. QED
    BY <1>2, <1>3, <2>1, AccountedFrom DEF T
<1>9. CASE MethodEnds(r)
  <2>1. /\ T = IF Executor(r) = Sup THEN S \ ExecutorEnds(r) ELSE S
        /\ st[r] = "running"
    BY <1>1, <1>9 DEF MethodEnds, ClosedAtEnd, Closes, TypeOK
  <2>. HIDE DEF S, T
  <2>2. T \cap RequesterEnds(r) # {} => S \cap RequesterEnds(r) # {}
    BY <2>1
  <2>3. T \cap ExecutorEnds(r) = {}
    BY <1>2, <2>1
  <2>. QED
    BY <1>2, <1>3, <2>1, <2>2, <2>3, AccountedFrom DEF T
<1>. QED
  BY <1>4, <1>5, <1>6, <1>7, <1>8, <1>9 DEF Answering

LEMMA AccountedStep ==
  ASSUME TypeOK, Phases, Exchange, Accounted, OfRequests,
         NEW r \in Requests, Requesting(r) \/ Sending(r) \/ Answering(r)
  PROVE  Accounted' /\ OfRequests'
<1>1. \A q \in Requests : AccountedOf(q)
  BY DEF Accounted, AccountedOf
<1>2. CASE SupervisorAborts(r)
  BY <1>2, Processes DEF SupervisorAborts, TypeOK, Accounted, OfRequests
<1>3. CASE ~SupervisorAborts(r)
  <2>1. StepOf(r) /\ AccountedOf(r)'
    BY <1>1, <1>3, StepRequesting, StepSending, StepAnswering,
       AccountedRequesting, AccountedSending, AccountedAnswering
  <2>2. ASSUME NEW q \in Requests, q # r
        PROVE  AccountedOf(q)'
    <3>1. fds'[Sup] \cap OfRequest(q) \subseteq fds[Sup]
      BY <2>1, <2>2, OthersDescriptors DEF StepOf, OfRequest
    <3>. QED
      BY <1>1, <2>1, <2>2, <3>1, WishStays DEF StepOf, OfRequest, AccountedOf
  <2>3. Accounted'
    BY <2>1, <2>2 DEF Accounted, AccountedOf
  <2>4. OfRequests'
    BY <2>1, WishStays DEF StepOf, OfRequest, OfRequests
  <2>. QED
    BY <2>3, <2>4
<1>. QED
  BY <1>2, <1>3

-----------------------------------------------------------------------------
(* The end of the supervisor.                                              *)

\* What may end the supervisor, and does not go away any more.
Cause(r) == OnDequeueThread(r) /\ (st[r] = "refused" \/ (st[r] = "failed" /\ pc[r] = "left"))

LEMMA CauseStays ==
  ASSUME TypeOK, Phases, NEW r \in Requests, Requesting(r) \/ Sending(r) \/ Answering(r),
         NEW q \in Requests, Cause(q)
  PROVE  Cause(q)'
<1>1. ~IsInvoke(q)
  BY DEF Cause, OnDequeueThread, IsInvoke
<1>2. wish' = wish
  BY DEF Requesting, Sending, Answering, Bind, NoSocket, Refuse, ClientSends, ClientCannotSend, Fork, ForkFails,
     ReceivePid, ReceiveFds, ReceiveFails, SenderReaped, SenderInterrupted, Wrap, WrapFails, EndOfStream,
     ClientLeaves, SenderPosts, SenderEnds, Drop, OpenPipes, SendPid, SendFds, SendFails, SupervisorAborts, MethodEnds
<1>3. st'[q] = st[q]
  <2>1. CASE Requesting(r)
    BY <1>1, <2>1 DEF Cause, TypeOK, Phases, Execution, Requesting, Bind, NoSocket, Refuse, ClientSends, ClientCannotSend,
       Fork, ForkFails, ReceivePid, ReceiveFds, ReceiveFails, SenderReaped, SenderInterrupted, Wrap, WrapFails,
       EndOfStream, ClientLeaves
  <2>2. CASE Sending(r)
    BY <1>1, <2>2 DEF Cause, TypeOK, Phases, Sending, SenderPosts, SenderEnds
  <2>3. CASE Answering(r)
    BY <2>3 DEF Cause, TypeOK, Execution, Executing, Failures, CannotSend, MayBeRefused, Begins, Answering, Drop,
       OpenPipes, SendPid, SendFds, SendFails, SupervisorAborts, MethodEnds
  <2>. QED
    BY <2>1, <2>2, <2>3
<1>4. pc[q] = "left" => pc'[q] = "left"
  <2>1. CASE Requesting(r)
    BY <1>1, <2>1 DEF TypeOK, Goto, Requesting, Bind, NoSocket, Refuse, ClientSends, ClientCannotSend,
       Fork, ForkFails, ReceivePid, ReceiveFds, ReceiveFails, SenderReaped, SenderInterrupted, Wrap, WrapFails,
       EndOfStream, ClientLeaves
  <2>2. CASE Sending(r) \/ Answering(r)
    BY <1>1, <2>2 DEF TypeOK, Sending, SenderPosts, SenderEnds, Answering, Drop, OpenPipes, SendPid, SendFds,
       SendFails, SupervisorAborts, MethodEnds
  <2>. QED
    BY <2>1, <2>2
<1>. QED
  BY <1>2, <1>3, <1>4 DEF Cause, OnDequeueThread

LEMMA CauseStep ==
  ASSUME TypeOK, Phases, Sockets, AbortHasCause,
         NEW r \in Requests, Requesting(r) \/ Sending(r) \/ Answering(r)
  PROVE  AbortHasCause'
<1>. SUFFICES ASSUME ~supUp'
              PROVE  \E q \in Requests : Cause(q)'
  BY DEF AbortHasCause, Cause
<1>1. CASE ~supUp
  <2>1. PICK q \in Requests : Cause(q)
    BY <1>1 DEF AbortHasCause, Cause
  <2>. QED
    BY <2>1, CauseStays
<1>2. CASE supUp
  <2>1. SupervisorAborts(r)
    BY <1>2 DEF Requesting, Sending, Answering, Bind, NoSocket, Refuse, ClientSends, ClientCannotSend, Fork, ForkFails,
       ReceivePid, ReceiveFds, ReceiveFails, SenderReaped, SenderInterrupted, Wrap, WrapFails, EndOfStream,
       ClientLeaves, SenderPosts, SenderEnds, Drop, OpenPipes, SendPid, SendFds, SendFails, MethodEnds
  <2>2. ~IsInvoke(r) /\ OnDequeueThread(r) /\ wish' = wish /\ pc'[r] = pc[r]
    BY <2>1 DEF SupervisorAborts, OnDequeueThread, IsInvoke, TypeOK
  <2>3. PICK how \in Failures(r) : st'[r] = how
    BY <2>1 DEF SupervisorAborts
  <2>4. CASE how = "refused"
    BY <2>2, <2>3, <2>4 DEF Cause, OnDequeueThread
  <2>5. CASE how = "failed"
    <3>1. CannotSend(r)
      BY <2>5 DEF Failures
    <3>2. pc[r] \notin {"recv", "recv2"}
      BY <3>1, Processes DEF CannotSend, BoundTo, Sockets, Open
    <3>3. pc[r] = "left"
      BY <1>2, <3>1, <3>2 DEF CannotSend, Phases, Awaited
    <3>. QED
      BY <2>2, <2>3, <2>5, <3>3 DEF Cause, OnDequeueThread
  <2>. QED
    BY <2>4, <2>5 DEF Failures
<1>. QED
  BY <1>1, <1>2

-----------------------------------------------------------------------------
(* The invariant.                                                          *)

LEMMA InvInit == Init => StreamsInv
<1>. SUFFICES ASSUME Init
              PROVE  StreamsInv
  OBVIOUS
<1>1. TypeOK
  BY TypeInit
<1>2. Phases
  BY DEF Init, Phases, Awaited
<1>3. Sockets
  BY DEF Init, Sockets, Open, Awaited
<1>4. Exchange
  BY DEF Init, Exchange, ExchangeOf
<1>5. WriteEndHeld
  BY DEF Init, WriteEndHeld, Executing
<1>6. Accounted /\ OfRequests
  BY Processes DEF Init, Accounted, OfRequests, Procs
<1>7. AbortHasCause
  BY DEF Init, AbortHasCause
<1>. QED
  BY <1>1, <1>2, <1>3, <1>4, <1>5, <1>6, <1>7 DEF StreamsInv

LEMMA InvStep ==
  ASSUME StreamsInv, NEW r \in Requests, Requesting(r) \/ Sending(r) \/ Answering(r)
  PROVE  StreamsInv'
<1>. USE DEF StreamsInv
<1>1. TypeOK'
  BY TypeRequesting, TypeSending, TypeAnswering
<1>2. Phases'
  BY PhasesRequesting, PhasesSending, PhasesAnswering
<1>3. Sockets'
  BY SocketsRequesting, SocketsSending, SocketsAnswering
<1>4. Exchange'
  BY ExchangeRequesting, ExchangeSending, ExchangeAnswering
<1>5. WriteEndHeld'
  BY HeldRequesting, HeldSending, HeldAnswering
<1>6. Accounted' /\ OfRequests'
  BY AccountedStep
<1>7. AbortHasCause'
  BY CauseStep
<1>. QED
  BY <1>1, <1>2, <1>3, <1>4, <1>5, <1>6, <1>7

LEMMA InvStutter ==
  ASSUME StreamsInv, UNCHANGED vars
  PROVE  StreamsInv'
<1>1. UNCHANGED <<wish, pc, told, got, sender, st, name, inbox, fds, supUp>>
  BY DEF vars
<1>. USE <1>1, WishStays DEF StreamsInv
<1>2. TypeOK'
  BY DEF TypeOK
<1>3. Phases'
  BY DEF Phases, Awaited
<1>4. Sockets'
  BY DEF Sockets, Open, Awaited
<1>5. Exchange'
  BY DEF Exchange, ExchangeOf
<1>6. WriteEndHeld'
  BY DEF WriteEndHeld
<1>7. Accounted' /\ OfRequests'
  BY DEF Accounted, OfRequests
<1>8. AbortHasCause'
  BY DEF AbortHasCause, OnDequeueThread
<1>. QED
  BY <1>2, <1>3, <1>4, <1>5, <1>6, <1>7, <1>8

(***************************************************************************)
(* The inductive invariant: names, phases, datagrams and descriptors fit   *)
(* together in every reachable state.                                      *)
(***************************************************************************)
THEOREM StreamsInvariant == Spec => []StreamsInv
<1>1. StreamsInv /\ [Next]_vars => StreamsInv'
  BY InvStep, InvStutter DEF Next
<1>. QED
  BY <1>1, InvInit, PTL DEF Spec

-----------------------------------------------------------------------------
(* What follows from it.                                                   *)

\* Types, of sockets' names and of the descriptors of every process among them.
THEOREM TypeCorrect == Spec => []TypeOK
<1>1. StreamsInv => TypeOK
  BY DEF StreamsInv
<1>. QED
  BY <1>1, StreamsInvariant, PTL

\* One stream or three.
LEMMA EndsCount ==
  ASSUME NEW r \in Requests
  PROVE  Cardinality(RequesterEnds(r)) = IF Extended(r) THEN 3 ELSE 1
<1>. DEFINE a == <<r, "read rsp">>
            b == <<r, "read err">>
            c == <<r, "write wrt">>
<1>1. a # b /\ a # c /\ b # c
  OBVIOUS
<1>. HIDE DEF a, b, c
<1>2. IsFiniteSet({a}) /\ Cardinality({a}) = 1
  BY FS_Singleton
<1>3. IsFiniteSet({a} \cup {b}) /\ Cardinality({a} \cup {b}) = 2
  BY <1>1, <1>2, FS_AddElement
<1>4. Cardinality(({a} \cup {b}) \cup {c}) = 3
  BY <1>1, <1>3, FS_AddElement
<1>5. RequesterEnds(r) = IF Extended(r) THEN ({a} \cup {b}) \cup {c} ELSE {a}
  BY DEF RequesterEnds, ReadRsp, a, b, c
<1>. QED
  BY <1>2, <1>4, <1>5

(***************************************************************************)
(* Whatever names the threads of a process draw and however long senders   *)
(* keep copies of sockets, a requester gets the pid and the streams of its *)
(* own request, as many as it was told.                                    *)
(***************************************************************************)
THEOREM AnswersAreOwn == Spec => []OwnAnswer
<1>1. StreamsInv => OwnAnswer
  BY EndsCount DEF StreamsInv, Exchange, ExchangeOf, OwnAnswer, Pid
<1>. QED
  BY <1>1, StreamsInvariant, PTL

(***************************************************************************)
(* A requester that sees the end of the response stream knows that the     *)
(* execution is over, or that the supervisor has ended.                    *)
(***************************************************************************)
THEOREM EndIsOver == Spec => []EndMeansOver
<1>1. StreamsInv => EndMeansOver
  BY DEF StreamsInv, Exchange, ExchangeOf, Phases, EndMeansOver, Sent
<1>. QED
  BY <1>1, StreamsInvariant, PTL

(***************************************************************************)
(* What ends the supervisor here is a command on its de-queue thread whose *)
(* client left without its streams, or for which the system refused a      *)
(* socket, a pipe or a datagram; whatever happens to workers' commands,    *)
(* status requests and invocations does not.                               *)
(***************************************************************************)
THEOREM AbortsAreCaused == Spec => []AbortHasCause
<1>1. StreamsInv => AbortHasCause
  BY DEF StreamsInv
<1>. QED
  BY <1>1, StreamsInvariant, PTL

(***************************************************************************)
(* The supervisor has no descriptor of a request that is over on both      *)
(* sides, on any of the ways a request can fail.                           *)
(***************************************************************************)
THEOREM NothingIsLeaked == Spec => []NothingLeaks
<1>1. ASSUME StreamsInv, NEW r \in Requests, pc[r] \in {"done", "failed", "left"}, st[r] \notin Executing,
             NEW d \in fds[Sup], d[1] = r
      PROVE  FALSE
  <2>1. PICK q \in Requests : d \in {Sock(q)} \cup RequesterEnds(q) \cup ExecutorEnds(q)
    BY <1>1 DEF StreamsInv, OfRequests
  <2>2. q = r
    BY <1>1, <2>1, Sorts
  <2>. QED
    BY <1>1, <2>1, <2>2 DEF StreamsInv, Accounted, Executing
<1>2. StreamsInv => NothingLeaks
  BY <1>1 DEF NothingLeaks
<1>. QED
  BY <1>2, StreamsInvariant, PTL
=============================================================================
