----------------------------- MODULE EchoStreams -----------------------------
(***************************************************************************)
(* The client mode of spartan after its command has been sent: the loop    *)
(* multi_read_on_ready that echoes the response.  An invocation has one    *)
(* stream, the response, or (react style) three: response and error        *)
(* output of the end-point, echoed to stdout and stderr, and the client's  *)
(* stdin, copied to the input of the end-point.                            *)
(*                                                                         *)
(* The loop polls the streams, starts a writer for each that is ready, all *)
(* at once on threads of their own, and waits for all of them.  A writer   *)
(* copies until its stream is empty or ended.  When a stream cannot go on  *)
(* all streams of the invocation are removed and the loop ends.            *)
(*                                                                         *)
(* A chunk is what one read() returns; chunks are not told apart, since    *)
(* one writer at a time works on a stream.  A stream may go on for ever,   *)
(* like a stdin that is /dev/zero: what is counted is only what has been   *)
(* written and not passed on.                                              *)
(***************************************************************************)
EXTENDS Naturals

CONSTANTS
  React,         \* three streams, or the response only
  PipeCap,       \* chunks that a pipe holds
  MayTerminate,  \* SIGTERM may come
  OutputMayFail, \* stdout and stderr may fail to take a chunk
  InputShared    \* other processes may read the client's terminal

Streams == IF React THEN {"rsp", "err", "in"} ELSE {"rsp"}
Outputs == Streams \ {"in"}

ASSUME EchoAssumption ==
  /\ React \in BOOLEAN
  /\ PipeCap \in Nat \ {0}
  /\ MayTerminate \in BOOLEAN /\ OutputMayFail \in BOOLEAN /\ InputShared \in BOOLEAN

VARIABLES
  pc,         \* the loop: polling, waiting for the writers, or ended
  fd_map,     \* the streams still registered
  wpc,        \* where the writer of each stream is
  read_some,  \* read_total > 0 in that writer
  result,     \* what the writer returns
  ec, wr,     \* of the loop: exit code and result
  quit_flag,
  pipe,       \* chunks in each stream that the client has not read
  open,       \* the writing end of each stream is open
  due,        \* history: chunks written into each stream that nobody has passed on
  childin,    \* chunks in the end-point's input pipe
  reads       \* the end-point has its input pipe open

loopVars == <<pc, fd_map, ec, wr>>
writerVars == <<wpc, read_some, result>>
endVars == <<open, reads>>
vars == <<loopVars, writerVars, quit_flag, pipe, due, childin, endVars>>

Results == {"NO_OP", "FAILURE", "INTERRUPTED", "END_OF_FILE", "PIPE_CONN_BROKEN"}

-----------------------------------------------------------------------------
(* multi_read_on_ready and poll_for_io.                                    *)

\* Variants: the end of a stream does not count, or only the end counts.
ReadyWithData(s) == pipe[s] > 0
ReadyAtEnd(s) == ~open[s]

Ready(s) == pipe[s] > 0 \/ ~open[s]

\* poll() reports the hangup of a pipe; a stdin that is a file just reads as ended.
Poll ==
  /\ pc = "poll"
  /\ fd_map # {}
  /\ ~quit_flag
  /\ LET ready == {s \in fd_map : Ready(s)} IN
       /\ ready # {}
       /\ \E hup \in SUBSET {s \in ready : ~open[s]} :
            /\ Outputs \cap {s \in ready : ~open[s]} \subseteq hup
            /\ wpc' = [s \in Streams |-> IF s \in hup THEN "hangup"
                                         ELSE IF s \in ready THEN "echo" ELSE "idle"]
  /\ read_some' = [s \in Streams |-> FALSE]
  /\ wr' = "NO_OP"
  /\ pc' = "wait"
  /\ UNCHANGED <<fd_map, ec, result, quit_flag, pipe, due, childin, endVars>>

\* Variant: only the stream that has ended is removed.
LeftOneByOne(over) == fd_map \ over

\* All streams of an invocation share one context and go together.
Left(over) == IF over = {} THEN fd_map ELSE {}

\* The results come in the order of an unordered map: the first one is any of them.
Collect ==
  /\ pc = "wait"
  /\ \A s \in Streams : wpc[s] \in {"idle", "ended"}
  /\ LET over == {s \in Streams : wpc[s] = "ended" /\ result[s] # "NO_OP"} IN
       /\ fd_map' = Left(over)
       /\ IF over = {} THEN UNCHANGED wr ELSE \E s \in over : wr' = result[s]
       /\ ec' = IF \E s \in over : result[s] # "END_OF_FILE" THEN "failure" ELSE ec
  /\ wpc' = [s \in Streams |-> "idle"]
  /\ pc' = "poll"
  /\ UNCHANGED <<read_some, result, quit_flag, pipe, due, childin, endVars>>

EndLoop ==
  /\ pc = "poll"
  /\ fd_map = {} \/ quit_flag
  /\ pc' = "done"
  /\ UNCHANGED <<fd_map, ec, wr, writerVars, quit_flag, pipe, due, childin, endVars>>

\* Interrupted by the signal, poll() may find nothing ready any more before the loop ends.
PollInterrupted ==
  /\ pc = "poll"
  /\ fd_map # {}
  /\ quit_flag
  /\ wr' = "NO_OP"
  /\ UNCHANGED <<pc, fd_map, ec, writerVars, quit_flag, pipe, due, childin, endVars>>

-----------------------------------------------------------------------------
(* write_to_output_stream, the writer of stream s.                         *)

WriterReturns(s, r) ==
  /\ wpc' = [wpc EXCEPT ![s] = "ended"]
  /\ result' = [result EXCEPT ![s] = r]
  /\ UNCHANGED <<loopVars, read_some, quit_flag, pipe, due, childin, endVars>>

TakeChunk(s) ==
  /\ pipe[s] > 0
  /\ pipe' = [pipe EXCEPT ![s] = @ - 1]
  /\ read_some' = [read_some EXCEPT ![s] = TRUE]
  /\ wpc' = [wpc EXCEPT ![s] = "write"]
  /\ UNCHANGED <<loopVars, result, quit_flag, due, childin, endVars>>

\* Variant: a hangup is taken for the end of the stream.
HangupIsEnd(s) == FALSE

\* On a hangup the stream may still hold data.
HangupMayHoldData(s) == wpc[s] = "hangup"

HangupRead(s) == HangupMayHoldData(s) /\ TakeChunk(s)

HangupEnd(s) ==
  /\ wpc[s] = "hangup"
  /\ pipe[s] = 0 \/ ~HangupMayHoldData(s)
  /\ WriterReturns(s, "END_OF_FILE")

EchoRead(s) == wpc[s] = "echo" /\ ~quit_flag /\ TakeChunk(s)

\* EAGAIN, end of file, or a signal.
EchoReturns(s) ==
  /\ wpc[s] = "echo"
  /\ \/ quit_flag /\ WriterReturns(s, "INTERRUPTED")
     \/ /\ ~quit_flag
        /\ pipe[s] = 0
        /\ WriterReturns(s, IF ~open[s] THEN "END_OF_FILE"
                            ELSE IF read_some[s] THEN "NO_OP" ELSE "PIPE_CONN_BROKEN")

\* write() to the end-point's input waits while that pipe is full.
WriteChunk(s) ==
  /\ wpc[s] = "write"
  /\ IF s = "in"
     THEN reads /\ childin < PipeCap /\ childin' = childin + 1
     ELSE UNCHANGED childin
  /\ due' = [due EXCEPT ![s] = @ - 1]
  /\ wpc' = [wpc EXCEPT ![s] = "echo"]
  /\ UNCHANGED <<loopVars, read_some, result, quit_flag, pipe, endVars>>

WriteFails(s) ==
  /\ wpc[s] = "write"
  /\ IF s = "in" THEN ~reads ELSE OutputMayFail
  /\ WriterReturns(s, "FAILURE")

-----------------------------------------------------------------------------
(* The end-point, the user and the signals.                                *)

\* The end-point writes and the user types, while there is room.
Produce(s) ==
  /\ open[s]
  /\ pipe[s] < PipeCap
  /\ pipe' = [pipe EXCEPT ![s] = @ + 1]
  /\ due' = [due EXCEPT ![s] = @ + 1]
  /\ UNCHANGED <<loopVars, writerVars, quit_flag, childin, endVars>>

CloseStream(s) ==
  /\ open[s]
  /\ open' = [open EXCEPT ![s] = FALSE]
  /\ UNCHANGED <<loopVars, writerVars, quit_flag, pipe, due, childin, reads>>

EndPointReads ==
  /\ reads
  /\ childin > 0
  /\ childin' = childin - 1
  /\ UNCHANGED <<loopVars, writerVars, quit_flag, pipe, due, endVars>>

EndPointExits ==
  /\ reads \/ \E s \in Outputs : open[s]
  /\ reads' = FALSE
  /\ childin' = 0
  /\ open' = [s \in Streams |-> open[s] /\ s \notin Outputs]
  /\ UNCHANGED <<loopVars, writerVars, quit_flag, pipe, due>>

TakenByOther ==
  /\ InputShared /\ React
  /\ pipe["in"] > 0
  /\ pipe' = [pipe EXCEPT !["in"] = @ - 1]
  /\ due' = [due EXCEPT !["in"] = @ - 1]
  /\ UNCHANGED <<loopVars, writerVars, quit_flag, childin, endVars>>

\* SIGTERM, or SIGTSTP before the ctrl-z handler is registered.
Terminate ==
  /\ MayTerminate
  /\ ~quit_flag
  /\ quit_flag' = TRUE
  /\ UNCHANGED <<loopVars, writerVars, pipe, due, childin, endVars>>

-----------------------------------------------------------------------------
Init ==
  /\ pc = "poll" /\ fd_map = Streams /\ ec = "success" /\ wr = "NO_OP"
  /\ wpc = [s \in Streams |-> "idle"]
  /\ read_some = [s \in Streams |-> FALSE]
  /\ result = [s \in Streams |-> "NO_OP"]
  /\ quit_flag = FALSE
  /\ pipe = [s \in Streams |-> 0] /\ open = [s \in Streams |-> TRUE]
  /\ due = [s \in Streams |-> 0]
  /\ childin = 0 /\ reads = React

Loop == Poll \/ Collect \/ EndLoop \/ PollInterrupted

Writer(s) ==
  \/ HangupRead(s) \/ HangupEnd(s)
  \/ EchoRead(s) \/ EchoReturns(s)
  \/ WriteChunk(s) \/ WriteFails(s)

World ==
  \/ \E s \in Streams : Produce(s) \/ CloseStream(s)
  \/ EndPointReads \/ EndPointExits \/ TakenByOther \/ Terminate

Next == Loop \/ (\E s \in Streams : Writer(s)) \/ (pc # "done" /\ World)

Spec == Init /\ [][Next]_vars

\* The client's threads run on; nothing is assumed of the end-point and the user.
FairSpec ==
  /\ Spec
  /\ WF_vars(Poll \/ Collect) /\ WF_vars(EndLoop)
  /\ \A s \in Streams : WF_vars(Writer(s))

-----------------------------------------------------------------------------
(* Properties.                                                             *)

\* Every variable keeps to its type; the streams of the invocation go together,
\* and nothing is passed on that was not written: due may leave the naturals at the lower end.
TypeOK ==
  /\ pc \in {"poll", "wait", "done"}
  /\ fd_map \in {{}, Streams}
  /\ wpc \in [Streams -> {"idle", "hangup", "echo", "write", "ended"}]
  /\ read_some \in [Streams -> BOOLEAN]
  /\ result \in [Streams -> Results]
  /\ ec \in {"success", "failure"} /\ wr \in Results
  /\ quit_flag \in BOOLEAN
  /\ pipe \in [Streams -> 0..PipeCap] /\ open \in [Streams -> BOOLEAN]
  /\ due \in [Streams -> 0..(PipeCap + 1)] /\ \A s \in Streams : pipe[s] <= due[s]
  /\ childin \in 0..PipeCap /\ reads \in BOOLEAN

\* The status stdout_echo_response_stream returns.
Success == ec = "success" \/ wr = "END_OF_FILE"

(***************************************************************************)
(* A client that reports success without having been interrupted has       *)
(* passed on one of its streams to the very end: the response, if there is *)
(* only the response.                                                      *)
(***************************************************************************)
SuccessMeansEnd ==
  pc = "done" /\ Success /\ ~quit_flag =>
    \E s \in Streams : ~open[s] /\ due[s] = 0

(***************************************************************************)
(* Once the end-point has gone the client ends, also when it was waiting   *)
(* to write to the end-point's full input.                                 *)
(***************************************************************************)
Gone == ~reads /\ \A s \in Outputs : ~open[s]

EchoEnds == Gone ~> pc = "done"

(***************************************************************************)
(* The client goes on reading what the end-point writes, but for two       *)
(* cases, in which the loop waits for the writer of another stream: the    *)
(* end-point leaves its full input unread, and the writer of stdin is      *)
(* stuck; or the other stream, an endless stdin for example, is fed        *)
(* without a pause, and its writer never finds it empty.                   *)
(***************************************************************************)
InputTaken == []<>(childin < PipeCap \/ ~reads)

\* In the end nothing more is written into t, or its writer comes to its end again and again.
Pauses(t) == <>[][pipe'[t] <= pipe[t]]_pipe \/ []<>(wpc[t] \in {"idle", "ended"})

ResponseFlows ==
  \A s \in Outputs :
    InputTaken /\ (\A t \in Streams \ {s} : Pauses(t))
      => (pipe[s] > 0 ~> wpc[s] = "write" \/ pc = "done")

(***************************************************************************)
(* README.md:270, :778: the streams of a sub-command reach its invoker at  *)
(* the command line: a client that reports success has passed on all of    *)
(* the response.                                                           *)
(***************************************************************************)
OutputReachesInvoker ==
  pc = "done" /\ Success /\ ~quit_flag => due["rsp"] = 0
===============================================================================
