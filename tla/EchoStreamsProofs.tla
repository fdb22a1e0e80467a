-------------------------- MODULE EchoStreamsProofs --------------------------
(***************************************************************************)
(* Proofs about EchoStreams, for one stream and for three, with or without *)
(* an end, pipes of any size, and signals, failing outputs and other       *)
(* readers of the terminal or none of them.                                *)
(***************************************************************************)
EXTENDS EchoStreams, TLAPS

USE DEF loopVars, writerVars, endVars

-----------------------------------------------------------------------------
(***************************************************************************)
(* The inductive invariant.  A chunk that the writer of a stream holds is  *)
(* neither in the stream nor passed on; it is lost if the write fails, and *)
(* then the round it is lost in is the loop's last.                        *)
(***************************************************************************)
InHand(s) == IF wpc[s] = "write" THEN 1 ELSE 0
Lost(s) == IF wpc[s] = "ended" /\ result[s] = "FAILURE" THEN 1 ELSE 0

\* Writers run only while the loop waits for them, and only then all streams are surely there.
Rounds ==
  /\ pc # "wait" => \A s \in Streams : wpc[s] = "idle"
  /\ pc = "wait" => fd_map = Streams
  /\ fd_map = Streams => ec = "success"
  /\ pc = "done" => fd_map = {} \/ quit_flag

\* A hangup and an end of file are read from a stream nobody writes to any more.
EndsAreEnds ==
  \A s \in Streams :
    /\ wpc[s] = "hangup" => ~open[s]
    /\ wpc[s] = "ended" /\ result[s] = "END_OF_FILE" => ~open[s] /\ pipe[s] = 0

\* One chunk at most is missing from the pipe, the one in hand or lost.
MissingOne == \A s \in Streams : due[s] \in {pipe[s], pipe[s] + 1} /\ pipe[s] + InHand(s) <= due[s]

NothingLost == fd_map = Streams => \A s \in Streams : due[s] = pipe[s] + InHand(s) + Lost(s)

\* A stream that has been passed on to the end.
PassedOn(s) == ~open[s] /\ due[s] = 0

Finished == fd_map = {} /\ Success => \E s \in Streams : PassedOn(s)

EchoInv == TypeOK /\ Rounds /\ EndsAreEnds /\ MissingOne /\ NothingLost /\ Finished

-----------------------------------------------------------------------------
\* An invocation has a response at least.
LEMMA StreamFacts ==
  /\ "rsp" \in Streams /\ Streams # {} /\ Outputs \subseteq Streams
  /\ "in" \in Streams <=> React
  /\ PipeCap \in Nat /\ PipeCap > 0
BY EchoAssumption DEF Streams, Outputs

LEMMA EchoInit == Init => EchoInv
<1>. SUFFICES ASSUME Init
              PROVE  EchoInv
  OBVIOUS
<1>1. TypeOK
  <2>1. \A s \in Streams : pipe[s] <= due[s]
    BY StreamFacts DEF Init
  <2>2. childin \in 0..PipeCap /\ 0 \in 0..PipeCap /\ 0 \in 0..(PipeCap + 1)
    BY StreamFacts DEF Init
  <2>3. pipe \in [Streams -> 0..PipeCap] /\ due \in [Streams -> 0..(PipeCap + 1)]
    BY <2>2 DEF Init
  <2>. QED
    BY <2>1, <2>2, <2>3, StreamFacts, EchoAssumption DEF Init, TypeOK, Results
<1>2. Rounds /\ EndsAreEnds /\ Finished
  BY StreamFacts DEF Init, Rounds, EndsAreEnds, Finished
<1>3. MissingOne /\ NothingLost
  BY StreamFacts DEF Init, MissingOne, NothingLost, InHand, Lost
<1>. QED
  BY <1>1, <1>2, <1>3 DEF EchoInv

-----------------------------------------------------------------------------
(* The loop.                                                               *)

LEMMA PollStep == EchoInv /\ Poll => EchoInv'
<1>. SUFFICES ASSUME EchoInv, Poll
              PROVE  EchoInv'
  OBVIOUS
<1>. USE DEF EchoInv
<1>1. /\ pc = "poll" /\ fd_map = Streams /\ pc' = "wait" /\ wr' = "NO_OP"
      /\ UNCHANGED <<fd_map, ec, result, quit_flag, pipe, due, childin, open, reads>>
      /\ read_some' = [s \in Streams |-> FALSE]
  BY DEF Poll, TypeOK
<1>2. PICK hup \in SUBSET Streams : \E ready \in SUBSET Streams :
        /\ \A s \in hup : ~open[s]
        /\ wpc' = [s \in Streams |-> IF s \in hup THEN "hangup" ELSE IF s \in ready THEN "echo" ELSE "idle"]
  <2>. DEFINE ready == {s \in fd_map : Ready(s)}
  <2>1. PICK hup \in SUBSET {s \in ready : ~open[s]} :
          wpc' = [s \in Streams |-> IF s \in hup THEN "hangup" ELSE IF s \in ready THEN "echo" ELSE "idle"]
    BY DEF Poll
  <2>. QED
    BY <1>1, <2>1
<1>3. PICK ready \in SUBSET Streams :
        wpc' = [s \in Streams |-> IF s \in hup THEN "hangup" ELSE IF s \in ready THEN "echo" ELSE "idle"]
  BY <1>2
<1>4. \A s \in Streams : wpc'[s] \in {"idle", "hangup", "echo"} /\ (wpc'[s] = "hangup" => ~open[s]) /\ wpc[s] = "idle"
  BY <1>1, <1>2, <1>3 DEF Rounds
<1>5. TypeOK'
  BY <1>1, <1>3 DEF TypeOK, Results
<1>6. Rounds' /\ EndsAreEnds'
  BY <1>1, <1>4 DEF Rounds, EndsAreEnds
<1>7. \A s \in Streams : InHand(s)' = InHand(s) /\ Lost(s)' = Lost(s)
  BY <1>4 DEF InHand, Lost
<1>8. MissingOne' /\ NothingLost'
  BY <1>1, <1>7 DEF MissingOne, NothingLost
<1>9. Finished'
  BY <1>1, StreamFacts DEF Finished
<1>. QED
  BY <1>5, <1>6, <1>8, <1>9

LEMMA CollectStep == EchoInv /\ Collect => EchoInv'
<1>. SUFFICES ASSUME EchoInv, Collect
              PROVE  EchoInv'
  OBVIOUS
<1>. USE DEF EchoInv
<1>. DEFINE over == {s \in Streams : wpc[s] = "ended" /\ result[s] # "NO_OP"}
<1>1. /\ pc' = "poll" /\ wpc' = [s \in Streams |-> "idle"]
      /\ UNCHANGED <<read_some, result, quit_flag, pipe, due, childin, open, reads>>
      /\ \A s \in Streams : wpc[s] \in {"idle", "ended"}
  BY DEF Collect
<1>2. fd_map = Streams /\ ec = "success"
  BY DEF Collect, Rounds
<1>3. \A s \in Streams : InHand(s)' = 0 /\ Lost(s)' = 0 /\ InHand(s) = 0
  BY <1>1 DEF InHand, Lost
<1>4. EndsAreEnds' /\ MissingOne'
  BY <1>1, <1>3 DEF EndsAreEnds, MissingOne
<1>5. CASE over = {}
  <2>1. fd_map' = Streams /\ wr' = wr /\ ec' = "success"
    BY <1>2, <1>5 DEF Collect, Left
  <2>2. TypeOK'
    BY <1>1, <2>1 DEF TypeOK
  <2>3. Rounds'
    BY <1>1, <2>1 DEF Rounds
  <2>4. \A s \in Streams : Lost(s) = 0
    BY <1>5 DEF Lost
  <2>5. NothingLost'
    BY <1>1, <1>2, <1>3, <2>4 DEF NothingLost
  <2>. QED
    BY <1>4, <2>1, <2>2, <2>3, <2>5, StreamFacts DEF Finished
<1>6. CASE over # {}
  <2>1. fd_map' = {} /\ ec' = (IF \E s \in over : result[s] # "END_OF_FILE" THEN "failure" ELSE ec)
    BY <1>6 DEF Collect, Left
  <2>2. PICK t \in over : wr' = result[t]
    BY <1>6 DEF Collect
  <2>3. TypeOK'
    BY <1>1, <2>1, <2>2 DEF TypeOK
  <2>4. Rounds' /\ NothingLost'
    BY <1>1, <2>1, StreamFacts DEF Rounds, NothingLost
  <2>5. Finished'
    <3>. SUFFICES ASSUME Success'
                  PROVE  PassedOn(t)'
      BY DEF Finished
    <3>1. t \in Streams /\ wpc[t] = "ended" /\ result[t] = "END_OF_FILE"
      BY <2>1, <2>2 DEF Success
    <3>2. ~open[t] /\ pipe[t] = 0
      BY <3>1 DEF EndsAreEnds
    <3>3. Lost(t) = 0
      BY <3>1 DEF Lost
    <3>4. due[t] = 0
      BY <1>2, <1>3, <3>1, <3>2, <3>3 DEF NothingLost
    <3>. QED
      BY <1>1, <3>2, <3>4 DEF PassedOn
  <2>. QED
    BY <1>4, <2>3, <2>4, <2>5
<1>. QED
  BY <1>5, <1>6

LEMMA LoopStep == EchoInv /\ Loop => EchoInv'
<1>. SUFFICES ASSUME EchoInv, Loop
              PROVE  EchoInv'
  OBVIOUS
<1>1. CASE EndLoop
  BY <1>1 DEF EndLoop, EchoInv, TypeOK, Rounds, EndsAreEnds, MissingOne, NothingLost, Finished, Success, PassedOn,
     InHand, Lost
<1>2. CASE PollInterrupted
  BY <1>2, StreamFacts DEF PollInterrupted, EchoInv, TypeOK, Results, Rounds, EndsAreEnds, MissingOne, NothingLost,
     Finished, InHand, Lost
<1>. QED
  BY <1>1, <1>2, PollStep, CollectStep DEF Loop

-----------------------------------------------------------------------------
(* The writers.                                                            *)

\* What a step of the writer of s leaves alone.
OthersStay(s) ==
  \A t \in Streams : t # s => /\ wpc'[t] = wpc[t] /\ result'[t] = result[t]
                              /\ pipe'[t] = pipe[t] /\ due'[t] = due[t]

\* What has to be seen of a step of s, when the other streams are left alone.
LEMMA OneStream ==
  ASSUME EchoInv, NEW s \in Streams, OthersStay(s), UNCHANGED <<open, fd_map>>, fd_map = Streams,
         wpc'[s] = "hangup" => ~open[s],
         wpc'[s] = "ended" /\ result'[s] = "END_OF_FILE" => ~open[s] /\ pipe'[s] = 0,
         due'[s] = pipe'[s] + InHand(s)' + Lost(s)', InHand(s)' + Lost(s)' \in {0, 1}, pipe'[s] \in Nat
  PROVE  EndsAreEnds' /\ MissingOne' /\ NothingLost'
<1>1. \A t \in Streams : t # s => InHand(t)' = InHand(t) /\ Lost(t)' = Lost(t)
  BY DEF OthersStay, InHand, Lost
<1>2. EndsAreEnds'
  BY DEF EchoInv, EndsAreEnds, OthersStay
<1>3. MissingOne'
  <2>. SUFFICES ASSUME NEW t \in Streams
                PROVE  due'[t] \in {pipe'[t], pipe'[t] + 1} /\ pipe'[t] + InHand(t)' <= due'[t]
    BY DEF MissingOne
  <2>1. CASE t = s
    BY <2>1 DEF InHand, Lost
  <2>2. CASE t # s
    BY <1>1, <2>2 DEF EchoInv, MissingOne, OthersStay
  <2>. QED
    BY <2>1, <2>2
<1>4. NothingLost'
  <2>. SUFFICES ASSUME NEW t \in Streams
                PROVE  due'[t] = pipe'[t] + InHand(t)' + Lost(t)'
    BY DEF NothingLost
  <2>. QED
    BY <1>1 DEF EchoInv, NothingLost, OthersStay
<1>. QED
  BY <1>2, <1>3, <1>4

LEMMA WriterStep == EchoInv /\ (\E s \in Streams : Writer(s)) => EchoInv'
<1>. SUFFICES ASSUME EchoInv, NEW s \in Streams, Writer(s)
              PROVE  EchoInv'
  OBVIOUS
<1>1. wpc[s] # "idle" /\ pc = "wait" /\ fd_map = Streams
  BY DEF Writer, HangupRead, HangupMayHoldData, HangupEnd, EchoRead, EchoReturns, WriteChunk, WriteFails, Rounds,
     EchoInv
<1>2. UNCHANGED <<pc, fd_map, ec, wr, quit_flag, open, reads>>
  BY DEF Writer, HangupRead, HangupEnd, EchoRead, EchoReturns, WriteChunk, WriteFails, TakeChunk, WriterReturns
<1>3. Rounds' /\ Finished'
  BY <1>1, <1>2, StreamFacts DEF EchoInv, Rounds, Finished
<1>4. /\ pipe[s] \in 0..PipeCap /\ PipeCap \in Nat
      /\ due[s] = pipe[s] + InHand(s) + Lost(s)
      /\ wpc[s] = "hangup" => ~open[s]
  BY <1>1, StreamFacts DEF EchoInv, TypeOK, MissingOne, NothingLost, EndsAreEnds
<1>5. CASE (HangupRead(s) \/ EchoRead(s)) /\ TakeChunk(s)
  <2>1. wpc[s] \in {"hangup", "echo"}
    BY <1>5 DEF HangupRead, HangupMayHoldData, EchoRead
  <2>2. /\ pipe[s] > 0 /\ pipe' = [pipe EXCEPT ![s] = @ - 1] /\ wpc' = [wpc EXCEPT ![s] = "write"]
        /\ read_some' = [read_some EXCEPT ![s] = TRUE]
        /\ UNCHANGED <<result, due, childin>>
    BY <1>5 DEF TakeChunk
  <2>3. TypeOK'
    BY <1>2, <1>4, <2>2 DEF EchoInv, TypeOK, MissingOne
  <2>4. OthersStay(s) /\ pipe'[s] = pipe[s] - 1 /\ wpc'[s] = "write"
    BY <2>2 DEF OthersStay, EchoInv, TypeOK
  <2>5. InHand(s)' = 1 /\ Lost(s)' = 0 /\ InHand(s) = 0 /\ Lost(s) = 0 /\ due'[s] = due[s]
    BY <2>1, <2>2, <2>4 DEF InHand, Lost
  <2>6. EndsAreEnds' /\ MissingOne' /\ NothingLost'
    BY <1>1, <1>2, <1>4, <2>2, <2>4, <2>5, OneStream
  <2>. QED
    BY <1>3, <2>3, <2>6 DEF EchoInv
<1>6. CASE (HangupEnd(s) \/ EchoReturns(s) \/ WriteFails(s)) /\ \E r \in Results : WriterReturns(s, r)
  <2>1. PICK r \in Results : WriterReturns(s, r)
    BY <1>6
  <2>2. /\ wpc' = [wpc EXCEPT ![s] = "ended"] /\ result' = [result EXCEPT ![s] = r]
        /\ UNCHANGED <<read_some, pipe, due, childin>>
    BY <2>1 DEF WriterReturns
  <2>3. TypeOK'
    BY <1>2, <2>2 DEF EchoInv, TypeOK
  <2>4. OthersStay(s) /\ wpc'[s] = "ended" /\ result'[s] = r
    BY <2>2 DEF OthersStay, EchoInv, TypeOK
  <2>5. \/ wpc[s] = "write" /\ r = "FAILURE"
        \/ wpc[s] \in {"hangup", "echo"} /\ r # "FAILURE" /\ (r = "END_OF_FILE" => ~open[s] /\ pipe[s] = 0)
    <3>1. ASSUME NEW q, WriterReturns(s, q)
          PROVE  q = r
      BY <2>4, <3>1 DEF WriterReturns, EchoInv, TypeOK
    <3>2. CASE HangupEnd(s)
      BY <1>4, <3>1, <3>2 DEF HangupEnd, HangupMayHoldData
    <3>3. CASE EchoReturns(s)
      BY <3>1, <3>3 DEF EchoReturns
    <3>4. CASE WriteFails(s)
      BY <3>1, <3>4 DEF WriteFails
    <3>. QED
      BY <1>6, <3>2, <3>3, <3>4
  <2>6. InHand(s)' = 0 /\ Lost(s)' = InHand(s) /\ Lost(s) = 0
    BY <2>4, <2>5 DEF InHand, Lost
  <2>7. InHand(s) \in {0, 1} /\ due'[s] = due[s] /\ pipe'[s] = pipe[s]
    BY <2>2 DEF InHand
  <2>8. EndsAreEnds' /\ MissingOne' /\ NothingLost'
    BY <1>1, <1>2, <1>4, <2>4, <2>5, <2>6, <2>7, OneStream
  <2>. QED
    BY <1>3, <2>3, <2>8 DEF EchoInv
<1>7. CASE WriteChunk(s)
  <2>1. /\ wpc[s] = "write" /\ wpc' = [wpc EXCEPT ![s] = "echo"] /\ due' = [due EXCEPT ![s] = @ - 1]
        /\ UNCHANGED <<read_some, result, pipe>>
        /\ childin' = childin \/ (childin < PipeCap /\ childin' = childin + 1)
    BY <1>7 DEF WriteChunk
  <2>2. childin' \in 0..PipeCap
    BY <2>1, StreamFacts DEF EchoInv, TypeOK
  <2>3. OthersStay(s) /\ wpc'[s] = "echo" /\ due'[s] = due[s] - 1
    BY <2>1 DEF OthersStay, EchoInv, TypeOK
  <2>4. InHand(s)' = 0 /\ Lost(s)' = 0 /\ InHand(s) = 1 /\ Lost(s) = 0 /\ pipe'[s] = pipe[s]
    BY <2>1, <2>3 DEF InHand, Lost
  <2>5. EndsAreEnds' /\ MissingOne' /\ NothingLost'
    BY <1>1, <1>2, <1>4, <2>3, <2>4, OneStream
  <2>6. due[s] \in 1..(PipeCap + 1) /\ due'[s] = pipe[s]
    BY <1>4, <2>3, <2>4
  <2>7. due' \in [Streams -> 0..(PipeCap + 1)] /\ \A t \in Streams : pipe'[t] <= due'[t]
    BY <1>4, <2>1, <2>6 DEF EchoInv, TypeOK
  <2>8. TypeOK'
    BY <1>2, <2>1, <2>2, <2>6, <2>7 DEF EchoInv, TypeOK
  <2>. QED
    BY <1>3, <2>5, <2>8 DEF EchoInv
<1>. QED
  BY <1>5, <1>6, <1>7 DEF Writer, HangupRead, EchoRead, HangupEnd, EchoReturns, WriteFails, Results

-----------------------------------------------------------------------------
(* The end-point, the user and the signals.                                *)

LEMMA WorldStep == EchoInv /\ pc # "done" /\ World => EchoInv'
<1>. SUFFICES ASSUME EchoInv, World
              PROVE  EchoInv'
  OBVIOUS
<1>1. UNCHANGED <<pc, fd_map, ec, wr, wpc, read_some, result>>
  BY DEF World, Produce, CloseStream, EndPointReads, EndPointExits, TakenByOther, Terminate
<1>2. Rounds'
  BY <1>1 DEF World, Produce, CloseStream, EndPointReads, EndPointExits, TakenByOther, Terminate, EchoInv, Rounds
<1>3. \A s \in Streams : InHand(s)' = InHand(s) /\ Lost(s)' = Lost(s) /\ InHand(s) \in {0, 1} /\ Lost(s) \in {0, 1}
  BY <1>1 DEF InHand, Lost
<1>4. Success' <=> Success
  BY <1>1 DEF Success
<1>5. ASSUME NEW s \in Streams, Produce(s)
      PROVE  EchoInv'
  <2>1. /\ open[s] /\ pipe[s] < PipeCap
        /\ pipe' = [pipe EXCEPT ![s] = @ + 1] /\ due' = [due EXCEPT ![s] = @ + 1]
        /\ UNCHANGED <<quit_flag, childin, open, reads>>
    BY <1>5 DEF Produce
  <2>2. \A t \in Streams :
          \/ t # s /\ pipe'[t] = pipe[t] /\ due'[t] = due[t]
          \/ t = s /\ pipe'[t] = pipe[t] + 1 /\ due'[t] = due[t] + 1
    BY <2>1 DEF EchoInv, TypeOK
  <2>3. \A t \in Streams : pipe[t] \in Nat /\ due[t] \in {pipe[t], pipe[t] + 1}
    BY StreamFacts DEF EchoInv, TypeOK, MissingOne
  <2>4. TypeOK'
    <3>1. pipe' \in [Streams -> 0..PipeCap] /\ due' \in [Streams -> 0..(PipeCap + 1)]
      BY <2>1, <2>3, StreamFacts DEF EchoInv, TypeOK
    <3>2. \A t \in Streams : pipe'[t] <= due'[t]
      BY <2>2, <2>3 DEF EchoInv, TypeOK
    <3>. QED
      BY <1>1, <2>1, <3>1, <3>2 DEF EchoInv, TypeOK
  <2>5. EndsAreEnds'
    BY <1>1, <2>1, <2>2 DEF EchoInv, EndsAreEnds
  <2>6. MissingOne'
    BY <1>1, <1>3, <2>1, <2>2, <2>3 DEF EchoInv, MissingOne
  <2>7. NothingLost'
    BY <1>1, <1>3, <2>2, <2>3 DEF EchoInv, NothingLost
  <2>8. Finished'
    BY <1>1, <1>4, <2>1, <2>2 DEF EchoInv, Finished, PassedOn
  <2>. QED
    BY <1>2, <2>4, <2>5, <2>6, <2>7, <2>8 DEF EchoInv
<1>6. CASE TakenByOther
  <2>1. /\ "in" \in Streams /\ pipe["in"] > 0
        /\ pipe' = [pipe EXCEPT !["in"] = @ - 1] /\ due' = [due EXCEPT !["in"] = @ - 1]
        /\ UNCHANGED <<quit_flag, childin, open, reads>>
    BY <1>6, StreamFacts DEF TakenByOther
  <2>2. \A t \in Streams :
          \/ t # "in" /\ pipe'[t] = pipe[t] /\ due'[t] = due[t]
          \/ t = "in" /\ pipe'[t] = pipe[t] - 1 /\ due'[t] = due[t] - 1 /\ pipe[t] > 0
    BY <2>1 DEF EchoInv, TypeOK
  <2>3. \A t \in Streams : pipe[t] \in Nat /\ due[t] \in {pipe[t], pipe[t] + 1}
    BY StreamFacts DEF EchoInv, TypeOK, MissingOne
  <2>4. TypeOK'
    <3>1. pipe' \in [Streams -> 0..PipeCap] /\ due' \in [Streams -> 0..(PipeCap + 1)]
      BY <2>1, <2>3, StreamFacts DEF EchoInv, TypeOK
    <3>2. \A t \in Streams : pipe'[t] <= due'[t]
      BY <2>2, <2>3 DEF EchoInv, TypeOK
    <3>. QED
      BY <1>1, <2>1, <3>1, <3>2 DEF EchoInv, TypeOK
  <2>5. EndsAreEnds' /\ Finished'
    BY <1>1, <1>4, <2>1, <2>2, <2>3 DEF EchoInv, EndsAreEnds, Finished, PassedOn
  <2>6. MissingOne'
    BY <1>1, <1>3, <2>1, <2>2, <2>3 DEF EchoInv, MissingOne
  <2>7. NothingLost'
    BY <1>1, <1>3, <2>2, <2>3 DEF EchoInv, NothingLost
  <2>. QED
    BY <1>2, <2>4, <2>5, <2>6, <2>7 DEF EchoInv
<1>7. CASE (\E s \in Streams : CloseStream(s)) \/ EndPointReads \/ EndPointExits \/ Terminate
  <2>1. UNCHANGED <<pipe, due>> /\ \A t \in Streams : open'[t] => open[t]
    BY <1>7 DEF CloseStream, EndPointReads, EndPointExits, Terminate, EchoInv, TypeOK
  <2>2. open' \in [Streams -> BOOLEAN]
    BY <1>7 DEF CloseStream, EndPointReads, EndPointExits, Terminate, EchoInv, TypeOK
  <2>3. childin' \in 0..PipeCap /\ reads' \in BOOLEAN /\ quit_flag' \in BOOLEAN
    <3>1. childin' \in {childin, 0} \/ (childin > 0 /\ childin' = childin - 1)
      BY <1>7 DEF CloseStream, EndPointReads, EndPointExits, Terminate
    <3>2. childin' \in 0..PipeCap
      BY <3>1, StreamFacts DEF EchoInv, TypeOK
    <3>3. reads' \in {reads, FALSE} /\ quit_flag' \in {quit_flag, TRUE}
      BY <1>7 DEF CloseStream, EndPointReads, EndPointExits, Terminate
    <3>. QED
      BY <3>2, <3>3 DEF EchoInv, TypeOK
  <2>4. TypeOK'
    BY <1>1, <2>1, <2>2, <2>3 DEF EchoInv, TypeOK
  <2>5. EndsAreEnds' /\ Finished'
    BY <1>1, <1>4, <2>1, <2>2 DEF EchoInv, TypeOK, EndsAreEnds, Finished, PassedOn
  <2>6. MissingOne' /\ NothingLost'
    BY <1>1, <1>3, <2>1 DEF EchoInv, MissingOne, NothingLost
  <2>. QED
    BY <1>2, <2>4, <2>5, <2>6 DEF EchoInv
<1>. QED
  BY <1>5, <1>6, <1>7 DEF World

-----------------------------------------------------------------------------
\* Whatever the loop, the writers, the end-point and the user do, no chunk is lost unseen.
THEOREM EchoInvariant == Spec => []EchoInv
<1>1. EchoInv /\ UNCHANGED vars => EchoInv'
  BY DEF vars, EchoInv, TypeOK, Rounds, EndsAreEnds, MissingOne, NothingLost, Finished, Success, PassedOn, InHand,
     Lost
<1>2. EchoInv /\ [Next]_vars => EchoInv'
  BY <1>1, LoopStep, WriterStep, WorldStep DEF Next
<1>. QED
  BY <1>2, EchoInit, PTL DEF Spec

\* Types; the streams of an invocation go together, and nothing is passed on that was not written.
THEOREM TypeCorrect == Spec => []TypeOK
<1>1. EchoInv => TypeOK
  BY DEF EchoInv
<1>. QED
  BY <1>1, EchoInvariant, PTL

(***************************************************************************)
(* A client that reports success without having been interrupted has       *)
(* passed on one of its streams to the very end.                           *)
(***************************************************************************)
THEOREM SuccessIsEnd == Spec => []SuccessMeansEnd
<1>1. EchoInv => SuccessMeansEnd
  BY DEF EchoInv, Rounds, Finished, PassedOn, SuccessMeansEnd
<1>. QED
  BY <1>1, EchoInvariant, PTL
=============================================================================
