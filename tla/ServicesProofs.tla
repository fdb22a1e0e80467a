---------------------------- MODULE ServicesProofs ----------------------------
(***************************************************************************)
(* Proofs about Services, for every number of services that are started    *)
(* and every set of clients, settings and class paths: what they leave in  *)
(* the kernel, and what they do with their command tables - which method   *)
(* is executed for a command, where, and on which object.                  *)
(***************************************************************************)
EXTENDS Services, SequenceFacts

USE DEF kernel, clVars, svcVars

Places == [launcher |-> {"off", "open", "again", "serve", "tell", "wait", "ended", "dead"},
           supervisor |-> {"off", "scan", "publish", "fill", "read", "open", "again", "serve",
                           "join", "ended", "dead"}]
Sessions == {Blank} \cup {Applied(Session(c.cfg), c.scan) : c \in Cases}
Shared == [of : Services, ses : Sessions]

TypeOK ==
  /\ case \in Cases
  /\ proc \in [Services -> [Kinds -> Places.launcher \cup Places.supervisor]]
  /\ \A s \in Services, k \in Kinds : proc[s][k] \in Places[k]
  /\ met \in [Services -> SUBSET Services]
  /\ tries \in [Services -> [Kinds -> Nat]]
  /\ tab \in [Services -> {NoTables, None, case.scan}]
  /\ ses \in [Services -> {None} \cup Shared]
  /\ shm \in {None} \cup Shared
  /\ named \in [Kinds -> {None} \cup Services]
  /\ mq \in [Kinds -> [Services -> Seq(Clients \cup {Shutdown})]]
  /\ cl \in [Clients -> {"start", "send", "failed", "sent", "forked", "lost", "done"}]
  /\ route \in [Clients -> {None} \cup [kind : Kinds, blank : BOOLEAN]]
  /\ \A c \in Clients : cl[c] = "send" => route[c].kind \in Kinds
  /\ sentTo \in [Clients -> {None} \cup Services]
  /\ DOMAIN ran = Clients

\* A service that has not been started, or one beyond the last of the case.
Unstarted ==
  \A s \in Services, k \in Kinds :
    /\ proc[s][k] = "off" =>
         /\ met[s] = {} /\ ses[s] = None
         /\ \A j \in Kinds : proc[s][j] = "off" /\ tries[s][j] = 0
    /\ proc[s][k] # "off" => s <= case.services

\* A service that has met no other is the only one that runs, as long as it does.
OneRuns ==
  \A s, t \in Services : ~Overlap(s) /\ Runs(s) /\ Runs(t) => t = s

\* A name leads to a service that serves it or has crashed.
NamesServed ==
  \A k \in Kinds : named[k] # None => proc[named[k]][k] \in {"serve", "dead"}

\* The second try finds no queue of that name.
SecondTry ==
  \A s \in Services, k \in Kinds : ~Overlap(s) =>
    /\ tries[s][k] \in {0, 1}
    /\ proc[s][k] \in {"scan", "publish", "fill", "read", "again"} => tries[s][k] = 0
    /\ proc[s][k] = "open" /\ tries[s][k] = 1 => named[k] = None

\* The shared memory is of a service that has published and not yet ended in order.
ShmOfPublisher ==
  /\ \A s \in Services :
       /\ proc[s]["supervisor"] \notin {"off", "scan", "ended", "dead"} => tab[s] \in {None, case.scan}
       /\ proc[s]["supervisor"] = "fill" => Publishes(s)
  /\ shm # None =>
       /\ Publishes(shm.of)
       /\ proc[shm.of]["supervisor"] \notin {"off", "scan", "publish", "ended"}

Own(s) == [of |-> s, ses |-> Applied(Session(case.cfg), tab[s])]

\* What a service that is alone has written it reads back, and what it finds is a dead one's.
TablesRead ==
  \A s \in Services :
    /\ ses[s] # None => proc[s]["supervisor"] \notin {"off", "scan", "publish", "fill", "read"}
    /\ ~Overlap(s) =>
         /\ proc[s]["supervisor"] = "fill" => shm # None
         /\ proc[s]["supervisor"] = "read" /\ Publishes(s) => shm = Own(s)
         /\ ses[s] # None =>
              IF Publishes(s) THEN ses[s] = Own(s) ELSE proc[ses[s].of]["supervisor"] = "dead"

\* Messages are where they were sent to, and executed there.
MessagesSent ==
  /\ \A k \in Kinds, s \in Services : \A c \in Clients \cap Elems(mq[k][s]) :
       sentTo[c] = s /\ cl[c] \notin {"start", "send"}
  /\ \A c \in Clients :
       /\ cl[c] \in {"start", "send"} => ran[c] = None
       /\ cl[c] = "forked" \/ ran[c] # None => ran[c].service = sentTo[c]

ServicesInv ==
  /\ TypeOK /\ Unstarted /\ OneRuns /\ NamesServed /\ SecondTry /\ ShmOfPublisher /\ TablesRead
  /\ Reachable /\ MessagesSent
-----------------------------------------------------------------------------
(* Types.                                                                  *)

LEMMA KindFacts ==
  /\ Kinds = {"launcher", "supervisor"}
  /\ Places["launcher"] = {"off", "open", "again", "serve", "tell", "wait", "ended", "dead"}
  /\ Places["supervisor"] = {"off", "scan", "publish", "fill", "read", "open", "again", "serve",
                             "join", "ended", "dead"}
  /\ Services \subseteq Nat /\ None \notin Services /\ None \notin Shared
BY ServicesAssumption, SharedAssumption DEF Kinds, Places, Services, Shared, Sessions

\* A process of a service goes on to one of its places.
LEMMA GotoType ==
  ASSUME TypeOK, NEW s \in Services, NEW k \in Kinds, NEW to \in Places[k], Goto(s, k, to)
  PROVE  /\ proc' \in [Services -> [Kinds -> Places.launcher \cup Places.supervisor]]
         /\ \A t \in Services, j \in Kinds : proc'[t][j] \in Places[j]
         /\ \A t \in Services, j \in Kinds : proc'[t][j] = IF t = s /\ j = k THEN to ELSE proc[t][j]
<1>1. to \in Places.launcher \cup Places.supervisor
  BY KindFacts
<1>. QED
  BY <1>1 DEF TypeOK, Goto

LEMMA UnlinkedType ==
  ASSUME TypeOK, NEW k \in Kinds, Unlinked(k)
  PROVE  named' \in [Kinds -> {None} \cup Services]
BY DEF TypeOK, Unlinked

\* A message is put on a queue, and taken off one.
LEMMA AppendType ==
  ASSUME TypeOK, NEW k \in Kinds, NEW s \in Services, NEW m \in Clients \cup {Shutdown},
         mq' = [mq EXCEPT ![k][s] = Append(@, m)]
  PROVE  mq' \in [Kinds -> [Services -> Seq(Clients \cup {Shutdown})]]
<1>1. Append(mq[k][s], m) \in Seq(Clients \cup {Shutdown})
  BY AppendProperties DEF TypeOK
<1>. QED
  BY <1>1 DEF TypeOK

LEMMA ReceivesType ==
  ASSUME TypeOK, NEW k \in Kinds, NEW s \in Services, NEW m, Receives(s, k, m)
  PROVE  mq' \in [Kinds -> [Services -> Seq(Clients \cup {Shutdown})]]
<1>1. Tail(mq[k][s]) \in Seq(Clients \cup {Shutdown})
  BY SeqFacts DEF TypeOK, Receives
<1>. QED
  BY <1>1 DEF TypeOK, Receives

LEMMA TypeInit == Init => TypeOK
<1>. SUFFICES ASSUME Init
              PROVE  TypeOK
  OBVIOUS
<1>1. /\ proc \in [Services -> [Kinds -> Places.launcher \cup Places.supervisor]]
      /\ \A s \in Services, k \in Kinds : proc[s][k] \in Places[k]
  BY KindFacts DEF Init
<1>2. mq \in [Kinds -> [Services -> Seq(Clients \cup {Shutdown})]]
  BY EmptySeq DEF Init
<1>. QED
  BY <1>1, <1>2, ServicesAssumption DEF Init, TypeOK
\* The steps of one service keep the types.
LEMMA TypeService ==
  ASSUME TypeOK, ShmOfPublisher, NEW s \in Services, Service(s)
  PROVE  TypeOK'
<1>. USE KindFacts
<1>1. CASE Start(s)
  <2>1. /\ proc' \in [Services -> [Kinds -> Places.launcher \cup Places.supervisor]]
        /\ \A t \in Services, k \in Kinds : proc'[t][k] \in Places[k]
    BY <1>1 DEF Start, TypeOK, Places
  <2>2. met' \in [Services -> SUBSET Services]
    BY <1>1 DEF Start, TypeOK
  <2>. QED
    BY <1>1, <2>1, <2>2 DEF Start, TypeOK
<1>2. CASE ScanClassPath(s)
  <2>1. Goto(s, "supervisor", "publish") /\ "publish" \in Places["supervisor"]
    BY <1>2 DEF ScanClassPath
  <2>2. tab' \in [Services -> {NoTables, None, case.scan}]
    <3>1. PICK t \in {case.scan, None} : tab' = [tab EXCEPT ![s] = t]
      BY <1>2 DEF ScanClassPath
    <3>2. tab \in [Services -> {NoTables, None, case.scan}]
      BY DEF TypeOK
    <3>. QED
      BY <3>1, <3>2
  <2>. QED
    BY <1>2, <2>1, <2>2, GotoType DEF ScanClassPath, TypeOK
<1>3. CASE Truncate(s)
  <2>1. shm' \in {None} \cup Shared
    BY <1>3 DEF Truncate, TypeOK, Shared, Sessions
  <2>2. \E to \in Places["supervisor"] : Goto(s, "supervisor", to)
    BY <1>3 DEF Truncate
  <2>. QED
    BY <1>3, <2>1, <2>2, GotoType DEF Truncate, TypeOK
<1>4. CASE Fill(s)
  <2>1. tab[s] = case.scan
    <3>1. Publishes(s) /\ tab[s] \in {None, case.scan}
      BY <1>4 DEF Fill, At, ShmOfPublisher
    <3>. QED
      BY <3>1 DEF Publishes
  <2>2. shm' \in {None} \cup Shared
    BY <1>4, <2>1 DEF Fill, TypeOK, Shared, Sessions
  <2>3. Goto(s, "supervisor", "read") /\ "read" \in Places["supervisor"]
    BY <1>4 DEF Fill
  <2>. QED
    BY <1>4, <2>2, <2>3, GotoType DEF Fill, TypeOK
<1>5. CASE ReadBack(s)
  <2>1. ses' \in [Services -> {None} \cup Shared]
    <3>1. ses' = ses \/ ses' = [ses EXCEPT ![s] = shm]
      BY <1>5 DEF ReadBack
    <3>2. ses \in [Services -> {None} \cup Shared] /\ shm \in {None} \cup Shared
      BY DEF TypeOK
    <3>. QED
      BY <3>1, <3>2
  <2>2. \E to \in Places["supervisor"] : Goto(s, "supervisor", to)
    BY <1>5 DEF ReadBack
  <2>. QED
    BY <1>5, <2>1, <2>2, GotoType DEF ReadBack, TypeOK
<1>6. ASSUME NEW k \in Kinds, OpenQueue(s, k) \/ QueueExists(s, k) \/ TryAgain(s, k) \/ Crash(s, k)
      PROVE  TypeOK'
  <2>1. \E to \in Places[k] : Goto(s, k, to)
    BY <1>6 DEF OpenQueue, QueueExists, TryAgain, Crash
  <2>2. named' \in [Kinds -> {None} \cup Services]
    BY <1>6 DEF OpenQueue, Opened, QueueExists, TryAgain, Crash, Unlinked, TypeOK
  <2>3. mq' \in [Kinds -> [Services -> Seq(Clients \cup {Shutdown})]]
    <3>1. <<>> \in Seq(Clients \cup {Shutdown})
      BY EmptySeq
    <3>2. CASE OpenQueue(s, k)
      BY <3>1, <3>2 DEF OpenQueue, Opened, TypeOK
    <3>. QED
      BY <1>6, <3>2 DEF QueueExists, TryAgain, Crash, TypeOK
  <2>4. tries' \in [Services -> [Kinds -> Nat]]
    BY <1>6 DEF OpenQueue, QueueExists, TryAgain, Crash, TypeOK
  <2>. QED
    <3>1. /\ proc' \in [Services -> [Kinds -> Places.launcher \cup Places.supervisor]]
          /\ \A t \in Services, j \in Kinds : proc'[t][j] \in Places[j]
      BY <2>1, GotoType
    <3>2. UNCHANGED <<case, met, tab, ses, shm, clVars>>
      BY <1>6 DEF OpenQueue, QueueExists, TryAgain, Crash
    <3>. QED
      BY <2>2, <2>3, <2>4, <3>1, <3>2 DEF TypeOK
<1>7. CASE LauncherCloses(s)
  <2>1. Goto(s, "launcher", "tell") /\ "tell" \in Places["launcher"] /\ Unlinked("launcher")
    BY <1>7 DEF LauncherCloses
  <2>. QED
    BY <1>7, <2>1, GotoType, UnlinkedType DEF LauncherCloses, TypeOK
<1>8. CASE LauncherTells(s)
  <2>1. Goto(s, "launcher", "wait") /\ "wait" \in Places["launcher"]
    BY <1>8 DEF LauncherTells
  <2>2. mq' \in [Kinds -> [Services -> Seq(Clients \cup {Shutdown})]]
    <3>1. CASE named["supervisor"] = None
      BY <1>8, <3>1 DEF LauncherTells, TypeOK
    <3>2. CASE named["supervisor"] # None
      <4>. DEFINE t == named["supervisor"]
      <4>1. t \in Services /\ mq' = [mq EXCEPT !["supervisor"][t] = Append(@, Shutdown)]
        BY <1>8, <3>2 DEF LauncherTells, TypeOK
      <4>. QED
        BY <4>1, AppendType
    <3>. QED
      BY <3>1, <3>2
  <2>. QED
    BY <1>8, <2>1, <2>2, GotoType DEF LauncherTells, TypeOK
<1>9. CASE LauncherEnds(s)
  <2>1. Goto(s, "launcher", "ended") /\ "ended" \in Places["launcher"] /\ Unlinked("supervisor")
    BY <1>9 DEF LauncherEnds
  <2>. QED
    BY <1>9, <2>1, GotoType, UnlinkedType DEF LauncherEnds, TypeOK
<1>10. CASE SupervisorCloses(s)
  <2>1. /\ Goto(s, "supervisor", "join") /\ "join" \in Places["supervisor"] /\ Unlinked("supervisor")
        /\ Receives(s, "supervisor", Shutdown)
    BY <1>10 DEF SupervisorCloses
  <2>. QED
    BY <1>10, <2>1, GotoType, UnlinkedType, ReceivesType DEF SupervisorCloses, TypeOK
<1>11. CASE MainReturns(s)
  <2>1. Goto(s, "supervisor", "ended") /\ "ended" \in Places["supervisor"]
    BY <1>11 DEF MainReturns
  <2>2. shm' \in {None} \cup Shared
    BY <1>11 DEF MainReturns, ShmUnlinked, TypeOK
  <2>. QED
    BY <1>11, <2>1, <2>2, GotoType DEF MainReturns, TypeOK
<1>12. ASSUME NEW p \in GivenPoints, StandardCall(s, p)
       PROVE  TypeOK'
  BY <1>12 DEF StandardCall, CalledOn, TypeOK
<1>. QED
  BY <1>1, <1>2, <1>3, <1>4, <1>5, <1>6, <1>7, <1>8, <1>9, <1>10, <1>11, <1>12 DEF Service

\* So do those of clients, and the execution of commands.
LEMMA TypeCommand ==
  ASSUME TypeOK, NEW c \in Clients, Command(c)
  PROVE  TypeOK'
<1>. USE KindFacts
<1>1. CASE ClientRoutes(c)
  <2>1. shm # None => [kind |-> QueueFor(shm.ses, WordOf[c]), blank |-> shm.ses = Blank]
                        \in [kind : Kinds, blank : BOOLEAN]
    BY DEF QueueFor
  <2>2. route' \in [Clients -> {None} \cup [kind : Kinds, blank : BOOLEAN]]
    <3>1. CASE shm = None
      BY <1>1, <3>1 DEF ClientRoutes, TypeOK
    <3>2. CASE shm # None
      <4>. DEFINE new == [kind |-> QueueFor(shm.ses, WordOf[c]), blank |-> shm.ses = Blank]
      <4>1. route' = [route EXCEPT ![c] = new] /\ new \in [kind : Kinds, blank : BOOLEAN]
        BY <1>1, <2>1, <3>2 DEF ClientRoutes
      <4>. HIDE DEF new
      <4>. QED
        BY <4>1 DEF TypeOK
    <3>. QED
      BY <3>1, <3>2
  <2>3. \A d \in Clients : cl'[d] = "send" => route'[d].kind \in Kinds
    BY <1>1, <2>1 DEF ClientRoutes, ClientGoto, TypeOK
  <2>4. cl' \in [Clients -> {"start", "send", "failed", "sent", "forked", "lost", "done"}]
    BY <1>1 DEF ClientRoutes, ClientGoto, TypeOK
  <2>. QED
    BY <1>1, <2>2, <2>3, <2>4 DEF ClientRoutes, TypeOK
<1>2. CASE ClientSends(c)
  <2>. DEFINE k == route[c].kind
              s == named[k]
  <2>1. k \in Kinds /\ s \in {None} \cup Services
    BY <1>2 DEF ClientSends, TypeOK
  <2>2. CASE s = None
    BY <1>2, <2>1, <2>2 DEF ClientSends, ClientGoto, TypeOK
  <2>3. CASE s # None
    <3>1. s \in Services /\ mq' = [mq EXCEPT ![k][s] = Append(@, c)] /\ sentTo' = [sentTo EXCEPT ![c] = s]
          /\ ClientGoto(c, "sent")
      BY <1>2, <2>1, <2>3 DEF ClientSends
    <3>2. mq' \in [Kinds -> [Services -> Seq(Clients \cup {Shutdown})]]
      BY <2>1, <3>1, AppendType
    <3>3. sentTo' \in [Clients -> {None} \cup Services]
      BY <3>1 DEF TypeOK
    <3>. QED
      BY <1>2, <3>1, <3>2, <3>3 DEF ClientSends, ClientGoto, TypeOK
  <2>. QED
    BY <2>2, <2>3
<1>3. CASE WorkerRuns(c)
  <2>1. /\ cl' \in [Clients -> {"start", "send", "failed", "sent", "forked", "lost", "done"}]
        /\ \A d \in Clients : cl'[d] = "send" => cl[d] = "send"
    <3>1. cl' = [cl EXCEPT ![c] = "lost"] \/ cl' = [cl EXCEPT ![c] = "done"]
      BY <1>3 DEF WorkerRuns, ClientGoto
    <3>2. cl \in [Clients -> {"start", "send", "failed", "sent", "forked", "lost", "done"}]
      BY DEF TypeOK
    <3>. QED
      BY <3>1, <3>2
  <2>2. DOMAIN ran' = Clients
    BY <1>3 DEF WorkerRuns, Executes, TypeOK
  <2>. QED
    BY <1>3, <2>1, <2>2 DEF WorkerRuns, LeftByWorker, TypeOK
<1>4. ASSUME NEW s \in Services, ForkWorker(s, c)
      PROVE  TypeOK'
  <2>1. Receives(s, "launcher", c)
    BY <1>4 DEF ForkWorker
  <2>. QED
    BY <1>4, <2>1, ReceivesType DEF ForkWorker, ClientGoto, Executes, TypeOK
<1>5. ASSUME NEW s \in Services, SupervisorRuns(s, c)
      PROVE  TypeOK'
  <2>1. Receives(s, "supervisor", c)
    BY <1>5 DEF SupervisorRuns
  <2>2. cl' \in [Clients -> {"start", "send", "failed", "sent", "forked", "lost", "done"}]
        /\ (\A d \in Clients : cl'[d] = "send" => cl[d] = "send") /\ DOMAIN ran' = Clients
    BY <1>5 DEF SupervisorRuns, ClientGoto, Executes, TypeOK
  <2>. QED
    BY <1>5, <2>1, <2>2, ReceivesType DEF SupervisorRuns, TypeOK
<1>. QED
  BY <1>1, <1>2, <1>3, <1>4, <1>5 DEF Command

LEMMA TypeStep == TypeOK /\ ShmOfPublisher /\ [Next]_vars => TypeOK'
<1>1. ASSUME TypeOK, UNCHANGED vars PROVE TypeOK'
  BY <1>1 DEF vars, TypeOK
<1>. QED
  BY <1>1, TypeService, TypeCommand DEF Next
-----------------------------------------------------------------------------
(* Services.                                                               *)

\* Neither clients nor the execution of commands change what services are and have.
LEMMA Quiet ==
  ASSUME NEW s \in Services,
         (\E p \in GivenPoints : StandardCall(s, p)) \/ (\E c \in Clients : Command(c)) \/ UNCHANGED vars
  PROVE  UNCHANGED <<case, proc, met, tries, tab, ses, shm, named>>
<1>1. ASSUME NEW c \in Clients, Command(c)
      PROVE  UNCHANGED <<case, proc, met, tries, tab, ses, shm, named>>
  BY <1>1 DEF Command, ClientRoutes, ClientSends, WorkerRuns, LeftByWorker, ForkWorker, SupervisorRuns
<1>. QED
  BY <1>1 DEF StandardCall, vars

Moves(s) ==
  \/ ScanClassPath(s) \/ Truncate(s) \/ Fill(s) \/ ReadBack(s)
  \/ \E k \in Kinds : OpenQueue(s, k) \/ QueueExists(s, k) \/ TryAgain(s, k) \/ Crash(s, k)
  \/ LauncherCloses(s) \/ LauncherTells(s) \/ LauncherEnds(s)
  \/ SupervisorCloses(s) \/ MainReturns(s)

\* A process that runs goes on, and changes nothing of other services.
LEMMA MovesOn ==
  ASSUME TypeOK, NEW s \in Services, Moves(s)
  PROVE  /\ \E k \in Kinds, to \in {"publish", "fill", "read", "open", "again", "serve", "tell", "wait",
                                    "join", "ended", "dead"} :
              proc[s][k] \notin Over /\ Goto(s, k, to)
         /\ UNCHANGED <<case, met>>
         /\ \A t \in Services \ {s} : tries'[t] = tries[t] /\ tab'[t] = tab[t] /\ ses'[t] = ses[t]
<1>. USE DEF Over, At
<1>1. CASE ScanClassPath(s)
  <2>1. proc[s]["supervisor"] \notin Over /\ Goto(s, "supervisor", "publish") /\ "supervisor" \in Kinds
    BY <1>1, KindFacts DEF ScanClassPath
  <2>2. \A t \in Services \ {s} : tab'[t] = tab[t]
    <3>1. PICK x : tab' = [tab EXCEPT ![s] = x]
      BY <1>1 DEF ScanClassPath
    <3>. QED
      BY <3>1 DEF TypeOK
  <2>. QED
    BY <1>1, <2>1, <2>2 DEF ScanClassPath
<1>2. CASE Truncate(s) \/ Fill(s) \/ MainReturns(s) \/ SupervisorCloses(s)
  BY <1>2, KindFacts DEF Truncate, Fill, MainReturns, SupervisorCloses, Receives
<1>3. CASE ReadBack(s)
  BY <1>3, KindFacts DEF ReadBack, TypeOK
<1>4. ASSUME NEW k \in Kinds, OpenQueue(s, k) \/ QueueExists(s, k) \/ Crash(s, k)
      PROVE  /\ \E to \in {"open", "again", "serve", "dead"} : proc[s][k] \notin Over /\ Goto(s, k, to)
             /\ UNCHANGED <<case, met, tries, tab, ses>>
  BY <1>4 DEF OpenQueue, QueueExists, Crash
<1>5. ASSUME NEW k \in Kinds, TryAgain(s, k)
      PROVE  /\ \E to \in {"open", "tell", "join"} : proc[s][k] \notin Over /\ Goto(s, k, to)
             /\ UNCHANGED <<case, met, tab, ses>>
             /\ \A t \in Services \ {s} : tries'[t] = tries[t]
  BY <1>5 DEF TryAgain, TypeOK
<1>6. CASE LauncherCloses(s) \/ LauncherTells(s) \/ LauncherEnds(s)
  BY <1>6, KindFacts DEF LauncherCloses, LauncherTells, LauncherEnds
<1>. QED
  BY <1>1, <1>2, <1>3, <1>4, <1>5, <1>6 DEF Moves

\* What a service that starts has met, and what nobody else had.
LEMMA Starts ==
  ASSUME TypeOK, Unstarted, NEW s \in Services, Start(s)
  PROVE  /\ UNCHANGED <<case, tries, tab, ses, shm, named, mq>>
         /\ proc'[s] \in {[k \in Kinds |-> "ended"], [launcher |-> "open", supervisor |-> "scan"]}
         /\ \A t \in Services \ {s} : proc'[t] = proc[t] /\ met'[t] = met[t]
         /\ met'[s] = {t \in Services : Runs(t)}
         /\ s <= case.services
         /\ \A k \in Kinds : proc[s][k] = "off" /\ tries[s][k] = 0
         /\ met[s] = {} /\ ses[s] = None
BY KindFacts DEF Start, TypeOK, Unstarted, At

LEMMA UnstartedStep ==
  ASSUME TypeOK, Unstarted, NEW s \in Services, Start(s) \/ Moves(s)
  PROVE  Unstarted'
<1>1. CASE Start(s)
  <2>1. \A k \in Kinds : proc'[s][k] # "off"
    BY <1>1, Starts, KindFacts
  <2>2. \A t \in Services \ {s} : /\ proc'[t] = proc[t] /\ met'[t] = met[t]
                                 /\ ses'[t] = ses[t] /\ tries'[t] = tries[t]
    BY <1>1, Starts
  <2>3. case' = case /\ s <= case.services
    BY <1>1, Starts
  <2>. QED
    BY <2>1, <2>2, <2>3 DEF Unstarted
<1>2. CASE Moves(s)
  <2>1. PICK k \in Kinds, to \in {"publish", "fill", "read", "open", "again", "serve", "tell", "wait",
                                  "join", "ended", "dead"} :
          proc[s][k] \notin Over /\ Goto(s, k, to)
    BY <1>2, MovesOn
  <2>2. \A t \in Services, j \in Kinds : proc'[t][j] = IF t = s /\ j = k THEN to ELSE proc[t][j]
    BY <2>1 DEF TypeOK, Goto
  <2>3. \A j \in Kinds : proc[s][j] # "off"
    BY <2>1 DEF Unstarted, Over
  <2>. QED
    BY <1>2, <2>2, <2>3, MovesOn DEF Unstarted
<1>. QED
  BY <1>1, <1>2

\* A service runs afterwards if it ran before, unless it is the one that starts.
LEMMA OverlapStep ==
  ASSUME TypeOK, Unstarted, NEW s \in Services, Start(s) \/ Moves(s)
  PROVE  /\ \A t \in Services \ {s} : Runs(t)' => Runs(t)
         /\ \A t \in Services : ~Overlap(t)' => ~Overlap(t)
         /\ \A t \in Services \ {s} : Start(s) /\ Runs(t) => Overlap(s)' /\ Overlap(t)'
         /\ Moves(s) => Runs(s)
<1>1. CASE Start(s)
  <2>1. \A t \in Services \ {s} : Runs(t)' <=> Runs(t)
    BY <1>1, Starts DEF Runs
  <2>2. \A t \in Services : ~Overlap(t)' => ~Overlap(t)
    BY <1>1, Starts DEF Overlap
  <2>3. \A t \in Services \ {s} : Runs(t) => Overlap(s)' /\ Overlap(t)'
    BY <1>1, Starts DEF Overlap
  <2>4. ~Moves(s)
    <3>1. \A k \in Kinds : proc[s][k] = "off"
      BY <1>1, Starts
    <3>. QED
      BY <3>1, MovesOn DEF Over
  <2>. QED
    BY <2>1, <2>2, <2>3, <2>4
<1>2. CASE Moves(s)
  <2>1. PICK k \in Kinds, to \in {"publish", "fill", "read", "open", "again", "serve", "tell", "wait",
                                  "join", "ended", "dead"} :
          proc[s][k] \notin Over /\ Goto(s, k, to)
    BY <1>2, MovesOn
  <2>2. \A t \in Services, j \in Kinds : proc'[t][j] = IF t = s /\ j = k THEN to ELSE proc[t][j]
    BY <2>1 DEF TypeOK, Goto
  <2>3. \A t \in Services \ {s} : Runs(t)' <=> Runs(t)
    BY <2>2 DEF Runs
  <2>4. \A t \in Services : Overlap(t)' <=> Overlap(t)
    BY <1>2, MovesOn DEF Overlap
  <2>5. ~Start(s)
    <3>1. proc[s][k] # "off"
      BY <2>1 DEF Over
    <3>. QED
      BY <3>1 DEF Start, At
  <2>. QED
    BY <2>1, <2>3, <2>4, <2>5 DEF Runs
<1>. QED
  BY <1>1, <1>2

LEMMA OneRunsStep ==
  ASSUME TypeOK, Unstarted, OneRuns, NEW s \in Services, Start(s) \/ Moves(s)
  PROVE  OneRuns'
<1>. SUFFICES ASSUME NEW t \in Services, NEW u \in Services, ~Overlap(t)', Runs(t)', Runs(u)', t # u
              PROVE  FALSE
  BY DEF OneRuns
<1>1. CASE Moves(s)
  <2>1. Runs(t) /\ Runs(u)
    BY <1>1, OverlapStep
  <2>. QED
    BY <2>1, OverlapStep DEF OneRuns
<1>2. CASE Start(s)
  <2>1. CASE t = s
    BY <1>2, <2>1, OverlapStep
  <2>2. CASE t # s
    BY <1>2, <2>2, OverlapStep
  <2>. QED
    BY <2>1, <2>2
<1>. QED
  BY <1>1, <1>2
\* Where the process of a service goes, when the name of a queue or the shared memory is changed.
LEMMA PlacesStep ==
  ASSUME TypeOK, NEW s \in Services, NEW k \in Kinds, NEW to, Goto(s, k, to)
  PROVE  /\ \A t \in Services, j \in Kinds : proc'[t][j] = IF t = s /\ j = k THEN to ELSE proc[t][j]
         /\ "supervisor" \in Kinds /\ "launcher" \in Kinds
BY KindFacts DEF TypeOK, Goto

LEMMA NamesStep ==
  ASSUME TypeOK, Unstarted, NamesServed, NEW s \in Services, Start(s) \/ Moves(s)
  PROVE  NamesServed'
<1>. USE KindFacts
<1>0. \A j \in Kinds : named[j] # None => named[j] \in Services /\ proc[named[j]][j] \in {"serve", "dead"}
  BY DEF NamesServed, TypeOK
<1>1. CASE Start(s)
  <2>1. \A j \in Kinds : named[j] # None => named[j] \in Services \ {s}
    BY <1>0, <1>1, Starts
  <2>2. named' = named /\ \A t \in Services \ {s} : proc'[t] = proc[t]
    BY <1>1, Starts
  <2>. QED
    BY <1>0, <2>1, <2>2 DEF NamesServed
<1>2. ASSUME NEW k \in Kinds, NEW to \in {"publish", "fill", "read", "open", "tell", "wait", "join", "ended", "dead"},
             Goto(s, k, to), proc[s][k] # "dead", proc[s][k] = "serve" => to = "dead", named' = named
      PROVE  NamesServed'
  <2>0. Goto(s, k, to) /\ proc \in [Services -> [Kinds -> Places.launcher \cup Places.supervisor]]
    BY <1>2 DEF TypeOK
  <2>1. \A t \in Services, j \in Kinds : proc'[t][j] = IF t = s /\ j = k THEN to ELSE proc[t][j]
    BY <2>0 DEF Goto
  <2>. QED
    <3>1. SUFFICES ASSUME NEW j \in Kinds, named[j] # None
                   PROVE  proc'[named[j]][j] \in {"serve", "dead"}
      BY <1>2 DEF NamesServed
    <3>2. named[j] \in Services /\ proc[named[j]][j] \in {"serve", "dead"}
      BY <1>0, <3>1
    <3>3. CASE named[j] = s /\ j = k
      <4>1. to = "dead"
        BY <1>2, <3>2, <3>3
      <4>. QED
        BY <2>1, <3>2, <3>3, <4>1
    <3>4. CASE ~(named[j] = s /\ j = k)
      BY <2>1, <3>2, <3>4
    <3>. QED
      BY <3>3, <3>4
<1>3. ASSUME NEW k \in Kinds, NEW j \in Kinds, NEW to, Goto(s, k, to), Unlinked(j),
             (proc[s][k] \in {"serve", "dead"}) => (j = k)
      PROVE  NamesServed'
  <2>1. \A t \in Services, i \in Kinds : proc'[t][i] = IF t = s /\ i = k THEN to ELSE proc[t][i]
    BY <1>3, PlacesStep
  <2>2. \A i \in Kinds : named'[i] = IF i = j THEN None ELSE named[i]
    BY <1>3 DEF Unlinked, TypeOK
  <2>. QED
    <3>1. SUFFICES ASSUME NEW i \in Kinds, named'[i] # None
                   PROVE  proc'[named'[i]][i] \in {"serve", "dead"}
      BY DEF NamesServed
    <3>2. i # j /\ named'[i] = named[i] /\ named[i] \in Services /\ proc[named[i]][i] \in {"serve", "dead"}
      BY <1>0, <2>2, <3>1
    <3>3. ~(named[i] = s /\ i = k)
      BY <1>3, <3>2
    <3>. QED
      BY <2>1, <3>2, <3>3
<1>4. CASE ScanClassPath(s)
  <2>1. Goto(s, "supervisor", "publish") /\ proc[s]["supervisor"] = "scan" /\ named' = named
    BY <1>4 DEF ScanClassPath, At
  <2>. QED
    BY <1>2, <2>1
<1>5. CASE Truncate(s) \/ Fill(s) \/ ReadBack(s)
  BY <1>2, <1>5 DEF Truncate, Fill, ReadBack, At
<1>6. CASE LauncherTells(s)
  BY <1>2, <1>6 DEF LauncherTells, At
<1>7. CASE MainReturns(s)
  BY <1>2, <1>7 DEF MainReturns, At
<1>8. ASSUME NEW k \in Kinds, Crash(s, k)
      PROVE  NamesServed'
  BY <1>2, <1>8 DEF Crash, Over
<1>9. ASSUME NEW k \in Kinds, OpenQueue(s, k)
      PROVE  NamesServed'
  <2>1. \A t \in Services, i \in Kinds : proc'[t][i] = IF t = s /\ i = k THEN "serve" ELSE proc[t][i]
    BY <1>9, PlacesStep DEF OpenQueue
  <2>2. \A i \in Kinds : named'[i] = IF i = k THEN s ELSE named[i]
    BY <1>9 DEF OpenQueue, Opened, TypeOK
  <2>3. proc[s][k] = "open"
    BY <1>9 DEF OpenQueue, At
  <2>. QED
    BY <1>0, <2>1, <2>2, <2>3 DEF NamesServed
<1>10. ASSUME NEW k \in Kinds, QueueExists(s, k) \/ TryAgain(s, k)
       PROVE  NamesServed'
  BY <1>3, <1>10 DEF QueueExists, TryAgain
<1>11. CASE LauncherCloses(s)
  BY <1>3, <1>11 DEF LauncherCloses
<1>12. CASE LauncherEnds(s)
  BY <1>3, <1>12 DEF LauncherEnds, At
<1>13. CASE SupervisorCloses(s)
  BY <1>3, <1>13 DEF SupervisorCloses
<1>. QED
  BY <1>1, <1>4, <1>5, <1>6, <1>7, <1>8, <1>9, <1>10, <1>11, <1>12, <1>13 DEF Moves

LEMMA SecondTryStep ==
  ASSUME TypeOK, Unstarted, OneRuns, SecondTry, NEW s \in Services, Start(s) \/ Moves(s)
  PROVE  SecondTry'
<1>. USE KindFacts
<1>. SUFFICES ASSUME NEW t \in Services, NEW j \in Kinds, ~Overlap(t)'
              PROVE  /\ tries'[t][j] \in {0, 1}
                     /\ proc'[t][j] \in {"scan", "publish", "fill", "read", "again"} => tries'[t][j] = 0
                     /\ proc'[t][j] = "open" /\ tries'[t][j] = 1 => named'[j] = None
  BY DEF SecondTry
<1>1. /\ ~Overlap(t)
      /\ tries[t][j] \in {0, 1}
      /\ proc[t][j] \in {"scan", "publish", "fill", "read", "again"} => tries[t][j] = 0
      /\ proc[t][j] = "open" /\ tries[t][j] = 1 => named[j] = None
  BY OverlapStep DEF SecondTry
<1>2. CASE Start(s)
  <2>1. CASE t = s
    BY <1>2, <2>1, Starts
  <2>2. CASE t # s
    <3>1. proc'[t] = proc[t] /\ tries' = tries /\ named' = named
      BY <1>2, <2>2, Starts
    <3>. QED
      BY <1>1, <3>1
  <2>. QED
    BY <2>1, <2>2
<1>3. CASE Moves(s) /\ t # s
  <2>1. ~Runs(t)
    BY <1>1, <1>3, OverlapStep DEF OneRuns
  <2>2. proc'[t][j] = proc[t][j] /\ tries'[t][j] = tries[t][j]
    BY <1>3, MovesOn, PlacesStep
  <2>3. proc[t][j] \in Over
    BY <2>1 DEF Runs
  <2>. QED
    BY <1>1, <2>2, <2>3 DEF Over
<1>4. ASSUME t = s, NEW k \in Kinds, NEW to, Goto(s, k, to), tries' = tries,
             named'[j] \in {named[j], None} \/ (j = k /\ to = "serve"),
             j = k => tries[s][k] = 0 \/ to \in {"serve", "tell", "wait", "join", "ended", "dead"}
      PROVE  /\ tries'[t][j] \in {0, 1}
             /\ proc'[t][j] \in {"scan", "publish", "fill", "read", "again"} => tries'[t][j] = 0
             /\ proc'[t][j] = "open" /\ tries'[t][j] = 1 => named'[j] = None
  <2>1. proc'[s][j] = IF j = k THEN to ELSE proc[s][j]
    BY <1>4, PlacesStep
  <2>. QED
    BY <1>1, <1>4, <2>1
<1>5. ASSUME t = s, NEW k \in Kinds, proc[s][k] \in {"scan", "publish", "fill", "read", "again"}
      PROVE  tries[s][k] = 0
  BY <1>1, <1>5 DEF SecondTry
<1>6. CASE t = s /\ ScanClassPath(s)
  BY <1>4, <1>5, <1>6 DEF ScanClassPath, At
<1>7. CASE t = s /\ (Truncate(s) \/ Fill(s) \/ ReadBack(s))
  <2>1. tries[s]["supervisor"] = 0
    BY <1>5, <1>7 DEF Truncate, Fill, ReadBack, At
  <2>2. \E to : Goto(s, "supervisor", to)
    BY <1>7 DEF Truncate, Fill, ReadBack
  <2>3. tries' = tries /\ named' = named
    BY <1>7 DEF Truncate, Fill, ReadBack
  <2>. QED
    BY <1>4, <1>7, <2>1, <2>2, <2>3
<1>8. CASE t = s /\ (LauncherTells(s) \/ MainReturns(s))
  BY <1>4, <1>8 DEF LauncherTells, MainReturns
<1>9. ASSUME t = s, NEW k \in Kinds, Crash(s, k)
      PROVE  /\ tries'[t][j] \in {0, 1}
             /\ proc'[t][j] \in {"scan", "publish", "fill", "read", "again"} => tries'[t][j] = 0
             /\ proc'[t][j] = "open" /\ tries'[t][j] = 1 => named'[j] = None
  BY <1>4, <1>9 DEF Crash
<1>10. ASSUME t = s, NEW k \in Kinds, OpenQueue(s, k)
       PROVE  /\ tries'[t][j] \in {0, 1}
              /\ proc'[t][j] \in {"scan", "publish", "fill", "read", "again"} => tries'[t][j] = 0
              /\ proc'[t][j] = "open" /\ tries'[t][j] = 1 => named'[j] = None
  <2>1. Goto(s, k, "serve") /\ tries' = tries
    BY <1>10 DEF OpenQueue
  <2>2. named'[j] = named[j] \/ j = k
    BY <1>10 DEF OpenQueue, Opened, TypeOK
  <2>. QED
    BY <1>4, <1>10, <2>1, <2>2
<1>11. ASSUME t = s, NEW k \in Kinds, QueueExists(s, k)
       PROVE  /\ tries'[t][j] \in {0, 1}
              /\ proc'[t][j] \in {"scan", "publish", "fill", "read", "again"} => tries'[t][j] = 0
              /\ proc'[t][j] = "open" /\ tries'[t][j] = 1 => named'[j] = None
  <2>1. Goto(s, k, "again") /\ tries' = tries /\ proc[s][k] = "open" /\ named[k] # None
    BY <1>11 DEF QueueExists, At
  <2>2. named'[j] \in {named[j], None}
    BY <1>11 DEF QueueExists, Unlinked, TypeOK
  <2>3. j = k => tries[s][k] = 0
    BY <1>1, <1>11, <2>1
  <2>. QED
    BY <1>4, <1>11, <2>1, <2>2, <2>3
<1>12. ASSUME t = s, NEW k \in Kinds, TryAgain(s, k)
       PROVE  /\ tries'[t][j] \in {0, 1}
              /\ proc'[t][j] \in {"scan", "publish", "fill", "read", "again"} => tries'[t][j] = 0
              /\ proc'[t][j] = "open" /\ tries'[t][j] = 1 => named'[j] = None
  <2>1. proc[s][k] = "again" /\ tries[s][k] = 0
    BY <1>5, <1>1, <1>12 DEF TryAgain, At, SecondTry
  <2>2. Goto(s, k, "open") /\ tries' = [tries EXCEPT ![s][k] = 1]
    BY <1>12, <2>1 DEF TryAgain, Tries, TypeOK
  <2>3. tries'[s][j] = IF j = k THEN 1 ELSE tries[s][j]
    BY <2>2 DEF TypeOK
  <2>4. proc'[s][j] = IF j = k THEN "open" ELSE proc[s][j]
    BY <2>2, PlacesStep
  <2>5. named'[j] = IF j = k THEN None ELSE named[j]
    BY <1>12 DEF TryAgain, Unlinked, TypeOK
  <2>. QED
    BY <1>1, <1>12, <2>3, <2>4, <2>5
<1>13. CASE t = s /\ (LauncherCloses(s) \/ LauncherEnds(s) \/ SupervisorCloses(s))
  <2>1. named'[j] \in {named[j], None}
    BY <1>13 DEF LauncherCloses, LauncherEnds, SupervisorCloses, Unlinked, TypeOK
  <2>2. \E k \in Kinds, to \in {"tell", "ended", "join"} : Goto(s, k, to)
    BY <1>13 DEF LauncherCloses, LauncherEnds, SupervisorCloses
  <2>3. tries' = tries
    BY <1>13 DEF LauncherCloses, LauncherEnds, SupervisorCloses
  <2>. QED
    BY <1>4, <1>13, <2>1, <2>2, <2>3
<1>. QED
  BY <1>2, <1>3, <1>6, <1>7, <1>8, <1>9, <1>10, <1>11, <1>12, <1>13 DEF Moves
LEMMA ShmStep ==
  ASSUME TypeOK, Unstarted, ShmOfPublisher, NEW s \in Services, Start(s) \/ Moves(s)
  PROVE  ShmOfPublisher'
<1>. USE KindFacts
<1>1. CASE Start(s)
  <2>1. /\ \A t \in Services \ {s} : proc'[t] = proc[t]
        /\ proc'[s]["supervisor"] \in {"scan", "ended"} /\ proc[s]["supervisor"] = "off"
        /\ UNCHANGED <<case, tab, shm>>
    BY <1>1, Starts
  <2>2. \A t \in Services : Publishes(t)' <=> Publishes(t)
    BY <2>1 DEF Publishes
  <2>3. shm # None => shm.of \in Services \ {s}
    BY <2>1 DEF ShmOfPublisher, TypeOK, Shared
  <2>. QED
    BY <2>1, <2>2, <2>3 DEF ShmOfPublisher
<1>2. CASE ScanClassPath(s)
  <2>1. PICK x \in {None, case.scan} : tab' = [tab EXCEPT ![s] = x]
    BY <1>2 DEF ScanClassPath
  <2>2. /\ \A t \in Services \ {s} : tab'[t] = tab[t]
        /\ tab'[s] \in {None, case.scan} /\ case' = case /\ shm' = shm
    BY <1>2, <2>1 DEF ScanClassPath, TypeOK
  <2>3. \A t \in Services \ {s} : Publishes(t)' <=> Publishes(t)
    BY <2>2 DEF Publishes
  <2>4. /\ \A t \in Services : proc'[t]["supervisor"] = IF t = s THEN "publish" ELSE proc[t]["supervisor"]
        /\ proc[s]["supervisor"] = "scan"
    BY <1>2, PlacesStep DEF ScanClassPath, At
  <2>5. shm # None => shm.of \in Services \ {s}
    BY <2>4 DEF ShmOfPublisher, TypeOK, Shared
  <2>. QED
    BY <2>2, <2>3, <2>4, <2>5 DEF ShmOfPublisher
<1>3. ASSUME UNCHANGED <<case, tab>>, NEW k \in Kinds, NEW to, Goto(s, k, to),
             proc[s][k] \notin Over,
             k = "supervisor" =>
               /\ proc[s][k] # "scan"
               /\ to \in {"fill", "read", "open", "again", "serve", "join", "ended", "dead"}
               /\ to = "fill" => Publishes(s),
             shm' # None =>
               \/ Publishes(shm'.of) /\ shm'.of = s /\ k = "supervisor" /\ to \in {"fill", "read"}
               \/ shm' = shm /\ (k = "supervisor" /\ to = "ended" => shm.of # s)
      PROVE  ShmOfPublisher'
  <2>1. \A t \in Services, j \in Kinds : proc'[t][j] = IF t = s /\ j = k THEN to ELSE proc[t][j]
    BY <1>3, PlacesStep
  <2>2. \A t : Publishes(t)' <=> Publishes(t)
    BY <1>3 DEF Publishes
  <2>3. \A t \in Services :
          /\ proc'[t]["supervisor"] \notin {"off", "scan", "ended", "dead"} => tab[t] \in {None, case.scan}
          /\ proc'[t]["supervisor"] = "fill" => Publishes(t)
    BY <1>3, <2>1 DEF ShmOfPublisher, Over
  <2>4. shm' # None => /\ Publishes(shm'.of)
                       /\ proc'[shm'.of]["supervisor"] \notin {"off", "scan", "publish", "ended"}
    <3>1. CASE Publishes(shm'.of) /\ shm'.of = s /\ k = "supervisor" /\ to \in {"fill", "read"}
      BY <2>1, <3>1
    <3>2. CASE shm' # None /\ shm' = shm /\ (k = "supervisor" /\ to = "ended" => shm.of # s)
      <4>1. shm.of \in Services /\ Publishes(shm.of)
            /\ proc[shm.of]["supervisor"] \notin {"off", "scan", "publish", "ended"}
        BY <3>2 DEF TypeOK, Shared, ShmOfPublisher
      <4>. QED
        BY <1>3, <2>1, <3>2, <4>1
    <3>. QED
      BY <1>3, <3>1, <3>2
  <2>. QED
    BY <1>3, <2>2, <2>3, <2>4 DEF ShmOfPublisher
<1>4. CASE Truncate(s)
  <2>1. proc[s]["supervisor"] = "publish" /\ UNCHANGED <<case, tab>>
    BY <1>4 DEF Truncate, At
  <2>2. CASE Publishes(s)
    <3>1. shm' = [of |-> s, ses |-> Blank] /\ Goto(s, "supervisor", "fill")
      BY <1>4, <2>2 DEF Truncate
    <3>. QED
      BY <1>3, <2>1, <2>2, <3>1 DEF Over
  <2>3. CASE ~Publishes(s)
    <3>1. shm' = shm /\ Goto(s, "supervisor", "read")
      BY <1>4, <2>3 DEF Truncate
    <3>. QED
      BY <1>3, <2>1, <3>1 DEF Over
  <2>. QED
    BY <2>2, <2>3
<1>5. CASE Fill(s)
  <2>1. /\ proc[s]["supervisor"] = "fill" /\ UNCHANGED <<case, tab>> /\ Goto(s, "supervisor", "read")
        /\ shm' # None => shm'.of = s
    BY <1>5 DEF Fill, At
  <2>2. Publishes(s)
    BY <2>1 DEF ShmOfPublisher
  <2>. QED
    BY <1>3, <2>1, <2>2 DEF Over
<1>6. CASE ReadBack(s)
  <2>1. /\ proc[s]["supervisor"] = "read" /\ UNCHANGED <<case, tab, shm>>
        /\ \E to \in {"open", "join"} : Goto(s, "supervisor", to)
    BY <1>6 DEF ReadBack, At
  <2>. QED
    BY <1>3, <2>1 DEF Over
<1>7. ASSUME NEW k \in Kinds, OpenQueue(s, k) \/ QueueExists(s, k) \/ TryAgain(s, k)
      PROVE  ShmOfPublisher'
  <2>1. /\ proc[s][k] \in {"open", "again"} /\ UNCHANGED <<case, tab, shm>>
    BY <1>7 DEF OpenQueue, QueueExists, TryAgain, At
  <2>2. \E to : Goto(s, k, to) /\ (k = "supervisor" => to \in {"open", "again", "serve", "join"})
    BY <1>7 DEF OpenQueue, QueueExists, TryAgain
  <2>. QED
    BY <1>3, <2>1, <2>2 DEF Over
<1>8. ASSUME NEW k \in Kinds, Crash(s, k)
      PROVE  ShmOfPublisher'
  <2>1. proc[s][k] \notin Over /\ UNCHANGED <<case, tab, shm>> /\ Goto(s, k, "dead")
    BY <1>8 DEF Crash
  <2>2. CASE k = "supervisor" /\ proc[s][k] = "scan"
    <3>1. \A t \in Services, j \in Kinds : proc'[t][j] = IF t = s /\ j = k THEN "dead" ELSE proc[t][j]
      BY <2>1, PlacesStep
    <3>2. \A t : Publishes(t)' <=> Publishes(t)
      BY <2>1 DEF Publishes
    <3>3. shm # None => shm.of \in Services \ {s}
      BY <2>2 DEF ShmOfPublisher, TypeOK, Shared
    <3>. QED
      BY <2>1, <2>2, <3>1, <3>2, <3>3 DEF ShmOfPublisher
  <2>3. CASE ~(k = "supervisor" /\ proc[s][k] = "scan")
    BY <1>3, <2>1, <2>3
  <2>. QED
    BY <2>2, <2>3
<1>9. CASE LauncherCloses(s) \/ LauncherTells(s) \/ LauncherEnds(s)
  <2>1. /\ proc[s]["launcher"] \in {"serve", "tell", "wait"} /\ UNCHANGED <<case, tab, shm>>
        /\ \E to : Goto(s, "launcher", to)
    BY <1>9 DEF LauncherCloses, LauncherTells, LauncherEnds, At
  <2>. QED
    BY <1>3, <2>1 DEF Over
<1>10. CASE SupervisorCloses(s)
  <2>1. /\ proc[s]["supervisor"] = "serve" /\ UNCHANGED <<case, tab, shm>> /\ Goto(s, "supervisor", "join")
    BY <1>10 DEF SupervisorCloses, Receives, At
  <2>. QED
    BY <1>3, <2>1 DEF Over
<1>11. CASE MainReturns(s)
  <2>1. proc[s]["supervisor"] = "join" /\ UNCHANGED <<case, tab>> /\ Goto(s, "supervisor", "ended")
    BY <1>11 DEF MainReturns, At
  <2>2. shm' # None => shm' = shm /\ shm.of # s
    BY <1>11 DEF MainReturns, ShmUnlinked, ShmOfPublisher
  <2>. QED
    BY <1>3, <2>1, <2>2 DEF Over
<1>. QED
  BY <1>1, <1>2, <1>4, <1>5, <1>6, <1>7, <1>8, <1>9, <1>10, <1>11 DEF Moves
\* What a service has read back, or is about to.
TablesOf(t) ==
  /\ ses[t] # None => proc[t]["supervisor"] \notin {"off", "scan", "publish", "fill", "read"}
  /\ ~Overlap(t) =>
       /\ proc[t]["supervisor"] = "fill" => shm # None
       /\ proc[t]["supervisor"] = "read" /\ Publishes(t) => shm = Own(t)
       /\ ses[t] # None =>
            IF Publishes(t) THEN ses[t] = Own(t) ELSE proc[ses[t].of]["supervisor"] = "dead"

LEMMA TablesStep ==
  ASSUME TypeOK, Unstarted, OneRuns, ShmOfPublisher, TablesRead, NEW s \in Services, Start(s) \/ Moves(s)
  PROVE  TablesRead'
<1>. USE KindFacts
<1>. SUFFICES ASSUME NEW t \in Services
              PROVE  TablesOf(t)'
  BY DEF TablesRead, TablesOf
<1>1. TablesOf(t) /\ (~Overlap(t)' => ~Overlap(t))
  BY OverlapStep DEF TablesRead, TablesOf
<1>2. ses[t] # None => ses[t].of \in Services
  BY DEF TypeOK, Shared
<1>3. CASE Start(s)
  <2>1. /\ \A u \in Services \ {s} : proc'[u] = proc[u]
        /\ proc'[s]["supervisor"] \in {"scan", "ended"} /\ proc[s]["supervisor"] = "off"
        /\ UNCHANGED <<case, tab, shm, ses>> /\ ses[s] = None
    BY <1>3, Starts
  <2>2. CASE t = s
    BY <2>1, <2>2 DEF TablesOf
  <2>3. CASE t # s
    <3>1. Publishes(t)' <=> Publishes(t)
      BY <2>1 DEF Publishes
    <3>2. Own(t)' = Own(t)
      BY <2>1 DEF Own
    <3>. QED
      BY <1>1, <1>2, <2>1, <2>3, <3>1, <3>2 DEF TablesOf
  <2>. QED
    BY <2>2, <2>3
<1>4. ASSUME Moves(s)
      PROVE  /\ \E k \in Kinds : \E to : /\ proc[s][k] \notin Over /\ Goto(s, k, to)
                                         /\ \A u \in Services, j \in Kinds :
                                              proc'[u][j] = IF u = s /\ j = k THEN to ELSE proc[u][j]
             /\ case' = case /\ \A u \in Services \ {s} : tab'[u] = tab[u] /\ ses'[u] = ses[u]
  <2>1. PICK k \in Kinds : \E to : proc[s][k] \notin Over /\ Goto(s, k, to)
    BY <1>4, MovesOn
  <2>2. PICK to : Goto(s, k, to)
    BY <2>1
  <2>3. \A u \in Services, j \in Kinds : proc'[u][j] = IF u = s /\ j = k THEN to ELSE proc[u][j]
    BY <2>2, PlacesStep
  <2>4. /\ case' = case /\ \A u \in Services \ {s} : tab'[u] = tab[u] /\ ses'[u] = ses[u]
    BY <1>4, MovesOn
  <2>. QED
    BY <2>1, <2>2, <2>3, <2>4
<1>5. CASE Moves(s) /\ t # s
  <2>1. Runs(s) /\ (~Overlap(t)' => ~Runs(t))
    BY <1>1, <1>5, OverlapStep DEF OneRuns
  <2>2. proc'[t]["supervisor"] = proc[t]["supervisor"] /\ tab'[t] = tab[t] /\ ses'[t] = ses[t] /\ case' = case
    BY <1>4, <1>5
  <2>3. \A u \in Services : proc[u]["supervisor"] = "dead" => proc'[u]["supervisor"] = "dead"
    BY <1>4, <1>5 DEF Over
  <2>4. (Publishes(t)' <=> Publishes(t)) /\ Own(t)' = Own(t)
    BY <2>2 DEF Publishes, Own
  <2>5. ~Overlap(t)' => proc[t]["supervisor"] \in Over
    BY <2>1 DEF Runs
  <2>. QED
    BY <1>1, <1>2, <2>2, <2>3, <2>4, <2>5 DEF TablesOf, Over
<1>6. ASSUME t = s, UNCHANGED <<case, tab, ses>>, NEW k \in Kinds, NEW to, Goto(s, k, to), proc[s][k] \notin Over,
             shm' = shm \/ k = "supervisor",
             k = "supervisor" => to \in {"open", "again", "serve", "join", "ended", "dead"}
      PROVE  TablesOf(t)'
  <2>0. Goto(s, k, to)
    BY <1>6
  <2>1. \A u \in Services, j \in Kinds : proc'[u][j] = IF u = s /\ j = k THEN to ELSE proc[u][j]
    BY <2>0, PlacesStep
  <2>2. (Publishes(t)' <=> Publishes(t)) /\ Own(t)' = Own(t)
    BY <1>6 DEF Publishes, Own
  <2>3. \A u \in Services : proc[u]["supervisor"] = "dead" => proc'[u]["supervisor"] = "dead"
    BY <1>6, <2>1 DEF Over
  <2>4. CASE k = "supervisor"
    BY <1>1, <1>2, <1>6, <2>1, <2>2, <2>3, <2>4 DEF TablesOf
  <2>5. CASE k # "supervisor"
    BY <1>1, <1>2, <1>6, <2>1, <2>2, <2>3, <2>5 DEF TablesOf
  <2>. QED
    BY <2>4, <2>5
<1>7. CASE t = s /\ ScanClassPath(s)
  <2>1. proc[s]["supervisor"] = "scan" /\ Goto(s, "supervisor", "publish") /\ ses' = ses
    BY <1>7 DEF ScanClassPath, At
  <2>2. proc'[s]["supervisor"] = "publish"
    BY <2>1, PlacesStep
  <2>3. ses'[s] = None
    BY <1>1, <1>7, <2>1 DEF TablesOf
  <2>. QED
    BY <1>7, <2>2, <2>3 DEF TablesOf
<1>8. CASE t = s /\ Truncate(s)
  <2>1. proc[s]["supervisor"] = "publish" /\ UNCHANGED <<case, tab, ses>>
    BY <1>8 DEF Truncate, At
  <2>2. ses'[s] = None /\ (Publishes(s)' <=> Publishes(s))
    BY <1>1, <1>8, <2>1 DEF TablesOf, Publishes
  <2>3. CASE Publishes(s)
    <3>1. shm' = [of |-> s, ses |-> Blank] /\ Goto(s, "supervisor", "fill")
      BY <1>8, <2>3 DEF Truncate
    <3>2. shm' # None
      BY <3>1 DEF Shared, Sessions
    <3>3. proc'[s]["supervisor"] = "fill"
      BY <3>1, PlacesStep
    <3>. QED
      BY <1>8, <2>2, <3>2, <3>3 DEF TablesOf
  <2>4. CASE ~Publishes(s)
    <3>1. Goto(s, "supervisor", "read")
      BY <1>8, <2>4 DEF Truncate
    <3>2. proc'[s]["supervisor"] = "read"
      BY <3>1, PlacesStep
    <3>. QED
      BY <1>8, <2>2, <2>4, <3>2 DEF TablesOf
  <2>. QED
    BY <2>3, <2>4
<1>9. CASE t = s /\ Fill(s)
  <2>1. proc[s]["supervisor"] = "fill" /\ UNCHANGED <<case, tab, ses>> /\ Goto(s, "supervisor", "read")
    BY <1>9 DEF Fill, At
  <2>2. ses'[s] = None /\ Own(s)' = Own(s)
    BY <1>1, <1>9, <2>1 DEF TablesOf, Own
  <2>3. proc'[s]["supervisor"] = "read"
    BY <2>1, PlacesStep
  <2>4. ~Overlap(s)' => shm' = Own(s)
    <3>1. ~Overlap(s)' => shm # None
      BY <1>1, <1>9, <2>1 DEF TablesOf
    <3>. QED
      BY <1>9, <3>1 DEF Fill, Own
  <2>. QED
    BY <1>9, <2>2, <2>3, <2>4 DEF TablesOf
<1>10. CASE t = s /\ ReadBack(s)
  <2>1. proc[s]["supervisor"] = "read" /\ UNCHANGED <<case, tab, shm>>
    BY <1>10 DEF ReadBack, At
  <2>2. (Publishes(s)' <=> Publishes(s)) /\ Own(s)' = Own(s) /\ ses[s] = None
    BY <1>1, <1>10, <2>1 DEF TablesOf, Publishes, Own
  <2>3. CASE shm = None
    <3>1. Goto(s, "supervisor", "join") /\ ses' = ses
      BY <1>10, <2>3 DEF ReadBack
    <3>2. proc'[s]["supervisor"] = "join"
      BY <3>1, PlacesStep
    <3>. QED
      BY <1>10, <2>2, <3>1, <3>2 DEF TablesOf
  <2>4. CASE shm # None
    <3>1. Goto(s, "supervisor", "open") /\ ses'[s] = shm
      BY <1>10, <2>4 DEF ReadBack, TypeOK
    <3>2. \A u \in Services : proc'[u]["supervisor"] = IF u = s THEN "open" ELSE proc[u]["supervisor"]
      BY <3>1, PlacesStep
    <3>3. ~Overlap(s)' /\ Publishes(s) => shm = Own(s)
      BY <1>1, <1>10, <2>1 DEF TablesOf
    <3>4. ASSUME ~Overlap(s)', ~Publishes(s) PROVE proc'[shm.of]["supervisor"] = "dead"
      <4>1. /\ shm.of \in Services \ {s}
            /\ proc[shm.of]["supervisor"] \notin {"off", "scan", "publish", "ended"}
        BY <2>4, <3>4 DEF ShmOfPublisher, TypeOK, Shared
      <4>2. Runs(s)
        BY <2>1 DEF Runs, Over
      <4>3. ~Runs(shm.of)
        BY <1>1, <1>10, <3>4, <4>1, <4>2 DEF OneRuns
      <4>. QED
        BY <3>2, <4>1, <4>3 DEF Runs, Over
    <3>. QED
      BY <1>10, <2>2, <3>1, <3>2, <3>3, <3>4 DEF TablesOf
  <2>. QED
    BY <2>3, <2>4
<1>11. ASSUME t = s, NEW k \in Kinds, OpenQueue(s, k) \/ QueueExists(s, k) \/ TryAgain(s, k) \/ Crash(s, k)
       PROVE  TablesOf(t)'
  <2>1. UNCHANGED <<case, tab, ses, shm>> /\ proc[s][k] \notin Over
    BY <1>11 DEF OpenQueue, QueueExists, TryAgain, Crash, At, Over
  <2>2. \E to : Goto(s, k, to) /\ (k = "supervisor" => to \in {"open", "again", "serve", "join", "dead"})
    BY <1>11 DEF OpenQueue, QueueExists, TryAgain, Crash
  <2>. QED
    BY <1>6, <1>11, <2>1, <2>2
<1>12. CASE t = s /\ (LauncherCloses(s) \/ LauncherTells(s) \/ LauncherEnds(s))
  <2>1. /\ proc[s]["launcher"] \notin Over /\ UNCHANGED <<case, tab, ses, shm>>
        /\ \E to : Goto(s, "launcher", to)
    BY <1>12 DEF LauncherCloses, LauncherTells, LauncherEnds, At, Over
  <2>. QED
    BY <1>6, <1>12, <2>1
<1>13. CASE t = s /\ (SupervisorCloses(s) \/ MainReturns(s))
  <2>1. /\ proc[s]["supervisor"] \notin Over /\ UNCHANGED <<case, tab, ses>>
        /\ \E to \in {"join", "ended"} : Goto(s, "supervisor", to)
    BY <1>13 DEF SupervisorCloses, MainReturns, Receives, At, Over
  <2>. QED
    BY <1>6, <1>13, <2>1
<1>. QED
  BY <1>3, <1>5, <1>7, <1>8, <1>9, <1>10, <1>11, <1>12, <1>13 DEF Moves
\* A service that is alone is the only one to change the names of its queues while it serves them.
LEMMA ReachableStep ==
  ASSUME TypeOK, Unstarted, OneRuns, Reachable, NEW s \in Services, Start(s) \/ Moves(s)
  PROVE  Reachable'
<1>. USE KindFacts
<1>. SUFFICES ASSUME NEW t \in Services, NEW j \in Kinds, ~Overlap(t)', proc'[t][j] = "serve"
              PROVE  named'[j] = t
  BY DEF Reachable, At
<1>1. ~Overlap(t) /\ (proc[t][j] = "serve" => named[j] = t)
  BY OverlapStep DEF Reachable, At
<1>2. CASE Start(s)
  <2>1. t # s
    BY <1>2, Starts
  <2>. QED
    BY <1>1, <1>2, <2>1, Starts
<1>3. CASE Moves(s) /\ t # s
  <2>1. ~Runs(t)
    BY <1>1, <1>3, OverlapStep DEF OneRuns
  <2>2. proc'[t][j] = proc[t][j]
    BY <1>3, MovesOn, PlacesStep
  <2>. QED
    BY <2>1, <2>2 DEF Runs, Over
<1>4. ASSUME t = s, NEW k \in Kinds, NEW to, Goto(s, k, to), to # "serve", named'[j] = named[j] \/ j = k
      PROVE  named'[j] = t
  <2>1. proc'[s][j] = IF j = k THEN to ELSE proc[s][j]
    BY <1>4, PlacesStep
  <2>. QED
    BY <1>1, <1>4, <2>1
<1>5. CASE t = s /\ (ScanClassPath(s) \/ Truncate(s) \/ Fill(s) \/ ReadBack(s) \/ MainReturns(s))
  <2>1. named' = named /\ \E to \in {"publish", "fill", "read", "open", "join", "ended"} : Goto(s, "supervisor", to)
    BY <1>5 DEF ScanClassPath, Truncate, Fill, ReadBack, MainReturns
  <2>. QED
    BY <1>4, <1>5, <2>1
<1>6. ASSUME t = s, NEW k \in Kinds, OpenQueue(s, k)
      PROVE  named'[j] = t
  <2>1. named'[j] = IF j = k THEN s ELSE named[j]
    BY <1>6 DEF OpenQueue, Opened, TypeOK
  <2>2. proc'[s][j] = IF j = k THEN "serve" ELSE proc[s][j]
    BY <1>6, PlacesStep DEF OpenQueue
  <2>. QED
    BY <1>1, <1>6, <2>1, <2>2
<1>7. ASSUME t = s, NEW k \in Kinds, QueueExists(s, k) \/ TryAgain(s, k) \/ Crash(s, k)
      PROVE  named'[j] = t
  <2>1. \E to \in {"again", "open", "tell", "join", "dead"} : Goto(s, k, to)
    BY <1>7 DEF QueueExists, TryAgain, Crash
  <2>2. named'[j] = named[j] \/ j = k
    BY <1>7 DEF QueueExists, TryAgain, Crash, Unlinked, TypeOK
  <2>. QED
    BY <1>4, <1>7, <2>1, <2>2
<1>8. CASE t = s /\ (LauncherCloses(s) \/ LauncherTells(s))
  <2>1. \E to \in {"tell", "wait"} : Goto(s, "launcher", to)
    BY <1>8 DEF LauncherCloses, LauncherTells
  <2>2. named'[j] = named[j] \/ j = "launcher"
    BY <1>8 DEF LauncherCloses, LauncherTells, Unlinked, TypeOK
  <2>. QED
    BY <1>4, <1>8, <2>1, <2>2
<1>9. CASE t = s /\ LauncherEnds(s)
  <2>1. proc[s]["supervisor"] \in Over /\ Goto(s, "launcher", "ended")
    BY <1>9 DEF LauncherEnds
  <2>2. proc'[s][j] # "serve"
    BY <2>1, PlacesStep DEF Over
  <2>. QED
    BY <1>9, <2>2
<1>10. CASE t = s /\ SupervisorCloses(s)
  <2>1. Goto(s, "supervisor", "join")
    BY <1>10 DEF SupervisorCloses
  <2>2. named'[j] = named[j] \/ j = "supervisor"
    BY <1>10 DEF SupervisorCloses, Unlinked, TypeOK
  <2>. QED
    BY <1>4, <1>10, <2>1, <2>2
<1>. QED
  BY <1>2, <1>3, <1>5, <1>6, <1>7, <1>8, <1>9, <1>10 DEF Moves
-----------------------------------------------------------------------------
(* Commands.                                                               *)

\* The steps of services add no commands to queues.
LEMMA KeepMessages ==
  ASSUME MessagesSent, UNCHANGED clVars,
         \A k \in Kinds, s \in Services : Clients \cap Elems(mq'[k][s]) \subseteq Elems(mq[k][s])
  PROVE  MessagesSent'
BY DEF MessagesSent

\* What is received has been in the queue, and the rest stays.
LEMMA ReceivesElems ==
  ASSUME TypeOK, NEW s \in Services, NEW k \in Kinds, NEW m, Receives(s, k, m)
  PROVE  /\ m \in Elems(mq[k][s])
         /\ \A j \in Kinds, t \in Services : Elems(mq'[j][t]) \subseteq Elems(mq[j][t])
<1>1. mq[k][s] \in Seq(Clients \cup {Shutdown}) /\ mq[k][s] # <<>> /\ m = Head(mq[k][s])
  BY DEF TypeOK, Receives
<1>2. Elems(mq[k][s]) = {m} \cup Elems(Tail(mq[k][s]))
  BY <1>1, TailElems
<1>3. \A j \in Kinds, t \in Services :
        mq'[j][t] = IF j = k /\ t = s THEN Tail(mq[k][s]) ELSE mq[j][t]
  BY DEF TypeOK, Receives
<1>. QED
  BY <1>2, <1>3

LEMMA AppendsElems ==
  ASSUME TypeOK, NEW s \in Services, NEW k \in Kinds, NEW m \in Clients \cup {Shutdown},
         mq' = [mq EXCEPT ![k][s] = Append(@, m)]
  PROVE  \A j \in Kinds, t \in Services :
           Elems(mq'[j][t]) = IF j = k /\ t = s THEN Elems(mq[k][s]) \cup {m} ELSE Elems(mq[j][t])
<1>1. Elems(Append(mq[k][s], m)) = Elems(mq[k][s]) \cup {m}
  <2>1. mq[k][s] \in Seq(Clients \cup {Shutdown})
    BY DEF TypeOK
  <2>. QED
    BY <2>1, AppendElems
<1>2. \A j \in Kinds, t \in Services :
        mq'[j][t] = IF j = k /\ t = s THEN Append(mq[k][s], m) ELSE mq[j][t]
  BY DEF TypeOK
<1>3. ASSUME NEW j \in Kinds, NEW t \in Services
      PROVE  Elems(mq'[j][t]) = IF j = k /\ t = s THEN Elems(mq[k][s]) \cup {m} ELSE Elems(mq[j][t])
  <2>1. CASE j = k /\ t = s
    <3>1. mq'[j][t] = Append(mq[k][s], m)
      BY <1>2, <2>1
    <3>. QED
      BY <1>1, <2>1, <3>1
  <2>2. CASE ~(j = k /\ t = s)
    <3>1. mq'[j][t] = mq[j][t]
      BY <1>2, <2>2
    <3>. QED
      BY <2>2, <3>1
  <2>. QED
    BY <2>1, <2>2
<1>. QED
  BY <1>3

\* A step of a service changes nothing of the clients, and puts none of their commands on a queue.
MessagesKept ==
  /\ UNCHANGED clVars
  /\ \A k \in Kinds, s \in Services : Clients \cap Elems(mq'[k][s]) \subseteq Elems(mq[k][s])

LEMMA QueuesOfServices ==
  ASSUME TypeOK, NEW s \in Services, Service(s)
  PROVE  MessagesKept
<1>1. CASE mq' = mq /\ UNCHANGED clVars
  BY <1>1 DEF MessagesKept
<1>2. ASSUME NEW k \in Kinds, OpenQueue(s, k)
      PROVE  MessagesKept
  <2>1. UNCHANGED clVars
    BY <1>2 DEF OpenQueue
  <2>2. \A j \in Kinds, t \in Services : mq'[j][t] = <<>> \/ mq'[j][t] = mq[j][t]
    BY <1>2 DEF OpenQueue, Opened, TypeOK
  <2>3. \A j \in Kinds, t \in Services : Clients \cap Elems(mq'[j][t]) \subseteq Elems(mq[j][t])
    BY <2>2, NoElems
  <2>. QED
    BY <2>1, <2>3 DEF MessagesKept
<1>3. CASE LauncherTells(s)
  <2>. DEFINE t == named["supervisor"]
  <2>1. UNCHANGED clVars
    BY <1>3 DEF LauncherTells
  <2>2. CASE t = None
    <3>1. mq' = mq
      BY <1>3, <2>2 DEF LauncherTells
    <3>. QED
      BY <1>1, <2>1, <3>1
  <2>3. CASE t # None
    <3>1. t \in Services /\ mq' = [mq EXCEPT !["supervisor"][t] = Append(@, Shutdown)]
      BY <1>3, <2>3, KindFacts DEF LauncherTells, TypeOK
    <3>. HIDE DEF t
    <3>2. \A j \in Kinds, u \in Services :
            Elems(mq'[j][u]) = IF j = "supervisor" /\ u = t THEN Elems(mq["supervisor"][t]) \cup {Shutdown}
                               ELSE Elems(mq[j][u])
      <4>1. "supervisor" \in Kinds /\ Shutdown \in Clients \cup {Shutdown}
        BY KindFacts
      <4>. QED
        BY <3>1, <4>1, AppendsElems
    <3>3. \A j \in Kinds, u \in Services : Clients \cap Elems(mq'[j][u]) \subseteq Elems(mq[j][u])
      BY <3>2, ServicesAssumption
    <3>. QED
      BY <2>1, <3>3 DEF MessagesKept
  <2>. QED
    BY <2>2, <2>3
<1>4. CASE SupervisorCloses(s)
  <2>1. UNCHANGED clVars /\ Receives(s, "supervisor", Shutdown)
    BY <1>4 DEF SupervisorCloses
  <2>2. \A j \in Kinds, t \in Services : Elems(mq'[j][t]) \subseteq Elems(mq[j][t])
    BY <2>1, ReceivesElems, KindFacts
  <2>. QED
    BY <2>1, <2>2 DEF MessagesKept
<1>5. CASE Start(s) \/ ScanClassPath(s) \/ Truncate(s) \/ Fill(s) \/ ReadBack(s)
  BY <1>1, <1>5 DEF Start, ScanClassPath, Truncate, Fill, ReadBack
<1>6. ASSUME NEW k \in Kinds, QueueExists(s, k) \/ TryAgain(s, k) \/ Crash(s, k)
      PROVE  MessagesKept
  BY <1>1, <1>6 DEF QueueExists, TryAgain, Crash
<1>7. CASE LauncherCloses(s) \/ LauncherEnds(s) \/ MainReturns(s)
  BY <1>1, <1>7 DEF LauncherCloses, LauncherEnds, MainReturns
<1>8. ASSUME NEW p \in GivenPoints, StandardCall(s, p)
      PROVE  MessagesKept
  BY <1>1, <1>8 DEF StandardCall
<1>. QED
  BY <1>2, <1>3, <1>4, <1>5, <1>6, <1>7, <1>8 DEF Service

LEMMA MessagesOfServices ==
  ASSUME TypeOK, MessagesSent, NEW s \in Services, Service(s)
  PROVE  MessagesSent'
BY QueuesOfServices, KeepMessages DEF MessagesKept

LEMMA MessagesOfCommands ==
  ASSUME TypeOK, MessagesSent, NEW c \in Clients, Command(c)
  PROVE  MessagesSent'
<1>1. ASSUME \A k \in Kinds, s \in Services : Elems(mq'[k][s]) \subseteq Elems(mq[k][s]),
             sentTo' = sentTo, NEW to, ClientGoto(c, to), \A d \in Clients \ {c} : ran'[d] = ran[d],
             \/ cl[c] = "start" /\ to \in {"failed", "send"} /\ ran'[c] = ran[c]
             \/ to \notin {"start", "send"} /\ ran'[c].service = sentTo[c]
             \/ to = "lost" /\ ran'[c] = ran[c]
      PROVE  MessagesSent'
  <2>1. cl'[c] = to /\ \A d \in Clients \ {c} : cl'[d] = cl[d] /\ ran'[d] = ran[d]
    BY <1>1 DEF ClientGoto, TypeOK
  <2>2. ASSUME NEW k \in Kinds, NEW s \in Services, NEW d \in Clients \cap Elems(mq'[k][s])
        PROVE  sentTo'[d] = s /\ cl'[d] \notin {"start", "send"}
    <3>1. sentTo[d] = s /\ cl[d] \notin {"start", "send"}
      BY <1>1, <2>2 DEF MessagesSent
    <3>. QED
      BY <1>1, <2>1, <3>1
  <2>3. ASSUME NEW d \in Clients
        PROVE  /\ cl'[d] \in {"start", "send"} => ran'[d] = None
               /\ cl'[d] = "forked" \/ ran'[d] # None => ran'[d].service = sentTo'[d]
    BY <1>1, <2>1 DEF MessagesSent
  <2>. QED
    BY <2>2, <2>3 DEF MessagesSent
<1>2. CASE ClientRoutes(c)
  <2>1. /\ mq' = mq /\ sentTo' = sentTo /\ ran' = ran /\ cl[c] = "start"
        /\ \E to \in {"failed", "send"} : ClientGoto(c, to)
    BY <1>2 DEF ClientRoutes
  <2>. QED
    BY <1>1, <2>1
<1>3. CASE ClientSends(c)
  <2>. DEFINE k == route[c].kind
              s == named[k]
  <2>1. k \in Kinds /\ s \in {None} \cup Services /\ cl[c] = "send" /\ ran' = ran
    BY <1>3 DEF ClientSends, TypeOK
  <2>2. /\ \A j \in Kinds, t \in Services : c \notin Elems(mq[j][t])
        /\ ran[c] = None
    BY <2>1 DEF MessagesSent
  <2>3. CASE s = None
    <3>1. mq' = mq /\ sentTo' = sentTo /\ cl' = [cl EXCEPT ![c] = "failed"]
      BY <1>3, <2>3 DEF ClientSends, ClientGoto
    <3>2. cl'[c] = "failed" /\ \A d \in Clients \ {c} : cl'[d] = cl[d]
      BY <3>1 DEF TypeOK
    <3>. QED
      BY <2>1, <2>2, <3>1, <3>2 DEF MessagesSent
  <2>4. CASE s # None
    <3>1. /\ s \in Services /\ mq' = [mq EXCEPT ![k][s] = Append(@, c)]
          /\ sentTo' = [sentTo EXCEPT ![c] = s] /\ cl' = [cl EXCEPT ![c] = "sent"]
      BY <1>3, <2>1, <2>4 DEF ClientSends, ClientGoto
    <3>2. /\ sentTo'[c] = s /\ cl'[c] = "sent"
          /\ \A d \in Clients \ {c} : sentTo'[d] = sentTo[d] /\ cl'[d] = cl[d]
      BY <3>1 DEF TypeOK
    <3>. HIDE DEF k, s
    <3>3. \A j \in Kinds, t \in Services :
            Elems(mq'[j][t]) = IF j = k /\ t = s THEN Elems(mq[k][s]) \cup {c} ELSE Elems(mq[j][t])
      <4>1. k \in Kinds /\ c \in Clients \cup {Shutdown}
        BY <2>1
      <4>. QED
        BY <3>1, <4>1, AppendsElems
    <3>4. ASSUME NEW j \in Kinds, NEW t \in Services, NEW d \in Clients \cap Elems(mq'[j][t])
          PROVE  sentTo'[d] = t /\ cl'[d] \notin {"start", "send"}
      <4>1. CASE d = c
        BY <2>2, <3>2, <3>3, <3>4, <4>1
      <4>2. CASE d # c
        <5>1. d \in Elems(mq[j][t])
          BY <3>3, <3>4, <4>2
        <5>. QED
          BY <3>2, <3>4, <4>2, <5>1 DEF MessagesSent
      <4>. QED
        BY <4>1, <4>2
    <3>. QED
      BY <2>1, <2>2, <3>2, <3>4 DEF MessagesSent
  <2>. QED
    BY <2>3, <2>4
<1>4. CASE WorkerRuns(c)
  <2>1. /\ mq' = mq /\ sentTo' = sentTo /\ cl[c] = "forked"
        /\ \E to \in {"lost", "done"} : ClientGoto(c, to)
    BY <1>4 DEF WorkerRuns
  <2>2. ran'[c].service = ran[c].service /\ \A d \in Clients \ {c} : ran'[d] = ran[d]
    BY <1>4 DEF WorkerRuns, Executes, TypeOK
  <2>3. ran[c].service = sentTo[c]
    BY <2>1 DEF MessagesSent
  <2>. QED
    BY <1>1, <2>1, <2>2, <2>3
<1>5. ASSUME NEW s \in Services, NEW k \in Kinds, Receives(s, k, c), sentTo' = sentTo,
             NEW to \in {"forked", "done", "lost"}, ClientGoto(c, to),
             (to = "lost" /\ ran' = ran) \/ (\E role, m : Executes(c, s, role, m))
      PROVE  MessagesSent'
  <2>1. sentTo[c] = s
    BY <1>5, ReceivesElems DEF MessagesSent
  <2>2. /\ \A d \in Clients \ {c} : ran'[d] = ran[d]
        /\ \/ to = "lost" /\ ran'[c] = ran[c]
           \/ ran'[c].service = s
    BY <1>5 DEF Executes, TypeOK
  <2>3. \A j \in Kinds, t \in Services : Elems(mq'[j][t]) \subseteq Elems(mq[j][t])
    BY <1>5, ReceivesElems
  <2>. QED
    BY <1>1, <1>5, <2>1, <2>2, <2>3
<1>6. ASSUME NEW s \in Services, ForkWorker(s, c)
      PROVE  MessagesSent'
  <2>1. Receives(s, "launcher", c) /\ sentTo' = sentTo /\ ClientGoto(c, "forked") /\ Executes(c, s, "worker", None)
    BY <1>6 DEF ForkWorker
  <2>. QED
    BY <1>5, <2>1, KindFacts
<1>7. ASSUME NEW s \in Services, SupervisorRuns(s, c)
      PROVE  MessagesSent'
  <2>. DEFINE m == SupervisorMethod(ses[s].ses, WordOf[c])
  <2>1. Receives(s, "supervisor", c) /\ sentTo' = sentTo
    BY <1>7 DEF SupervisorRuns
  <2>2. \/ ClientGoto(c, "lost") /\ ran' = ran
        \/ ClientGoto(c, "done") /\ Executes(c, s, "supervisor", m)
    BY <1>7 DEF SupervisorRuns
  <2>. HIDE DEF m
  <2>. QED
    BY <1>5, <2>1, <2>2, KindFacts
<1>. QED
  BY <1>2, <1>3, <1>4, <1>6, <1>7 DEF Command
-----------------------------------------------------------------------------
(* The invariant, and what follows from it.                                *)

LEMMA InvInit == Init => ServicesInv
<1>. SUFFICES ASSUME Init
              PROVE  ServicesInv
  OBVIOUS
<1>. USE KindFacts
<1>1. /\ shm = None /\ \A k \in Kinds : named[k] = None
      /\ \A s \in Services : ses[s] = None /\ met[s] = {}
      /\ \A s \in Services, k \in Kinds : proc[s][k] = "off" /\ tries[s][k] = 0 /\ mq[k][s] = <<>>
      /\ \A c \in Clients : cl[c] = "start" /\ ran[c] = None
  BY DEF Init
<1>2. TypeOK
  BY TypeInit
<1>3. Unstarted /\ NamesServed /\ SecondTry /\ ShmOfPublisher /\ TablesRead /\ Reachable
  <2>1. Unstarted
    BY <1>1 DEF Unstarted
  <2>2. NamesServed /\ Reachable
    BY <1>1 DEF NamesServed, Reachable, At
  <2>3. SecondTry
    BY <1>1 DEF SecondTry
  <2>4. ShmOfPublisher
    BY <1>1 DEF ShmOfPublisher
  <2>5. TablesRead
    BY <1>1 DEF TablesRead
  <2>. QED
    BY <2>1, <2>2, <2>3, <2>4, <2>5
<1>4. OneRuns
  <2>1. \A s \in Services : ~Runs(s)
    BY <1>1 DEF Runs, Over
  <2>. QED
    BY <2>1 DEF OneRuns
<1>5. MessagesSent
  BY <1>1, NoElems DEF MessagesSent
<1>. QED
  BY <1>2, <1>3, <1>4, <1>5 DEF ServicesInv

LEMMA InvStep == ServicesInv /\ [Next]_vars => ServicesInv'
<1>. SUFFICES ASSUME ServicesInv, [Next]_vars
              PROVE  ServicesInv'
  OBVIOUS
<1>1. /\ TypeOK /\ Unstarted /\ OneRuns /\ NamesServed /\ SecondTry /\ ShmOfPublisher /\ TablesRead
      /\ Reachable /\ MessagesSent
  BY DEF ServicesInv
<1>2. TypeOK'
  BY <1>1, TypeStep
<1>3. MessagesSent'
  <2>1. CASE UNCHANGED vars
    BY <1>1, <2>1 DEF vars, MessagesSent
  <2>. QED
    BY <1>1, <2>1, MessagesOfServices, MessagesOfCommands DEF Next
<1>4. ASSUME NEW s \in Services, Start(s) \/ Moves(s)
      PROVE  Unstarted' /\ OneRuns' /\ NamesServed' /\ SecondTry' /\ ShmOfPublisher' /\ TablesRead' /\ Reachable'
  BY <1>1, <1>4, UnstartedStep, OneRunsStep, NamesStep, SecondTryStep, ShmStep, TablesStep, ReachableStep
<1>5. ASSUME UNCHANGED <<case, proc, met, tries, tab, ses, shm, named>>
      PROVE  Unstarted' /\ OneRuns' /\ NamesServed' /\ SecondTry' /\ ShmOfPublisher' /\ TablesRead' /\ Reachable'
  <2>1. \A s \in Services : /\ (Overlap(s)' <=> Overlap(s)) /\ (Runs(s)' <=> Runs(s))
                            /\ (Publishes(s)' <=> Publishes(s)) /\ Own(s)' = Own(s)
    BY <1>5 DEF Overlap, Runs, Publishes, Own
  <2>2. Unstarted' /\ NamesServed'
    BY <1>1, <1>5 DEF Unstarted, NamesServed
  <2>3. OneRuns' /\ SecondTry'
    BY <1>1, <1>5, <2>1 DEF OneRuns, SecondTry
  <2>4. ShmOfPublisher'
    BY <1>1, <1>5 DEF ShmOfPublisher, Publishes
  <2>5. TablesRead'
    BY <1>1, <1>5, <2>1 DEF TablesRead
  <2>6. Reachable'
    BY <1>1, <1>5, <2>1 DEF Reachable, At
  <2>. QED
    BY <2>2, <2>3, <2>4, <2>5, <2>6
<1>6. Unstarted' /\ OneRuns' /\ NamesServed' /\ SecondTry' /\ ShmOfPublisher' /\ TablesRead' /\ Reachable'
  <2>1. 1 \in Services
    BY ServicesAssumption DEF Services
  <2>2. \/ \E s \in Services : Start(s) \/ Moves(s)
        \/ \E s \in Services, p \in GivenPoints : StandardCall(s, p)
        \/ \E c \in Clients : Command(c)
        \/ UNCHANGED vars
    BY DEF Next, Service, Moves
  <2>. QED
    BY <1>4, <1>5, <2>1, <2>2, Quiet
<1>. QED
  BY <1>1, <1>2, <1>3, <1>6 DEF ServicesInv

\* In every state of every number of services that are started, crash and are started again, the
\* names, the shared memory and the queues are as the conjuncts of the invariant say.
THEOREM ServicesInvariant == Spec => []ServicesInv
<1>1. Init => ServicesInv
  BY InvInit
<1>2. ServicesInv /\ [Next]_vars => ServicesInv'
  BY InvStep
<1>. QED
  BY <1>1, <1>2, PTL DEF Spec

\* A service executes the commands that were sent to it, and none that another one has left in a
\* queue of that name.
THEOREM CommandsAreFresh == Spec => []FreshCommands
<1>1. ServicesInv => FreshCommands
  BY DEF ServicesInv, MessagesSent, FreshCommands
<1>. QED
  BY <1>1, ServicesInvariant, PTL

\* A service that ran alone works with the tables of its own scan, and if that scan has failed with
\* those of a service whose supervisor has crashed.
THEOREM TablesAreOwn == Spec => []OwnTables
<1>1. ServicesInv => OwnTables
  BY DEF ServicesInv, TablesRead, Own, OwnTables
<1>. QED
  BY <1>1, ServicesInvariant, PTL

\* The names of the queues lead to the service that serves them, as long as it has met no other.
THEOREM NamesReach == Spec => []Reachable
<1>1. ServicesInv => Reachable
  BY DEF ServicesInv
<1>. QED
  BY <1>1, ServicesInvariant, PTL

\* Whatever crashed services have left in the kernel, a service that is started alone opens its queues
\* before it runs out of tries.
THEOREM AlwaysRestartable == Spec => []Restartable
<1>1. ServicesInv => Restartable
  BY DEF ServicesInv, SecondTry, Restartable, Tries
<1>. QED
  BY <1>1, ServicesInvariant, PTL

\* Services that have all ended without a crash leave neither queues nor shared memory behind.
THEOREM NothingIsLeft == Spec => []NothingLeft
<1>1. ServicesInv => NothingLeft
  <2>. SUFFICES ASSUME ServicesInv, \A s \in 1..case.services, k \in Kinds : At(s, k, "ended")
                PROVE  shm = None /\ \A k \in Kinds : named[k] = None
    BY DEF NothingLeft
  <2>. USE KindFacts
  <2>1. TypeOK /\ Unstarted /\ NamesServed /\ ShmOfPublisher
    BY DEF ServicesInv
  <2>2. \A s \in Services, k \in Kinds : proc[s][k] \in {"off", "ended"}
    <3>1. SUFFICES ASSUME NEW s \in Services, NEW k \in Kinds, proc[s][k] # "off"
                   PROVE  proc[s][k] = "ended"
      OBVIOUS
    <3>2. case.services \in 1..N
      BY <2>1, ServicesAssumption DEF TypeOK
    <3>3. s \in 1..case.services
      BY <2>1, <3>1, <3>2 DEF Unstarted, Services
    <3>. QED
      BY <3>3 DEF At
  <2>3. shm = None
    <3>1. shm # None => shm.of \in Services /\ proc[shm.of]["supervisor"] \notin {"off", "ended"}
      BY <2>1 DEF TypeOK, Shared, ShmOfPublisher
    <3>. QED
      BY <2>2, <3>1
  <2>4. ASSUME NEW k \in Kinds PROVE named[k] = None
    <3>1. named[k] # None => named[k] \in Services /\ proc[named[k]][k] \notin {"off", "ended"}
      BY <2>1 DEF TypeOK, NamesServed
    <3>. QED
      BY <2>2, <3>1
  <2>. QED
    BY <2>3, <2>4
<1>. QED
  BY <1>1, ServicesInvariant, PTL

-----------------------------------------------------------------------------
(* The scan of the class path.                                             *)

TableRoles == {"supervisor", "worker"}
OfRole(role) == {m \in Methods : m.role = role}
UsersOf(role) == {m \in OfRole(role) : ~IsTest(m)}
TestsOf(role) == {m \in OfRole(role) : IsTest(m)}

\* A table in which the user's methods come before those of the library.
UsersInFront(table, role) ==
  \E u \in Seq(UsersOf(role)), t \in Seq(TestsOf(role)) : table = u \o t

\* A table with all of the user's methods among the given ones.
Has(table, role, found) == found \cap UsersOf(role) \subseteq Elems(table)

LEMMA SetsOfElems ==
  ASSUME NEW S, NEW s \in Seq(S)
  PROVE  ToSet(s) = Elems(s) /\ Elems(s) \subseteq S
<1>1. DOMAIN s = 1..Len(s) /\ \A i \in 1..Len(s) : s[i] \in S
  BY LenProperties, ElementOfSeq
<1>. QED
  BY <1>1 DEF ToSet, Elems

LEMMA FrontType ==
  ASSUME NEW role, NEW table, UsersInFront(table, role)
  PROVE  table \in Seq(OfRole(role))
<1>1. PICK u \in Seq(UsersOf(role)), t \in Seq(TestsOf(role)) : table = u \o t
  BY DEF UsersInFront
<1>2. Seq(UsersOf(role)) \subseteq Seq(OfRole(role)) /\ Seq(TestsOf(role)) \subseteq Seq(OfRole(role))
  <2>1. UsersOf(role) \subseteq OfRole(role) /\ TestsOf(role) \subseteq OfRole(role)
    BY DEF UsersOf, TestsOf
  <2>. QED
    BY <2>1, SeqMonotonic
<1>3. u \in Seq(OfRole(role)) /\ t \in Seq(OfRole(role))
  BY <1>2
<1>. QED
  BY <1>1, <1>3, ConcatProperties

\* The user's methods of a table are a table of their own, and none of them is lost.
LEMMA UsersAlone ==
  ASSUME NEW role, NEW table, table \in Seq(OfRole(role))
  PROVE  /\ UsersInFront(Users(table), role)
         /\ Elems(table) \cap UsersOf(role) \subseteq Elems(Users(table))
<1>. DEFINE R == {m \in ToSet(table) : ~IsTest(m)}
<1>1. ToSet(table) = Elems(table) /\ Elems(table) \subseteq OfRole(role)
  BY SetsOfElems, Zenon
<1>2. OfRole(role) \cap R \subseteq UsersOf(role)
  BY DEF UsersOf
<1>3. Elems(table) \cap UsersOf(role) \subseteq Elems(table) \cap R
  BY <1>1 DEF UsersOf
<1>4. Users(table) = Selected(table, R)
  BY DEF Users
<1>. HIDE DEF R
<1>5. Selected(table, R) \in Seq(UsersOf(role))
  <2>1. Selected(table, R) \in Seq(OfRole(role) \cap R)
    BY SelectedType, Zenon
  <2>2. Seq(OfRole(role) \cap R) \subseteq Seq(UsersOf(role))
    BY <1>2, SeqMonotonic
  <2>. QED
    BY <2>1, <2>2
<1>6. Elems(table) \cap R \subseteq Elems(Selected(table, R))
  BY SelectedKeeps, Zenon
<1>7. UsersInFront(Selected(table, R), role)
  <2>1. PICK u : u = Selected(table, R)
    OBVIOUS
  <2>2. u \in Seq(UsersOf(role)) /\ u = u \o <<>>
    BY <1>5, <2>1, ConcatEmptySeq
  <2>3. <<>> \in Seq(TestsOf(role))
    BY EmptySeq
  <2>. QED
    BY <2>1, <2>2, <2>3, Zenon DEF UsersInFront
<1>. QED
  BY <1>3, <1>4, <1>6, <1>7

\* One more method is scanned.
LEMMA ScanOne ==
  ASSUME NEW role \in TableRoles, NEW tables, NEW m \in Methods, NEW found,
         UsersInFront(tables[role], role), Has(tables[role], role, found)
  PROVE  /\ UsersInFront(ScanMethod(tables, m)[role], role)
         /\ Has(ScanMethod(tables, m)[role], role, found \cup {m})
<1>. DEFINE isMain == m.role = "main" /\ (tables.main = None \/ IsTest(tables.main))
            with == IF m.role = role THEN Append(tables[role], m) ELSE tables[role]
            new == ScanMethod(tables, m)[role]
<1>1. new = IF Ousts(m, isMain, role) THEN Users(with) ELSE with
  <2>1. CASE role = "supervisor"
    BY <2>1 DEF ScanMethod
  <2>2. CASE role = "worker"
    BY <2>2 DEF ScanMethod
  <2>. QED
    BY <2>1, <2>2 DEF TableRoles
<1>. HIDE DEF new, isMain
<1>2. PICK table : table = tables[role]
  OBVIOUS
<1>3. table \in Seq(OfRole(role)) /\ UsersInFront(table, role) /\ Has(table, role, found)
  BY <1>2, FrontType, Zenon
<1>4. m.role = role => m \in OfRole(role)
  BY DEF OfRole
<1>5. /\ with \in Seq(OfRole(role))
      /\ Elems(with) = IF m.role = role THEN Elems(table) \cup {m} ELSE Elems(table)
  <2>1. CASE m.role = role
    <3>1. Append(table, m) \in Seq(OfRole(role))
      BY <1>3, <1>4, <2>1, AppendProperties
    <3>2. Elems(Append(table, m)) = Elems(table) \cup {m}
      <4>1. table \in Seq(OfRole(role)) /\ m \in OfRole(role)
        BY <1>3, <1>4, <2>1
      <4>. QED
        BY <4>1, AppendElems
    <3>. QED
      BY <1>2, <2>1, <3>1, <3>2
  <2>2. CASE m.role # role
    BY <1>2, <1>3, <2>2
  <2>. QED
    BY <2>1, <2>2
<1>6. Has(with, role, found \cup {m})
  <2>1. m \in UsersOf(role) => m.role = role
    BY DEF UsersOf, OfRole
  <2>. QED
    BY <1>3, <1>5, <2>1 DEF Has
<1>7. CASE Ousts(m, isMain, role)
  <2>1. PICK w : w = with /\ w \in Seq(OfRole(role))
    BY <1>5
  <2>2. UsersInFront(Users(w), role) /\ Elems(w) \cap UsersOf(role) \subseteq Elems(Users(w))
    BY <2>1, UsersAlone, Zenon
  <2>3. Has(Users(w), role, found \cup {m})
    BY <1>6, <2>1, <2>2 DEF Has
  <2>. QED
    BY <1>1, <1>7, <2>1, <2>2, <2>3 DEF new
<1>8. CASE ~Ousts(m, isMain, role)
  <2>1. UsersInFront(with, role)
    <3>1. CASE m.role # role
      BY <1>2, <1>3, <3>1
    <3>2. CASE m.role = role
      <4>1. m \in TestsOf(role)
        BY <1>4, <1>8, <3>2 DEF Ousts, TestsOf
      <4>2. PICK u, t : u \in Seq(UsersOf(role)) /\ t \in Seq(TestsOf(role)) /\ table = u \o t
        BY <1>3 DEF UsersInFront
      <4>3. Append(t, m) \in Seq(TestsOf(role))
        BY <4>1, <4>2, AppendProperties
      <4>4. Append(u \o t, m) = u \o Append(t, m)
        <5>1. UsersOf(role) \subseteq OfRole(role) /\ TestsOf(role) \subseteq OfRole(role)
          BY DEF UsersOf, TestsOf
        <5>2. u \in Seq(OfRole(role)) /\ t \in Seq(OfRole(role)) /\ m \in OfRole(role)
          BY <4>1, <4>2, <5>1, SeqMonotonic
        <5>. QED
          BY <5>2
      <4>5. with = u \o Append(t, m)
        BY <1>2, <3>2, <4>2, <4>4
      <4>. QED
        BY <4>2, <4>3, <4>5, Zenon DEF UsersInFront
    <3>. QED
      BY <3>1, <3>2
  <2>. QED
    BY <1>1, <1>6, <1>8, <2>1 DEF new
<1>. QED
  BY <1>7, <1>8

\* The recursive definition in Scan has a solution.
ScanStep(order, f, n) == IF n = 0 THEN NoTables ELSE ScanMethod(f[n - 1], order[n])
Scanned(order) == CHOOSE f : f = [n \in 0..Len(order) |-> ScanStep(order, f, n)]

LEMMA ScanExists ==
  ASSUME NEW order, Len(order) \in Nat
  PROVE  /\ Scan(order) = Scanned(order)[Len(order)]
         /\ Scanned(order) = [n \in 0..Len(order) |-> ScanStep(order, Scanned(order), n)]
<1>. DEFINE Solves(f, m) == f = [n \in 0..m |-> ScanStep(order, f, n)]
            I == {m \in Nat : \E f : Solves(f, m)}
<1>1. 0 \in I
  <2>. DEFINE f == [n \in 0..0 |-> NoTables]
  <2>1. f = [n \in 0..0 |-> ScanStep(order, f, n)]
    BY DEF ScanStep
  <2>. QED
    BY <2>1
<1>2. ASSUME NEW m \in Nat, m \in I
      PROVE  m + 1 \in I
  <2>1. PICK g : Solves(g, m)
    BY <1>2
  <2>. DEFINE f == [n \in 0..(m + 1) |-> IF n = m + 1 THEN ScanStep(order, g, n) ELSE g[n]]
  <2>2. \A n \in 0..m : f[n] = g[n]
    OBVIOUS
  <2>3. \A n \in 0..(m + 1) : n # 0 => n - 1 \in 0..m
    OBVIOUS
  <2>4. \A n \in 0..(m + 1) : f[n] = ScanStep(order, f, n)
    <3>1. TAKE n \in 0..(m + 1)
    <3>2. ScanStep(order, f, n) = ScanStep(order, g, n)
      BY <2>2, <2>3 DEF ScanStep
    <3>3. n \in 0..m => g[n] = ScanStep(order, g, n)
      BY <2>1
    <3>. QED
      BY <3>2, <3>3
  <2>5. Solves(f, m + 1)
    BY <2>4
  <2>. HIDE DEF Solves, f
  <2>. QED
    BY <2>5
<1>3. Len(order) \in I
  <2>. HIDE DEF I
  <2>1. Nat \subseteq I
    BY <1>1, <1>2, InductiveSet
  <2>. QED
    BY <2>1
<1>4. Scan(order) = Scanned(order)[Len(order)]
  BY DEF Scan, Scanned, ScanStep
<1>5. PICK f : Solves(f, Len(order))
  BY <1>3
<1>6. Scanned(order) = CHOOSE g : Solves(g, Len(order))
  BY DEF Scanned
<1>. HIDE DEF Solves
<1>7. Solves(CHOOSE g : Solves(g, Len(order)), Len(order))
  BY <1>5
<1>8. Solves(Scanned(order), Len(order))
  BY <1>6, <1>7
<1>. QED
  BY <1>4, <1>8 DEF Solves

\* In whatever order the class path is scanned, the user's methods end up in front, and all of them.
LEMMA ScanFacts ==
  ASSUME NEW order \in Seq(Methods), NEW role \in TableRoles
  PROVE  /\ UsersInFront(Scan(order)[role], role)
         /\ Has(Scan(order)[role], role, Elems(order))
<1>. DEFINE seen(n) == {order[i] : i \in 1..n}
<1>1. Len(order) \in Nat /\ \A n \in 1..Len(order) : order[n] \in Methods
  BY LenProperties, ElementOfSeq
<1>2. PICK f : f = Scanned(order)
  OBVIOUS
<1>3. Scan(order) = f[Len(order)] /\ f = [n \in 0..Len(order) |-> ScanStep(order, f, n)]
  BY <1>1, <1>2, ScanExists, Zenon
<1>4. /\ f[0] = NoTables
      /\ \A n \in 1..Len(order) : f[n] = ScanMethod(f[n - 1], order[n])
  <2>1. \A n \in 0..Len(order) : f[n] = ScanStep(order, f, n)
    BY <1>3
  <2>. QED
    BY <1>1, <2>1 DEF ScanStep
<1>. DEFINE Good(n) == UsersInFront(f[n][role], role) /\ Has(f[n][role], role, seen(n))
            I == {n \in 0..Len(order) : Good(n)}
<1>5. 0 \in I
  <2>1. f[0][role] = <<>>
    BY <1>4 DEF NoTables, TableRoles
  <2>2. UsersInFront(<<>>, role)
    <3>1. <<>> \in Seq(UsersOf(role)) /\ <<>> \in Seq(TestsOf(role)) /\ <<>> = <<>> \o <<>>
      BY EmptySeq, ConcatEmptySeq
    <3>. QED
      BY <3>1, Zenon DEF UsersInFront
  <2>3. seen(0) = {}
    OBVIOUS
  <2>4. Good(0)
    BY <2>1, <2>2, <2>3 DEF Has
  <2>. QED
    BY <1>1, <2>4
<1>6. ASSUME NEW n \in 0..Len(order), n # Len(order), n \in I
      PROVE  n + 1 \in I
  <2>1. n + 1 \in 1..Len(order) /\ n + 1 - 1 = n /\ n + 1 \in 0..Len(order) /\ Good(n)
    BY <1>1, <1>6
  <2>2. seen(n + 1) = seen(n) \cup {order[n + 1]}
    <3>1. \A i \in 1..(n + 1) : i \in 1..n \/ i = n + 1
      BY <1>1
    <3>2. n + 1 \in 1..(n + 1) /\ \A i \in 1..n : i \in 1..(n + 1)
      BY <1>1
    <3>. QED
      BY <3>1, <3>2
  <2>3. PICK tables, m, found : tables = f[n] /\ m = order[n + 1] /\ found = seen(n)
    OBVIOUS
  <2>4. m \in Methods /\ UsersInFront(tables[role], role) /\ Has(tables[role], role, found)
    BY <1>1, <2>1, <2>3
  <2>5. /\ UsersInFront(ScanMethod(tables, m)[role], role)
        /\ Has(ScanMethod(tables, m)[role], role, found \cup {m})
    BY <2>4, ScanOne, Zenon
  <2>6. f[n + 1] = ScanMethod(tables, m)
    BY <1>4, <2>1, <2>3
  <2>7. Good(n + 1)
    BY <2>2, <2>3, <2>5, <2>6
  <2>. QED
    BY <2>1, <2>7
<1>. HIDE DEF I
<1>7. 0..Len(order) \subseteq I
  BY <1>1, <1>5, <1>6, BoundedInduction
<1>8. Good(Len(order))
  <2>1. Len(order) \in I
    BY <1>1, <1>7
  <2>. QED
    BY <2>1 DEF I
<1>9. seen(Len(order)) = Elems(order)
  BY DEF Elems
<1>. QED
  BY <1>3, <1>8, <1>9

\* Every method of the class path is scanned.
LEMMA OrderFacts ==
  ASSUME NEW order \in SetToSeqs(Methods)
  PROVE  order \in Seq(Methods) /\ Elems(order) = Methods
<1>. DEFINE n == Cardinality(Methods)
<1>1. n \in Nat /\ IsFiniteSet(Methods)
  BY FS_CardinalityType, ServicesAssumption
<1>2. order \in [1..n -> Methods] /\ \A i, j \in 1..n : i # j => order[i] # order[j]
  BY DEF SetToSeqs
<1>3. order \in Injection(1..n, Methods)
  BY <1>2 DEF Injection, IsInjective
<1>4. Cardinality(1..n) = n
  BY <1>1, FS_Interval
<1>5. order \in Surjection(1..n, Methods)
  BY <1>1, <1>3, <1>4, FS_Injection
<1>6. \A m \in Methods : \E i \in 1..n : order[i] = m
  BY <1>5 DEF Surjection
<1>7. order \in Seq(Methods) /\ Len(order) = n
  BY <1>1, <1>2
<1>. HIDE DEF n
<1>. QED
  BY <1>2, <1>6, <1>7 DEF Elems

LEMMA AllScanned ==
  ASSUME NEW scan \in Scans(Methods), NEW role \in TableRoles
  PROVE  UsersInFront(scan[role], role) /\ UsersOf(role) \subseteq Elems(scan[role])
<1>1. PICK order \in SetToSeqs(Methods) : scan = Scan(order)
  BY DEF Scans
<1>2. order \in Seq(Methods) /\ Elems(order) = Methods
  BY OrderFacts
<1>3. UsersInFront(scan[role], role) /\ Has(scan[role], role, Methods)
  BY <1>1, <1>2, ScanFacts
<1>. QED
  BY <1>3 DEF Has, UsersOf, OfRole

-----------------------------------------------------------------------------
(* The look-ups.                                                           *)

\* What is looked up is in the table, or the standard entry point.
LEMMA LookUpFacts ==
  ASSUME NEW S, NEW table \in Seq(S), NEW w, NEW class
  PROVE  LookUp(table, w, class) = Default(class) \/ LookUp(table, w, class) \in Elems(table)
<1>. DEFINE R == {m \in ToSet(table) : SameWord(m.word, w)}
            hits == Selected(table, R)
<1>1. LookUp(table, w, class) = IF hits = <<>> THEN Default(class) ELSE Head(hits)
  BY DEF LookUp
<1>2. R \subseteq Elems(table)
  <2>1. ToSet(table) = Elems(table)
    BY SetsOfElems, Zenon
  <2>. QED
    BY <2>1
<1>. HIDE DEF R
<1>3. hits \in Seq(S \cap R)
  BY SelectedType, Zenon
<1>. HIDE DEF hits
<1>4. hits # <<>> => Head(hits) \in S \cap R
  BY <1>3, SeqFacts
<1>. QED
  BY <1>1, <1>2, <1>4

\* If the user has a method for the word, a method of the user's is found.
LEMMA LookUpUsers ==
  ASSUME NEW role, NEW table, UsersInFront(table, role), UsersOf(role) \subseteq Elems(table),
         NEW w, NEW class, NEW x \in UsersOf(role), SameWord(x.word, w)
  PROVE  LookUp(table, w, class) \in {m \in UsersOf(role) : SameWord(m.word, w)}
<1>. DEFINE R == {m \in ToSet(table) : SameWord(m.word, w)}
<1>1. PICK u, t : u \in Seq(UsersOf(role)) /\ t \in Seq(TestsOf(role)) /\ table = u \o t
  BY DEF UsersInFront
<1>2. PICK hits, hu, ht : hits = Selected(table, R) /\ hu = Selected(u, R) /\ ht = Selected(t, R)
  OBVIOUS
<1>3. LookUp(table, w, class) = IF hits = <<>> THEN Default(class) ELSE Head(hits)
  BY <1>2 DEF LookUp
<1>4. x \in R /\ \A m \in R : SameWord(m.word, w)
  <2>1. ToSet(table) = Elems(table)
    BY FrontType, SetsOfElems, Zenon
  <2>. QED
    BY <2>1
<1>. HIDE DEF R
<1>5. hu \in Seq(UsersOf(role) \cap R) /\ ht \in Seq(TestsOf(role) \cap R)
  <2>1. Selected(u, R) \in Seq(UsersOf(role) \cap R)
    BY <1>1, SelectedType, Zenon
  <2>2. Selected(t, R) \in Seq(TestsOf(role) \cap R)
    BY <1>1, SelectedType, Zenon
  <2>. QED
    BY <1>2, <2>1, <2>2
<1>6. hits = hu \o ht
  <2>1. UsersOf(role) \subseteq OfRole(role) /\ TestsOf(role) \subseteq OfRole(role)
    BY DEF UsersOf, TestsOf
  <2>2. u \in Seq(OfRole(role)) /\ t \in Seq(OfRole(role))
    BY <1>1, <2>1, SeqMonotonic
  <2>3. Selected(u \o t, R) = Selected(u, R) \o Selected(t, R)
    BY <2>2, TakenOfConcat, Zenon
  <2>. QED
    BY <1>1, <1>2, <2>3
<1>7. x \in Elems(hits)
  <2>1. Elems(table) \cap R \subseteq Elems(Selected(table, R))
    BY FrontType, SelectedKeeps, Zenon
  <2>. QED
    BY <1>2, <1>4, <2>1
<1>8. hu # <<>>
  <2>1. SUFFICES ASSUME hu = <<>>
                 PROVE  FALSE
    OBVIOUS
  <2>2. hits = ht
    BY <1>5, <1>6, <2>1, ConcatEmptySeq
  <2>3. Elems(ht) \subseteq TestsOf(role) \cap R
    BY <1>5, SetsOfElems, Zenon
  <2>4. x \in TestsOf(role)
    BY <1>7, <2>2, <2>3
  <2>. QED
    BY <2>4 DEF TestsOf, UsersOf
<1>9. hits # <<>> /\ Head(hits) = Head(hu) /\ Head(hu) \in UsersOf(role) \cap R
  <2>1. PICK A, B : A = UsersOf(role) \cap R /\ B = TestsOf(role) \cap R
    OBVIOUS
  <2>2. hu \in Seq(A) /\ ht \in Seq(B) /\ hu # <<>>
    BY <1>5, <1>8, <2>1
  <2>3. Len(hu) \in Nat \ {0} /\ Head(hu) = hu[1] /\ Head(hu) \in A
    BY <2>2, SeqFacts, HeadTailProperties
  <2>4. Len(hu \o ht) = Len(hu) + Len(ht) /\ (hu \o ht)[1] = hu[1] /\ Len(ht) \in Nat
    BY <2>2, <2>3
  <2>5. hu \o ht # <<>> /\ Head(hu \o ht) = (hu \o ht)[1]
    BY <2>2, <2>3, <2>4
  <2>. QED
    BY <1>6, <2>1, <2>3, <2>4, <2>5
<1>. QED
  BY <1>3, <1>4, <1>9

\* What a session is after its tables have been put in.
MainOf(cfg, t) == IF cfg.main = None THEN t.main.class ELSE cfg.main

LEMMA AppliedFacts ==
  ASSUME NEW cfg, NEW t
  PROVE  LET ss == Applied(Session(cfg), t)
         IN /\ ss.supervisor = t.supervisor /\ ss.worker = t.worker /\ ss.commands = cfg.commands
            /\ ss.main = MainOf(cfg, t)
            /\ \A p \in Points :
                 \/ ss.points[p] = MainOf(cfg, t)
                 \/ cfg.main # None /\ p \in GivenPoints /\ ss.points[p] = OrElse(cfg.points[p], cfg.main)
<1>. DEFINE ss == Applied(Session(cfg), t)
            ini == Session(cfg)
<1>1. /\ ini.main = cfg.main /\ ini.commands = cfg.commands
      /\ DOMAIN ini = {"main", "points", "childPoint", "commands", "supervisor", "worker"}
      /\ ini.points = [p \in Points |-> IF p \in GivenPoints THEN OrElse(cfg.points[p], OrElse(cfg.main, Base))
                                        ELSE OrElse(cfg.main, Base)]
  BY DEF Session
<1>. HIDE DEF ini
<1>2. /\ ss.supervisor = t.supervisor /\ ss.worker = t.worker /\ ss.commands = cfg.commands
      /\ ss.main = MainOf(cfg, t)
      /\ ss.points = IF cfg.main = None THEN [p \in Points |-> t.main.class] ELSE ini.points
  BY <1>1 DEF Applied, PointsMoved, MainOf, ini
<1>3. ASSUME NEW p \in Points
      PROVE  \/ ss.points[p] = MainOf(cfg, t)
             \/ cfg.main # None /\ p \in GivenPoints /\ ss.points[p] = OrElse(cfg.points[p], cfg.main)
  BY <1>1, <1>2 DEF MainOf, OrElse
<1>. QED
  BY <1>2, <1>3

-----------------------------------------------------------------------------
(* The invariant.                                                          *)

\* The session that a service of the case publishes.
Full == Applied(Session(case.cfg), case.scan)

\* A session that can be read is that one, or has not been written yet; who serves has read one.
Contents ==
  /\ shm # None => shm.ses \in {Blank, Full}
  /\ \A s \in Services :
       /\ ses[s] # None => ses[s].ses \in {Blank, Full}
       /\ proc[s]["supervisor"] \in {"open", "again", "serve"} => ses[s] # None

\* A command is in a queue of the kind its client has chosen by the words of the session.
Routed ==
  /\ \A k \in Kinds, s \in Services : \A c \in Clients \cap Elems(mq[k][s]) :
       route[c].kind = k /\ cl[c] # "failed"
  /\ \A c \in Clients :
       cl[c] \notin {"start", "failed"} /\ route[c].kind = "supervisor" /\ ~route[c].blank
         => Lower(WordOf[c]) \notin WorkerWords(Full)

\* What was executed is what the session says.
ByWorker(c) == ran[c].role = "worker" /\ ran[c].method = WorkerMethod(Full, WordOf[c])
BySupervisor(c) ==
  /\ ran[c].role = "supervisor" /\ ran[c].method = SupervisorMethod(Full, WordOf[c])
  /\ route[c].kind = "supervisor"
Executed == \A c \in Clients : cl[c] = "done" => ByWorker(c) \/ BySupervisor(c)

\* The object of a service is of a class that its session names.
ClassesOf(ss) == {ss.points[p] : p \in Points} \cup {m.class : m \in Elems(ss.supervisor)}
ObjectNamed(s) == obj[s] # None => ses[s] # None /\ obj[s] \in ClassesOf(ses[s].ses)
Objects == \A s \in Services : ObjectNamed(s)

TablesInv == Contents /\ Routed /\ Executed /\ Objects

\* The tables of a session are tables of the scan, or empty.
LEMMA SessionFacts ==
  ASSUME TypeOK, NEW ss \in {Blank, Full}
  PROVE  /\ ss.supervisor \in Seq(OfRole("supervisor"))
         /\ \A w : ss = Blank => SupervisorMethod(ss, w).class = None
<1>1. CASE ss = Blank
  <2>1. ss.supervisor = <<>> /\ ss.points["supervise"] = None
    BY <1>1 DEF Blank, Points
  <2>2. ASSUME NEW w
        PROVE  SupervisorMethod(ss, w).class = None
    <3>1. Selected(<<>>, {m \in ToSet(<<>>) : SameWord(m.word, w)}) = <<>>
      BY SelectedEmpty
    <3>2. SupervisorMethod(ss, w) = Default(None)
      BY <2>1, <3>1 DEF SupervisorMethod, LookUp
    <3>. QED
      BY <3>2 DEF Default
  <2>3. <<>> \in Seq(OfRole("supervisor"))
    BY EmptySeq
  <2>. QED
    BY <2>1, <2>2, <2>3
<1>2. CASE ss = Full /\ ss # Blank
  <2>1. ss.supervisor = case.scan.supervisor
    BY <1>2, AppliedFacts DEF Full
  <2>2. case.scan \in Scans(Methods) /\ "supervisor" \in TableRoles
    BY ServicesAssumption DEF TypeOK, TableRoles
  <2>3. case.scan["supervisor"] \in Seq(OfRole("supervisor"))
    BY <2>2, AllScanned, FrontType
  <2>. QED
    BY <1>2, <2>1, <2>3
<1>. QED
  BY <1>1, <1>2

\* The case is never another one.
LEMMA CaseStays ==
  ASSUME TypeOK, Unstarted, [Next]_vars
  PROVE  case' = case /\ Full' = Full
<1>1. \A s \in Services : Start(s) \/ Moves(s) => case' = case
  BY Starts, MovesOn
<1>2. 1 \in Services
  BY ServicesAssumption DEF Services
<1>3. \/ \E s \in Services : Start(s) \/ Moves(s)
      \/ \E s \in Services, p \in GivenPoints : StandardCall(s, p)
      \/ \E c \in Clients : Command(c)
      \/ UNCHANGED vars
  BY DEF Next, Service, Moves
<1>. QED
  BY <1>1, <1>2, <1>3, Quiet DEF Full

LEMMA ContentsStep ==
  ASSUME TypeOK, Unstarted, ShmOfPublisher, TablesRead, Contents, [Next]_vars
  PROVE  Contents'
<1>. USE KindFacts
<1>1. Full' = Full /\ case' = case /\ Blank' = Blank
  BY CaseStays
<1>2. CASE UNCHANGED <<proc, ses, shm>>
  BY <1>1, <1>2 DEF Contents
<1>3. ASSUME NEW s \in Services, Start(s)
      PROVE  Contents'
  <2>1. /\ ses' = ses /\ shm' = shm /\ \A t \in Services \ {s} : proc'[t] = proc[t]
        /\ proc'[s]["supervisor"] \in {"scan", "ended"}
    BY <1>3, Starts
  <2>. QED
    BY <1>1, <2>1 DEF Contents
<1>4. ASSUME NEW s \in Services, Moves(s),
             shm' # None => shm'.ses \in {Blank, Full},
             ses'[s] # None => ses'[s].ses \in {Blank, Full},
             proc'[s]["supervisor"] \in {"open", "again", "serve"} => ses'[s] # None
      PROVE  Contents'
  <2>1. \A t \in Services \ {s} : ses'[t] = ses[t] /\ proc'[t]["supervisor"] = proc[t]["supervisor"]
    <3>1. PICK k \in Kinds : \E to : Goto(s, k, to)
      BY <1>4, MovesOn
    <3>2. \A t \in Services \ {s} : proc'[t]["supervisor"] = proc[t]["supervisor"]
      BY <3>1, PlacesStep
    <3>. QED
      BY <1>4, <3>2, MovesOn
  <2>. QED
    BY <1>1, <1>4, <2>1 DEF Contents
<1>5. ASSUME NEW s \in Services, NEW k \in Kinds, NEW to, Goto(s, k, to), Moves(s),
             shm' \in {None, shm}, ses' = ses,
             k = "supervisor" /\ to \in {"open", "again", "serve"}
               => proc[s]["supervisor"] \in {"open", "again", "serve"}
      PROVE  Contents'
  <2>1. proc'[s]["supervisor"] = IF k = "supervisor" THEN to ELSE proc[s]["supervisor"]
    BY <1>5, PlacesStep
  <2>. QED
    BY <1>4, <1>5, <2>1 DEF Contents
<1>6. ASSUME NEW s \in Services, ScanClassPath(s)
      PROVE  Contents'
  <2>0. Moves(s)
    BY <1>6, Zenon DEF Moves
  <2>1. Goto(s, "supervisor", "publish") /\ shm' = shm /\ ses' = ses
    BY <1>6 DEF ScanClassPath
  <2>. QED
    BY <1>5, <2>0, <2>1
<1>7. ASSUME NEW s \in Services, Truncate(s)
      PROVE  Contents'
  <2>0. Moves(s)
    BY <1>7, Zenon DEF Moves
  <2>1. PICK to \in {"fill", "read"} : Goto(s, "supervisor", to)
    BY <1>7 DEF Truncate
  <2>2. ses' = ses /\ (shm' = shm \/ shm' = [of |-> s, ses |-> Blank])
    BY <1>7 DEF Truncate
  <2>3. proc'[s]["supervisor"] = to
    BY <2>1, PlacesStep
  <2>4. shm' # None => shm'.ses \in {Blank, Full}
    <3>1. CASE shm' = shm
      BY <3>1 DEF Contents
    <3>2. CASE shm' = [of |-> s, ses |-> Blank]
      BY <3>2
    <3>. QED
      BY <2>2, <3>1, <3>2
  <2>5. ses'[s] # None => ses'[s].ses \in {Blank, Full}
    BY <2>2 DEF Contents
  <2>. QED
    BY <1>4, <2>0, <2>3, <2>4, <2>5
<1>8. ASSUME NEW s \in Services, Fill(s)
      PROVE  Contents'
  <2>0. Moves(s)
    BY <1>8, Zenon DEF Moves
  <2>1. tab[s] = case.scan
    <3>1. Publishes(s) /\ tab[s] \in {None, case.scan}
      BY <1>8 DEF Fill, At, ShmOfPublisher
    <3>. QED
      BY <3>1 DEF Publishes
  <2>2. Goto(s, "supervisor", "read") /\ ses' = ses
    BY <1>8 DEF Fill
  <2>3. shm' # None => shm'.ses = Full
    BY <1>8, <2>1 DEF Fill, Full
  <2>4. proc'[s]["supervisor"] = "read"
    BY <2>2, PlacesStep
  <2>. QED
    BY <1>4, <2>0, <2>2, <2>3, <2>4 DEF Contents
<1>9. ASSUME NEW s \in Services, ReadBack(s)
      PROVE  Contents'
  <2>0. Moves(s)
    BY <1>9, Zenon DEF Moves
  <2>1. PICK to \in {"join", "open"} : Goto(s, "supervisor", to)
    BY <1>9 DEF ReadBack
  <2>2. shm' = shm
    BY <1>9 DEF ReadBack
  <2>3. proc'[s]["supervisor"] = to
    BY <2>1, PlacesStep
  <2>4. CASE shm = None
    <3>1. Goto(s, "supervisor", "join") /\ ses' = ses
      BY <1>9, <2>4 DEF ReadBack
    <3>. QED
      BY <1>5, <2>0, <2>2, <3>1
  <2>5. CASE shm # None
    <3>1. ses'[s] = shm
      BY <1>9, <2>5 DEF ReadBack, TypeOK
    <3>. QED
      BY <1>4, <2>0, <2>2, <2>3, <2>5, <3>1 DEF Contents
  <2>. QED
    BY <2>4, <2>5
<1>10. ASSUME NEW s \in Services, NEW k \in Kinds,
              OpenQueue(s, k) \/ QueueExists(s, k) \/ TryAgain(s, k) \/ Crash(s, k)
       PROVE  Contents'
  <2>0. Moves(s)
    BY <1>10, Zenon DEF Moves
  <2>1. shm' = shm /\ ses' = ses
    BY <1>10 DEF OpenQueue, QueueExists, TryAgain, Crash
  <2>2. \E to : /\ Goto(s, k, to)
                /\ to \in {"open", "again", "serve"} => proc[s][k] \in {"open", "again"}
    BY <1>10 DEF OpenQueue, QueueExists, TryAgain, Crash, At
  <2>3. PICK to : /\ Goto(s, k, to)
                  /\ to \in {"open", "again", "serve"} => proc[s][k] \in {"open", "again"}
    BY <2>2
  <2>. QED
    BY <1>5, <2>0, <2>1, <2>3
<1>11. ASSUME NEW s \in Services, LauncherCloses(s) \/ LauncherTells(s) \/ LauncherEnds(s)
       PROVE  Contents'
  <2>0. Moves(s)
    BY <1>11, Zenon DEF Moves
  <2>1. shm' = shm /\ ses' = ses /\ \E to : Goto(s, "launcher", to)
    BY <1>11 DEF LauncherCloses, LauncherTells, LauncherEnds
  <2>. QED
    BY <1>5, <2>0, <2>1
<1>12. ASSUME NEW s \in Services, SupervisorCloses(s) \/ MainReturns(s)
       PROVE  Contents'
  <2>0. Moves(s)
    BY <1>12, Zenon DEF Moves
  <2>1. shm' \in {None, shm} /\ ses' = ses /\ \E to \in {"join", "ended"} : Goto(s, "supervisor", to)
    BY <1>12 DEF SupervisorCloses, MainReturns, ShmUnlinked
  <2>. QED
    BY <1>5, <2>0, <2>1
<1>13. CASE (\E s \in Services, p \in GivenPoints : StandardCall(s, p)) \/ (\E c \in Clients : Command(c)) \/ UNCHANGED vars
  <2>1. 1 \in Services
    BY ServicesAssumption DEF Services
  <2>2. UNCHANGED <<proc, ses, shm>>
    BY <1>13, <2>1, Quiet
  <2>. QED
    BY <1>2, <2>2
<1>. QED
  BY <1>3, <1>6, <1>7, <1>8, <1>9, <1>10, <1>11, <1>12, <1>13 DEF Next, Service

LEMMA ObjectsStep ==
  ASSUME TypeOK, Unstarted, TablesRead, Contents, Objects, [Next]_vars
  PROVE  Objects'
<1>. USE KindFacts
\* Nothing but a read changes a session, before any method has been called.
<1>1. ASSUME NEW t \in Services, obj'[t] = obj[t], ses'[t] = ses[t]
      PROVE  ObjectNamed(t)'
  <2>1. ObjectNamed(t)
    BY DEF Objects
  <2>. QED
    BY <1>1, <2>1 DEF ObjectNamed, ClassesOf
<1>2. ASSUME NEW s \in Services, Start(s)
      PROVE  Objects'
  <2>1. ses' = ses /\ obj' = obj
    BY <1>2 DEF Start
  <2>. QED
    BY <1>1, <2>1 DEF Objects
<1>3. ASSUME NEW s \in Services, ReadBack(s)
      PROVE  Objects'
  <2>1. obj' = obj /\ \A t \in Services \ {s} : ses'[t] = ses[t]
    BY <1>3 DEF ReadBack, TypeOK
  <2>2. obj[s] = None
    BY <1>3 DEF ReadBack, At, TablesRead, Objects, ObjectNamed
  <2>3. ObjectNamed(s)'
    BY <2>1, <2>2 DEF ObjectNamed
  <2>. QED
    BY <1>1, <2>1, <2>3 DEF Objects
<1>4. ASSUME NEW s \in Services, ScanClassPath(s) \/ Truncate(s) \/ Fill(s)
      PROVE  Objects'
  <2>1. ses' = ses /\ obj' = obj
    BY <1>4 DEF ScanClassPath, Truncate, Fill
  <2>. QED
    BY <1>1, <2>1 DEF Objects
<1>5. ASSUME NEW s \in Services, NEW k \in Kinds,
             OpenQueue(s, k) \/ QueueExists(s, k) \/ TryAgain(s, k) \/ Crash(s, k)
      PROVE  Objects'
  <2>1. ses' = ses /\ obj' = obj
    BY <1>5 DEF OpenQueue, QueueExists, TryAgain, Crash
  <2>. QED
    BY <1>1, <2>1 DEF Objects
<1>6. ASSUME NEW s \in Services,
             \/ LauncherCloses(s) \/ LauncherTells(s) \/ LauncherEnds(s)
             \/ SupervisorCloses(s) \/ MainReturns(s)
      PROVE  Objects'
  <2>1. ses' = ses /\ obj' = obj
    BY <1>6 DEF LauncherCloses, LauncherTells, LauncherEnds, SupervisorCloses, MainReturns
  <2>. QED
    BY <1>1, <2>1 DEF Objects
\* A method is called on the object there is, or on a new one of its class.
<1>7. ASSUME NEW s \in Services, At(s, "supervisor", "serve"), ses' = ses,
             NEW class \in ClassesOf(ses[s].ses), CalledOn(s, class)
      PROVE  Objects'
  <2>1. \A t \in Services \ {s} : obj'[t] = obj[t]
    BY <1>7 DEF CalledOn, TypeOK
  <2>2. obj'[s] = class \/ obj'[s] = obj[s]
    BY <1>7 DEF CalledOn, OrElse, TypeOK
  <2>3. ses[s] # None
    BY <1>7 DEF At, Contents
  <2>4. CASE obj'[s] = class
    <3>1. ObjectNamed(s)'
      BY <1>7, <2>3, <2>4 DEF ObjectNamed, ClassesOf
    <3>. QED
      BY <1>1, <1>7, <2>1, <3>1 DEF Objects
  <2>5. CASE obj'[s] = obj[s]
    BY <1>1, <1>7, <2>1, <2>5 DEF Objects
  <2>. QED
    BY <2>2, <2>4, <2>5
<1>8. ASSUME NEW s \in Services, NEW p \in GivenPoints, StandardCall(s, p)
      PROVE  Objects'
  <2>1. ses[s].ses.points[p] \in ClassesOf(ses[s].ses)
    BY DEF ClassesOf, GivenPoints
  <2>2. At(s, "supervisor", "serve") /\ ses' = ses /\ CalledOn(s, ses[s].ses.points[p])
    BY <1>8 DEF StandardCall
  <2>. QED
    BY <1>7, <2>1, <2>2
<1>9. ASSUME NEW s \in Services, NEW c \in Clients, SupervisorRuns(s, c)
      PROVE  Objects'
  <2>1. PICK ss : ss = ses[s].ses
    OBVIOUS
  <2>2. PICK m : m = SupervisorMethod(ss, WordOf[c])
    OBVIOUS
  <2>3. /\ At(s, "supervisor", "serve") /\ ses' = ses
        /\ obj' = obj \/ CalledOn(s, m.class)
    BY <1>9, <2>1, <2>2 DEF SupervisorRuns, Receives
  <2>4. ss \in {Blank, Full}
    BY <2>1, <2>3 DEF At, Contents
  <2>5. m.class \in ClassesOf(ss)
    <3>1. ss.supervisor \in Seq(OfRole("supervisor"))
      BY <2>4, SessionFacts
    <3>2. m = Default(ss.points["supervise"]) \/ m \in Elems(ss.supervisor)
      BY <2>2, <3>1, LookUpFacts, Zenon DEF SupervisorMethod
    <3>3. m = Default(ss.points["supervise"]) => m.class = ss.points["supervise"]
      BY DEF Default
    <3>4. "supervise" \in Points
      BY DEF Points
    <3>. QED
      BY <3>2, <3>3, <3>4 DEF ClassesOf
  <2>6. CASE obj' = obj
    BY <1>1, <2>3, <2>6 DEF Objects
  <2>7. CASE CalledOn(s, m.class)
    BY <1>7, <2>1, <2>3, <2>5, <2>7
  <2>. QED
    BY <2>3, <2>6, <2>7
<1>10. ASSUME NEW c \in Clients, ClientRoutes(c) \/ ClientSends(c) \/ WorkerRuns(c)
       PROVE  Objects'
  <2>1. ses' = ses /\ obj' = obj
    BY <1>10 DEF ClientRoutes, ClientSends, WorkerRuns
  <2>. QED
    BY <1>1, <2>1 DEF Objects
<1>11. ASSUME NEW s \in Services, NEW c \in Clients, ForkWorker(s, c)
       PROVE  Objects'
  <2>1. ses' = ses /\ obj' = obj
    BY <1>11 DEF ForkWorker
  <2>. QED
    BY <1>1, <2>1 DEF Objects
<1>12. CASE UNCHANGED vars
  BY <1>1, <1>12 DEF vars, Objects
<1>. QED
  BY <1>2, <1>3, <1>4, <1>5, <1>6, <1>8, <1>9, <1>10, <1>11, <1>12 DEF Next, Service, Command

\* A command that is on its way goes on, and no queue gets another one.
LEMMA GoesOn ==
  ASSUME TypeOK, Routed, Full' = Full, route' = route, NEW c \in Clients, NEW to, to \notin {"start", "failed"},
         ClientGoto(c, to), cl[c] \notin {"start", "failed"},
         \A k \in Kinds, s \in Services : Elems(mq'[k][s]) \subseteq Elems(mq[k][s])
  PROVE  Routed'
<1>1. cl'[c] = to /\ \A d \in Clients \ {c} : cl'[d] = cl[d]
  BY DEF ClientGoto, TypeOK
<1>2. ASSUME NEW k \in Kinds, NEW s \in Services, NEW d \in Clients \cap Elems(mq'[k][s])
      PROVE  route'[d].kind = k /\ cl'[d] # "failed"
  <2>1. route[d].kind = k /\ cl[d] # "failed"
    BY <1>2 DEF Routed
  <2>. QED
    BY <1>1, <2>1
<1>3. ASSUME NEW d \in Clients, cl'[d] \notin {"start", "failed"}, route'[d].kind = "supervisor", ~route'[d].blank
      PROVE  Lower(WordOf[d]) \notin WorkerWords(Full)'
  <2>1. cl[d] \notin {"start", "failed"}
    BY <1>1, <1>3
  <2>2. WorkerWords(Full)' = WorkerWords(Full)
    BY DEF WorkerWords
  <2>. QED
    BY <1>3, <2>1, <2>2 DEF Routed
<1>. QED
  BY <1>2, <1>3 DEF Routed

LEMMA RoutedStep ==
  ASSUME TypeOK, Unstarted, MessagesSent, Contents, Routed, [Next]_vars
  PROVE  Routed'
<1>0. Full' = Full /\ WorkerWords(Full)' = WorkerWords(Full)
  BY CaseStays DEF WorkerWords
<1>1. ASSUME UNCHANGED <<cl, route>>,
             \A k \in Kinds, s \in Services : Clients \cap Elems(mq'[k][s]) \subseteq Elems(mq[k][s])
      PROVE  Routed'
  BY <1>0, <1>1 DEF Routed
<1>2. ASSUME NEW s \in Services, Service(s)
      PROVE  Routed'
  BY <1>1, <1>2, QueuesOfServices DEF MessagesKept
<1>3. CASE UNCHANGED vars
  BY <1>1, <1>3 DEF vars
<1>4. ASSUME NEW c \in Clients, ClientRoutes(c)
      PROVE  Routed'
  <2>1. mq' = mq /\ cl[c] = "start"
    BY <1>4 DEF ClientRoutes
  <2>2. \A d \in Clients \ {c} : cl'[d] = cl[d] /\ route'[d] = route[d]
    BY <1>4 DEF ClientRoutes, ClientGoto, TypeOK
  <2>3. \A k \in Kinds, s \in Services : c \notin Elems(mq[k][s])
    BY <2>1 DEF MessagesSent
  <2>4. cl'[c] \notin {"start", "failed"} /\ route'[c].kind = "supervisor" /\ ~route'[c].blank
          => Lower(WordOf[c]) \notin WorkerWords(Full)
    <3>1. CASE shm = None
      <4>1. cl'[c] = "failed"
        BY <1>4, <3>1 DEF ClientRoutes, ClientGoto, TypeOK
      <4>. QED
        BY <4>1
    <3>2. CASE shm # None
      <4>1. PICK new : new = [kind |-> QueueFor(shm.ses, WordOf[c]), blank |-> shm.ses = Blank]
        OBVIOUS
      <4>2. route'[c] = new
        BY <1>4, <3>2, <4>1 DEF ClientRoutes, TypeOK
      <4>3. ~new.blank => shm.ses = Full
        BY <3>2, <4>1 DEF Contents
      <4>4. new.kind = "supervisor" => Lower(WordOf[c]) \notin WorkerWords(shm.ses)
        BY <4>1 DEF QueueFor
      <4>. QED
        BY <4>2, <4>3, <4>4
    <3>. QED
      BY <3>1, <3>2
  <2>5. \A k \in Kinds, s \in Services : \A d \in Clients \cap Elems(mq'[k][s]) :
          route'[d].kind = k /\ cl'[d] # "failed"
    BY <2>1, <2>2, <2>3 DEF Routed
  <2>6. ASSUME NEW d \in Clients, cl'[d] \notin {"start", "failed"}, route'[d].kind = "supervisor", ~route'[d].blank
        PROVE  Lower(WordOf[d]) \notin WorkerWords(Full)
    <3>1. CASE d = c
      BY <2>4, <2>6, <3>1
    <3>2. CASE d # c
      BY <2>2, <2>6, <3>2 DEF Routed
    <3>. QED
      BY <3>1, <3>2
  <2>. QED
    BY <1>0, <2>5, <2>6 DEF Routed
<1>5. ASSUME NEW c \in Clients, ClientSends(c)
      PROVE  Routed'
  <2>. DEFINE k == route[c].kind
              s == named[k]
  <2>1. k \in Kinds /\ s \in {None} \cup Services /\ cl[c] = "send" /\ route' = route
    BY <1>5 DEF ClientSends, TypeOK
  <2>2. \A j \in Kinds, t \in Services : c \notin Elems(mq[j][t])
    BY <2>1 DEF MessagesSent
  <2>3. CASE s = None
    <3>1. mq' = mq /\ cl'[c] = "failed" /\ \A d \in Clients \ {c} : cl'[d] = cl[d]
      BY <1>5, <2>3 DEF ClientSends, ClientGoto, TypeOK
    <3>. QED
      BY <1>0, <2>1, <2>2, <3>1 DEF Routed
  <2>4. CASE s # None
    <3>1. s \in Services /\ mq' = [mq EXCEPT ![k][s] = Append(@, c)]
      BY <1>5, <2>1, <2>4 DEF ClientSends
    <3>2. cl'[c] = "sent" /\ \A d \in Clients \ {c} : cl'[d] = cl[d]
      BY <1>5, <2>4 DEF ClientSends, ClientGoto, TypeOK
    <3>. HIDE DEF k, s
    <3>3. \A j \in Kinds, t \in Services :
            Elems(mq'[j][t]) = IF j = k /\ t = s THEN Elems(mq[k][s]) \cup {c} ELSE Elems(mq[j][t])
      <4>1. k \in Kinds /\ c \in Clients \cup {Shutdown}
        BY <2>1
      <4>. QED
        BY <3>1, <4>1, AppendsElems
    <3>4. ASSUME NEW j \in Kinds, NEW t \in Services, NEW d \in Clients \cap Elems(mq'[j][t])
          PROVE  route'[d].kind = j /\ cl'[d] # "failed"
      <4>1. CASE d = c
        <5>1. j = k
          BY <2>2, <3>3, <3>4, <4>1
        <5>. QED
          BY <2>1, <3>2, <4>1, <5>1 DEF k
      <4>2. CASE d # c
        <5>1. d \in Elems(mq[j][t])
          BY <3>3, <3>4, <4>2
        <5>2. route[d].kind = j /\ cl[d] # "failed"
          BY <3>4, <5>1, Zenon DEF Routed
        <5>. QED
          BY <2>1, <3>2, <3>4, <4>2, <5>2
      <4>. QED
        BY <4>1, <4>2
    <3>5. \A d \in Clients : cl'[d] \notin {"start", "failed"} => cl[d] \notin {"start", "failed"}
      BY <2>1, <3>2
    <3>. QED
      BY <1>0, <2>1, <3>4, <3>5 DEF Routed
  <2>. QED
    BY <2>3, <2>4
<1>6. ASSUME NEW c \in Clients, WorkerRuns(c)
      PROVE  Routed'
  <2>1. /\ mq' = mq /\ route' = route /\ cl[c] = "forked"
        /\ \E to \in {"lost", "done"} : ClientGoto(c, to)
    BY <1>6 DEF WorkerRuns
  <2>. QED
    BY <1>0, <2>1, GoesOn
<1>7. ASSUME NEW c \in Clients, NEW s \in Services, NEW k \in Kinds, Receives(s, k, c), route' = route,
             NEW to, to \notin {"start", "failed"}, ClientGoto(c, to)
      PROVE  Routed'
  <2>1. /\ c \in Elems(mq[k][s])
        /\ \A j \in Kinds, t \in Services : Elems(mq'[j][t]) \subseteq Elems(mq[j][t])
    BY <1>7, ReceivesElems
  <2>2. cl[c] # "start"
    BY <2>1 DEF MessagesSent
  <2>3. cl[c] # "failed"
    BY <2>1, Zenon DEF Routed
  <2>. QED
    BY <1>0, <1>7, <2>1, <2>2, <2>3, GoesOn
<1>8. ASSUME NEW c \in Clients, NEW s \in Services, ForkWorker(s, c)
      PROVE  Routed'
  <2>1. Receives(s, "launcher", c) /\ route' = route /\ ClientGoto(c, "forked")
    BY <1>8 DEF ForkWorker
  <2>. QED
    BY <1>7, <2>1, KindFacts
<1>9. ASSUME NEW c \in Clients, NEW s \in Services, SupervisorRuns(s, c)
      PROVE  Routed'
  <2>1. Receives(s, "supervisor", c) /\ route' = route /\ \E to \in {"lost", "done"} : ClientGoto(c, to)
    BY <1>9 DEF SupervisorRuns
  <2>. QED
    BY <1>7, <2>1, KindFacts
<1>. QED
  BY <1>2, <1>3, <1>4, <1>5, <1>6, <1>8, <1>9 DEF Next, Command

LEMMA ExecutedStep ==
  ASSUME TypeOK, Unstarted, MessagesSent, Contents, Routed, Executed, [Next]_vars
  PROVE  Executed'
<1>0. Full' = Full
  BY CaseStays
<1>1. ASSUME NEW d \in Clients, cl'[d] = cl[d], ran'[d] = ran[d], route'[d] = route[d]
      PROVE  cl'[d] = "done" => ByWorker(d)' \/ BySupervisor(d)'
  <2>1. cl[d] = "done" => ByWorker(d) \/ BySupervisor(d)
    BY DEF Executed
  <2>2. /\ WorkerMethod(Full, WordOf[d])' = WorkerMethod(Full, WordOf[d])
        /\ SupervisorMethod(Full, WordOf[d])' = SupervisorMethod(Full, WordOf[d])
    BY <1>0 DEF WorkerMethod, SupervisorMethod
  <2>. QED
    BY <1>1, <2>1, <2>2 DEF ByWorker, BySupervisor
\* Only the command that is worked on changes.
<1>2. ASSUME NEW c \in Clients, \A d \in Clients \ {c} : cl'[d] = cl[d] /\ ran'[d] = ran[d] /\ route'[d] = route[d],
             cl'[c] = "done" => ByWorker(c)' \/ BySupervisor(c)'
      PROVE  Executed'
  BY <1>1, <1>2 DEF Executed
<1>3. ASSUME UNCHANGED <<cl, ran, route>>
      PROVE  Executed'
  BY <1>1, <1>3 DEF Executed
<1>4. ASSUME NEW s \in Services, Service(s)
      PROVE  Executed'
  BY <1>3, <1>4, QueuesOfServices DEF MessagesKept
<1>5. CASE UNCHANGED vars
  BY <1>3, <1>5 DEF vars
<1>6. ASSUME NEW c \in Clients, ClientRoutes(c) \/ ClientSends(c)
      PROVE  Executed'
  <2>1. \A d \in Clients \ {c} : cl'[d] = cl[d] /\ ran'[d] = ran[d] /\ route'[d] = route[d]
    BY <1>6 DEF ClientRoutes, ClientSends, ClientGoto, TypeOK
  <2>2. cl'[c] # "done"
    BY <1>6 DEF ClientRoutes, ClientSends, ClientGoto, TypeOK
  <2>. QED
    BY <1>2, <2>1, <2>2
<1>7. ASSUME NEW c \in Clients, NEW s \in Services, ForkWorker(s, c)
      PROVE  Executed'
  <2>1. \A d \in Clients \ {c} : cl'[d] = cl[d] /\ ran'[d] = ran[d] /\ route'[d] = route[d]
    BY <1>7 DEF ForkWorker, Executes, ClientGoto, TypeOK
  <2>2. cl'[c] # "done"
    BY <1>7 DEF ForkWorker, ClientGoto, TypeOK
  <2>. QED
    BY <1>2, <2>1, <2>2
<1>8. ASSUME NEW c \in Clients, WorkerRuns(c)
      PROVE  Executed'
  <2>1. \A d \in Clients \ {c} : cl'[d] = cl[d] /\ ran'[d] = ran[d] /\ route'[d] = route[d]
    BY <1>8 DEF WorkerRuns, Executes, ClientGoto, TypeOK
  <2>2. CASE shm = None \/ shm.ses = Blank
    <3>1. cl'[c] # "done"
      BY <1>8, <2>2 DEF WorkerRuns, ClientGoto, TypeOK
    <3>. QED
      BY <1>2, <2>1, <3>1
  <2>3. CASE ~(shm = None \/ shm.ses = Blank)
    <3>1. shm.ses = Full
      BY <2>3 DEF Contents
    <3>2. Executes(c, ran[c].service, "worker", WorkerMethod(shm.ses, WordOf[c]))
      BY <1>8, <2>3 DEF WorkerRuns
    <3>3. ran'[c].role = "worker" /\ ran'[c].method = WorkerMethod(Full, WordOf[c])
      BY <3>1, <3>2 DEF Executes, TypeOK
    <3>4. ByWorker(c)'
      BY <1>0, <3>3 DEF ByWorker, WorkerMethod
    <3>. QED
      BY <1>2, <2>1, <3>4
  <2>. QED
    BY <2>2, <2>3
<1>9. ASSUME NEW c \in Clients, NEW s \in Services, SupervisorRuns(s, c)
      PROVE  Executed'
  <2>1. PICK ss : ss = ses[s].ses
    OBVIOUS
  <2>2. PICK m : m = SupervisorMethod(ss, WordOf[c])
    OBVIOUS
  <2>3. /\ Receives(s, "supervisor", c) /\ route' = route
        /\ \/ ClientGoto(c, "lost") /\ ran' = ran
           \/ m.class # None /\ ClientGoto(c, "done") /\ Executes(c, s, "supervisor", m)
    BY <1>9, <2>1, <2>2 DEF SupervisorRuns
  <2>4. ss \in {Blank, Full}
    BY <2>1, <2>3, KindFacts DEF Receives, At, Contents
  <2>5. route[c].kind = "supervisor"
    <3>1. c \in Elems(mq["supervisor"][s]) /\ "supervisor" \in Kinds
      BY <2>3, ReceivesElems, KindFacts
    <3>. QED
      BY <3>1, Zenon DEF Routed
  <2>6. \A d \in Clients \ {c} : cl'[d] = cl[d] /\ ran'[d] = ran[d] /\ route'[d] = route[d]
    BY <2>3 DEF Executes, ClientGoto, TypeOK
  <2>7. CASE ClientGoto(c, "lost")
    <3>1. cl'[c] # "done"
      BY <2>7 DEF ClientGoto, TypeOK
    <3>. QED
      BY <1>2, <2>6, <3>1
  <2>8. CASE m.class # None /\ Executes(c, s, "supervisor", m)
    <3>1. ss = Full
      BY <2>2, <2>4, <2>8, SessionFacts
    <3>2. ran'[c].role = "supervisor" /\ ran'[c].method = SupervisorMethod(Full, WordOf[c])
      BY <2>2, <2>8, <3>1 DEF Executes, TypeOK
    <3>3. BySupervisor(c)'
      BY <1>0, <2>3, <2>5, <3>2 DEF BySupervisor, SupervisorMethod
    <3>. QED
      BY <1>2, <2>6, <3>3
  <2>. QED
    BY <2>3, <2>7, <2>8
<1>. QED
  BY <1>4, <1>5, <1>6, <1>7, <1>8, <1>9 DEF Next, Command

-----------------------------------------------------------------------------
(* The theorems.                                                           *)

LEMMA TablesInit == Init => TablesInv
<1>. SUFFICES ASSUME Init
              PROVE  TablesInv
  OBVIOUS
<1>. USE KindFacts
<1>1. /\ shm = None
      /\ \A s \in Services : ses[s] = None /\ obj[s] = None /\ proc[s]["supervisor"] = "off"
      /\ \A k \in Kinds, s \in Services : mq[k][s] = <<>>
      /\ \A c \in Clients : cl[c] = "start"
  BY DEF Init
<1>2. Contents
  BY <1>1 DEF Contents
<1>3. Routed
  BY <1>1, NoElems DEF Routed
<1>4. Executed /\ Objects
  BY <1>1 DEF Executed, Objects, ObjectNamed
<1>. QED
  BY <1>2, <1>3, <1>4 DEF TablesInv

\* The sessions, the queues and the records of what was executed agree with the settings and the scan
\* of the class path, as the conjuncts of the invariant say, for every class path and every settings.
THEOREM TablesInvariant == Spec => []TablesInv
<1>1. Init => TablesInv
  BY TablesInit
<1>2. ServicesInv /\ TablesInv /\ [Next]_vars => TablesInv'
  <2>. SUFFICES ASSUME ServicesInv, TablesInv, [Next]_vars
                PROVE  TablesInv'
    OBVIOUS
  <2>1. /\ TypeOK /\ Unstarted /\ ShmOfPublisher /\ TablesRead /\ MessagesSent
        /\ Contents /\ Routed /\ Executed /\ Objects
    BY DEF ServicesInv, TablesInv
  <2>2. Contents' /\ Routed' /\ Executed' /\ Objects'
    BY <2>1, ContentsStep, RoutedStep, ExecutedStep, ObjectsStep
  <2>. QED
    BY <2>2 DEF TablesInv
<1>. QED
  BY <1>1, <1>2, ServicesInvariant, PTL DEF Spec

LEMMA ScanOfCase ==
  ASSUME TypeOK
  PROVE  \A role \in TableRoles :
           /\ UsersInFront(Full[role], role) /\ UsersOf(role) \subseteq Elems(Full[role])
           /\ ToSet(Full[role]) = Elems(Full[role])
<1>1. SUFFICES ASSUME NEW role \in TableRoles
               PROVE  /\ UsersInFront(Full[role], role) /\ UsersOf(role) \subseteq Elems(Full[role])
                      /\ ToSet(Full[role]) = Elems(Full[role])
  OBVIOUS
<1>2. Full[role] = case.scan[role]
  BY AppliedFacts DEF Full, TableRoles
<1>3. case.scan \in Scans(Methods)
  BY ServicesAssumption DEF TypeOK
<1>4. UsersInFront(Full[role], role) /\ UsersOf(role) \subseteq Elems(Full[role])
  BY <1>2, <1>3, AllScanned
<1>5. ToSet(Full[role]) = Elems(Full[role])
  BY <1>4, FrontType, SetsOfElems
<1>. QED
  BY <1>4, <1>5

\* Whatever the order of the class path and the spelling of a command, the worker or the supervisor
\* that executes it takes a method of the user's if the user has one of that role for the word.
THEOREM UsersComeFirst == Spec => []UsersFirst
<1>1. ServicesInv /\ TablesInv => UsersFirst
  <2>. SUFFICES ASSUME TypeOK, Executed, NEW c \in Clients, cl[c] = "done", UsersMethods(c, ran[c].role) # {}
                PROVE  ran[c].method \in UsersMethods(c, ran[c].role)
    BY DEF ServicesInv, TablesInv, UsersFirst
  <2>1. PICK role \in TableRoles : \E class : ran[c].role = role /\ ran[c].method = LookUp(Full[role], WordOf[c], class)
    BY DEF Executed, ByWorker, BySupervisor, WorkerMethod, SupervisorMethod, TableRoles
  <2>2. UsersMethods(c, role) = {m \in UsersOf(role) : SameWord(m.word, WordOf[c])}
    BY DEF UsersMethods, UsersOf, OfRole
  <2>3. PICK x \in UsersOf(role) : SameWord(x.word, WordOf[c])
    BY <2>1, <2>2
  <2>4. UsersInFront(Full[role], role) /\ UsersOf(role) \subseteq Elems(Full[role])
    BY ScanOfCase
  <2>5. \A class : LookUp(Full[role], WordOf[c], class) \in {m \in UsersOf(role) : SameWord(m.word, WordOf[c])}
    BY <2>3, <2>4, LookUpUsers
  <2>. QED
    BY <2>1, <2>2, <2>5
<1>. QED
  BY <1>1, ServicesInvariant, TablesInvariant, PTL

\* No command for workers is executed by the supervisor, through crashes and restarts, unless its
\* client has looked while the shared memory was being written.
THEOREM WorkersCommandsInWorkers == Spec => []InWorkers
<1>1. ServicesInv /\ TablesInv => InWorkers
  <2>. SUFFICES ASSUME TypeOK, Executed, Routed,
                       NEW c \in Clients, cl[c] = "done", ran[c].role = "supervisor", ~route[c].blank
                PROVE  /\ UsersMethods(c, "worker") = {}
                       /\ \A w \in case.cfg.commands : ~SameWord(w, WordOf[c])
    BY DEF ServicesInv, TablesInv, InWorkers
  <2>1. route[c].kind = "supervisor"
    BY DEF Executed, ByWorker, BySupervisor
  <2>2. Lower(WordOf[c]) \notin WorkerWords(Full)
    BY <2>1 DEF Routed
  <2>3. Full.worker = Full["worker"] /\ "worker" \in TableRoles
    BY DEF TableRoles
  <2>4. UsersOf("worker") \subseteq ToSet(Full.worker)
    BY <2>3, ScanOfCase
  <2>5. Full.commands = case.cfg.commands
    BY AppliedFacts DEF Full
  <2>6. \A m \in UsersOf("worker") : ~SameWord(m.word, WordOf[c])
    BY <2>2, <2>4 DEF WorkerWords, SameWord
  <2>7. \A w \in case.cfg.commands : ~SameWord(w, WordOf[c])
    BY <2>2, <2>5 DEF WorkerWords, SameWord
  <2>8. UsersMethods(c, "worker") \subseteq {m \in UsersOf("worker") : SameWord(m.word, WordOf[c])}
    BY DEF UsersMethods, UsersOf, OfRole
  <2>. QED
    BY <2>6, <2>7, <2>8
<1>. QED
  BY <1>1, ServicesInvariant, TablesInvariant, PTL

\* If the user's methods are in the class of main and the settings name no other, they are called on an
\* object of that class, whichever of them is called first.
THEOREM ObjectIsOfMain == Spec => []ObjectOfMain
<1>1. ServicesInv /\ TablesInv => ObjectOfMain
  <2>. SUFFICES ASSUME TypeOK, Contents, Objects, NEW s \in Services, obj[s] # None,
                       \A m \in ToSet(ses[s].ses.supervisor) : m.class = ses[s].ses.main,
                       case.cfg.main # None => \A p \in GivenPoints : case.cfg.points[p] \in {None, case.cfg.main}
                PROVE  obj[s] = ses[s].ses.main
    BY DEF ServicesInv, TablesInv, ObjectOfMain
  <2>1. PICK ss : ss = ses[s].ses
    OBVIOUS
  <2>2. ss \in {Blank, Full} /\ obj[s] \in ClassesOf(ss)
    BY <2>1 DEF Contents, Objects, ObjectNamed
  <2>3. ToSet(ss.supervisor) = Elems(ss.supervisor)
    BY <2>2, SessionFacts, SetsOfElems
  <2>4. \A m \in Elems(ss.supervisor) : m.class = ss.main
    BY <2>1, <2>3
  <2>5. \A p \in Points : ss.points[p] = ss.main
    <3>1. CASE ss = Blank
      BY <3>1 DEF Blank
    <3>2. CASE ss = Full
      <4>1. ss.main = MainOf(case.cfg, case.scan)
        BY <3>2, AppliedFacts DEF Full
      <4>2. SUFFICES ASSUME NEW p \in Points
                     PROVE  ss.points[p] = ss.main
        OBVIOUS
      <4>3. \/ ss.points[p] = MainOf(case.cfg, case.scan)
            \/ /\ case.cfg.main # None /\ p \in GivenPoints
               /\ ss.points[p] = OrElse(case.cfg.points[p], case.cfg.main)
        BY <3>2, AppliedFacts DEF Full
      <4>. QED
        BY <4>1, <4>3 DEF OrElse, MainOf
    <3>. QED
      BY <2>2, <3>1, <3>2
  <2>6. obj[s] = ss.main
    BY <2>2, <2>4, <2>5 DEF ClassesOf
  <2>. QED
    BY <2>1, <2>6
<1>. QED
  BY <1>1, ServicesInvariant, TablesInvariant, PTL
===============================================================================
