------------------------------- MODULE Services -------------------------------
(***************************************************************************)
(* A service is started, publishes its tables in shared memory, opens its  *)
(* two message queues, is stopped or crashes, and is started again; clients*)
(* find all three by the name of the program.  Nothing keeps a second      *)
(* service of that name from starting while the first one runs.            *)
(*                                                                         *)
(* Services are numbered in the order of their start.  Of a service there  *)
(* are two processes, the launcher and the supervisor it forks, each with  *)
(* a queue of its own.                                                     *)
(***************************************************************************)
EXTENDS CommandTables, FiniteSets

CONSTANTS
  N,         \* services that are started one after another, at most
  Clients,   \* commands given on the command line
  WordOf,    \* the word of each command
  Methods,   \* the annotated methods of the class path
  Cases,     \* contents of config.ini, order of the class path, services, clients, calls
  MayCrash,  \* the processes that a crash may befall
  Shutdown   \* the message --SHUTDOWN

ASSUME ServicesAssumption ==
  /\ N \in Nat \ {0} /\ IsFiniteSet(Methods)
  /\ Shutdown \notin Clients /\ None \notin 1..N
  /\ \A c \in Cases : c.services \in 1..N /\ c.clients \subseteq Clients /\ c.calls \subseteq GivenPoints /\ c.scan \in Scans(Methods)
  /\ MayCrash \subseteq {"launcher", "supervisor"}

\* What is in shared memory is not taken for nothing.
ASSUME SharedAssumption ==
  None \notin [of : 1..N, ses : {Blank} \cup {Applied(Session(c.cfg), c.scan) : c \in Cases}]

Services == 1..N
Kinds == {"launcher", "supervisor"}

VARIABLES
  case,     \* which case it is
  proc,     \* where each process of each service is
  met,      \* the services that ran when it was started (history)
  tries,    \* how often it has failed to open its queue
  tab,      \* the tables of the scan of each service
  ses,      \* shm_session of each supervisor
  obj,      \* the class of its only object, once a method has been called on it
  shm,      \* the shared memory: None, or whose it is and the session in it
  named,    \* the service to whose queue the name of a queue leads, or None
  mq,       \* the messages in each queue
  cl,       \* where each command is
  route,    \* the queue its client has chosen, and from which session
  sentTo,   \* the service that had the queue when the message was sent
  ran       \* what was executed for it, by whom

kernel == <<shm, named, mq>>
clVars == <<cl, route, sentTo, ran>>
svcVars == <<met, tries, tab, ses, obj>>
vars == <<case, proc, svcVars, kernel, clVars>>

-----------------------------------------------------------------------------
Over == {"off", "ended", "dead"}
Runs(s) == \E k \in Kinds : proc[s][k] \notin Over
Goto(s, k, to) == proc' = [proc EXCEPT ![s][k] = to]
At(s, k, where) == proc[s][k] = where
Unlinked(k) == named' = [named EXCEPT ![k] = None]

\* The launcher reads the settings and forks the supervisor.
Start(s) ==
  /\ s <= case.services
  /\ \A k \in Kinds : At(s, k, "off")
  /\ \A t \in Services, k \in Kinds : t < s => ~At(t, k, "off")
  /\ proc' = [proc EXCEPT ![s] = IF MissingCommands(case.cfg) THEN [k \in Kinds |-> "ended"]
                                 ELSE [launcher |-> "open", supervisor |-> "scan"]]
  /\ met' = [met EXCEPT ![s] = {t \in Services : Runs(t)}]
  /\ UNCHANGED <<case, tries, tab, ses, obj, kernel, clVars>>

\* The JVM has been created and scans the class path; an archive may be unreadable.
ScanClassPath(s) ==
  /\ At(s, "supervisor", "scan")
  /\ tab' \in {[tab EXCEPT ![s] = t] : t \in {case.scan, None}}
  /\ Goto(s, "supervisor", "publish")
  /\ UNCHANGED <<case, met, tries, ses, obj, kernel, clVars>>

Publishes(s) == tab[s] # None /\ HasMain(Session(case.cfg), tab[s])

\* If there is nothing to publish the supervisor goes on to read what there is.
Truncate(s) ==
  /\ At(s, "supervisor", "publish")
  /\ IF Publishes(s)
     THEN shm' = [of |-> s, ses |-> Blank] /\ Goto(s, "supervisor", "fill")
     ELSE UNCHANGED shm /\ Goto(s, "supervisor", "read")
  /\ UNCHANGED <<case, svcVars, named, mq, clVars>>

\* Another service may have truncated the object meanwhile, or unlinked it.
Fill(s) ==
  /\ At(s, "supervisor", "fill")
  /\ shm' = IF shm = None THEN None ELSE [of |-> s, ses |-> Applied(Session(case.cfg), tab[s])]
  /\ Goto(s, "supervisor", "read")
  /\ UNCHANGED <<case, svcVars, named, mq, clVars>>

ReadBack(s) ==
  /\ At(s, "supervisor", "read")
  /\ IF shm = None
     THEN Goto(s, "supervisor", "join") /\ UNCHANGED ses
     ELSE Goto(s, "supervisor", "open") /\ ses' = [ses EXCEPT ![s] = shm]
  /\ UNCHANGED <<case, met, tries, tab, obj, kernel, clVars>>

-----------------------------------------------------------------------------
(* mq_open(O_CREAT | O_EXCL): a queue that exists is taken for an orphan.   *)

\* Variant: without O_EXCL, a queue that exists is used as it is.
OpenedAny(s, k) ==
  /\ named' = [named EXCEPT ![k] = s]
  /\ mq' = [mq EXCEPT ![k][s] = IF named[k] = None THEN <<>> ELSE mq[k][named[k]]]

Opened(s, k) ==
  /\ named[k] = None
  /\ named' = [named EXCEPT ![k] = s]
  /\ mq' = [mq EXCEPT ![k][s] = <<>>]

OpenQueue(s, k) ==
  /\ At(s, k, "open")
  /\ Opened(s, k)
  /\ Goto(s, k, "serve")
  /\ UNCHANGED <<case, svcVars, shm, clVars>>

\* EEXIST: unlinked by reset() ...
QueueExists(s, k) ==
  /\ At(s, k, "open")
  /\ named[k] # None
  /\ Unlinked(k)
  /\ Goto(s, k, "again")
  /\ UNCHANGED <<case, svcVars, shm, mq, clVars>>

\* Variant: one try is all.
OneTry == 1

Tries == 2

\* ... and once more as mqd_sp goes out of scope, by goto or by return.
TryAgain(s, k) ==
  /\ At(s, k, "again")
  /\ Unlinked(k)
  /\ tries' = [tries EXCEPT ![s][k] = @ + 1]
  /\ Goto(s, k, IF tries[s][k] + 1 < Tries THEN "open"
                ELSE IF k = "launcher" THEN "tell" ELSE "join")
  /\ UNCHANGED <<case, met, tab, ses, obj, shm, mq, clVars>>

-----------------------------------------------------------------------------
(***************************************************************************)
(* The end.  mqd_sp goes first, then the context of the JVM: the launcher  *)
(* sends --SHUTDOWN to the queue of that name and waits for its children;  *)
(* the supervisor joins the thread of Java main(), which unlinks the       *)
(* shared memory it has made.                                              *)
(***************************************************************************)
LauncherCloses(s) ==
  /\ At(s, "launcher", "serve")
  /\ Unlinked("launcher")
  /\ Goto(s, "launcher", "tell")
  /\ UNCHANGED <<case, svcVars, shm, mq, clVars>>

LauncherTells(s) ==
  /\ At(s, "launcher", "tell")
  /\ LET t == named["supervisor"]
     IN mq' = IF t = None THEN mq ELSE [mq EXCEPT !["supervisor"][t] = Append(@, Shutdown)]
  /\ Goto(s, "launcher", "wait")
  /\ UNCHANGED <<case, svcVars, shm, named, clVars>>

LauncherEnds(s) ==
  /\ At(s, "launcher", "wait")
  /\ proc[s]["supervisor"] \in Over
  /\ ~\E c \in Clients : cl[c] = "forked" /\ sentTo[c] = s
  /\ Unlinked("supervisor")
  /\ Goto(s, "launcher", "ended")
  /\ UNCHANGED <<case, svcVars, shm, mq, clVars>>

Receives(s, k, m) ==
  /\ At(s, k, "serve")
  /\ mq[k][s] # <<>> /\ m = Head(mq[k][s])
  /\ mq' = [mq EXCEPT ![k][s] = Tail(@)]

SupervisorCloses(s) ==
  /\ Receives(s, "supervisor", Shutdown)
  /\ Unlinked("supervisor")
  /\ Goto(s, "supervisor", "join")
  /\ UNCHANGED <<case, svcVars, shm, clVars>>

\* Variant: the shared memory stays.
ShmLeft(s) == shm

ShmUnlinked(s) == IF Publishes(s) THEN None ELSE shm

MainReturns(s) ==
  /\ At(s, "supervisor", "join")
  /\ shm' = ShmUnlinked(s)
  /\ Goto(s, "supervisor", "ended")
  /\ UNCHANGED <<case, svcVars, named, mq, clVars>>

\* kill -9, or no memory left: nothing is unlinked.  Bound: the last service does not crash.
Crash(s, k) ==
  /\ k \in MayCrash /\ s < case.services
  /\ proc[s][k] \notin Over
  /\ Goto(s, k, "dead")
  /\ UNCHANGED <<case, svcVars, kernel, clVars>>

-----------------------------------------------------------------------------
(* Clients and the execution of their commands.                            *)

ClientGoto(c, to) == cl' = [cl EXCEPT ![c] = to]

ClientRoutes(c) ==
  /\ cl[c] = "start" /\ c \in case.clients
  /\ IF shm = None
     THEN ClientGoto(c, "failed") /\ UNCHANGED route
     ELSE /\ ClientGoto(c, "send")
          /\ route' = [route EXCEPT ![c] =
                         [kind |-> QueueFor(shm.ses, WordOf[c]), blank |-> shm.ses = Blank]]
  /\ UNCHANGED <<case, proc, svcVars, kernel, sentTo, ran>>

ClientSends(c) ==
  LET k == route[c].kind
      s == named[k]
  IN /\ cl[c] = "send"
     /\ IF s = None
        THEN ClientGoto(c, "failed") /\ UNCHANGED <<mq, sentTo>>
        ELSE /\ ClientGoto(c, "sent")
             /\ mq' = [mq EXCEPT ![k][s] = Append(@, c)]
             /\ sentTo' = [sentTo EXCEPT ![c] = s]
     /\ UNCHANGED <<case, proc, svcVars, shm, named, route, ran>>

Executes(c, s, role, m) == ran' = [ran EXCEPT ![c] = [service |-> s, role |-> role, method |-> m]]

ForkWorker(s, c) ==
  /\ Receives(s, "launcher", c)
  /\ Executes(c, s, "worker", None)
  /\ ClientGoto(c, "forked")
  /\ UNCHANGED <<case, proc, svcVars, shm, named, route, sentTo>>

\* Variant: a worker that exits unlinks the queue of the launcher.
UnlinkedByWorker == [named EXCEPT !["launcher"] = None]

\* mqd_sp.release(): a worker must not unlink the launcher's queue.
LeftByWorker == named

\* The worker reads the shared memory for itself, and may find nothing there.
WorkerRuns(c) ==
  /\ cl[c] = "forked"
  /\ IF shm = None \/ shm.ses = Blank
     THEN ClientGoto(c, "lost") /\ UNCHANGED ran
     ELSE ClientGoto(c, "done") /\ Executes(c, ran[c].service, "worker", WorkerMethod(shm.ses, WordOf[c]))
  /\ named' = LeftByWorker
  /\ UNCHANGED <<case, proc, svcVars, shm, mq, route, sentTo>>

\* Methods of an instance are called on the one object, of the first such method's class.
CalledOn(s, class) == obj' = [obj EXCEPT ![s] = OrElse(@, class)]

SupervisorRuns(s, c) ==
  LET m == SupervisorMethod(ses[s].ses, WordOf[c])
  IN /\ Receives(s, "supervisor", c)
     /\ IF m.class = None
        THEN ClientGoto(c, "lost") /\ UNCHANGED <<obj, ran>>
        ELSE ClientGoto(c, "done") /\ CalledOn(s, m.class) /\ Executes(c, s, "supervisor", m)
     /\ UNCHANGED <<case, proc, met, tries, tab, ses, shm, named, route, sentTo>>

\* --STATUS and the reports of the launcher.  Bound: in the cases that say so.
StandardCall(s, p) ==
  /\ p \in case.calls
  /\ At(s, "supervisor", "serve")
  /\ ses[s].ses.points[p] # None
  /\ CalledOn(s, ses[s].ses.points[p])
  /\ UNCHANGED <<case, proc, met, tries, tab, ses, kernel, clVars>>

-----------------------------------------------------------------------------
Init ==
  /\ case \in Cases
  /\ proc = [s \in Services |-> [k \in Kinds |-> "off"]]
  /\ met = [s \in Services |-> {}]
  /\ tries = [s \in Services |-> [k \in Kinds |-> 0]]
  /\ tab = [s \in Services |-> NoTables]
  /\ ses = [s \in Services |-> None]
  /\ obj = [s \in Services |-> None]
  /\ shm = None
  /\ named = [k \in Kinds |-> None]
  /\ mq = [k \in Kinds |-> [s \in Services |-> <<>>]]
  /\ cl = [c \in Clients |-> "start"]
  /\ route = [c \in Clients |-> None]
  /\ sentTo = [c \in Clients |-> None]
  /\ ran = [c \in Clients |-> None]

Service(s) ==
  \/ Start(s) \/ ScanClassPath(s) \/ Truncate(s) \/ Fill(s) \/ ReadBack(s)
  \/ \E k \in Kinds : OpenQueue(s, k) \/ QueueExists(s, k) \/ TryAgain(s, k) \/ Crash(s, k)
  \/ LauncherCloses(s) \/ LauncherTells(s) \/ LauncherEnds(s)
  \/ SupervisorCloses(s) \/ MainReturns(s)
  \/ \E p \in GivenPoints : StandardCall(s, p)

Command(c) ==
  \/ ClientRoutes(c) \/ ClientSends(c) \/ WorkerRuns(c)
  \/ \E s \in Services : ForkWorker(s, c) \/ SupervisorRuns(s, c)

Next == (\E s \in Services : Service(s)) \/ (\E c \in Clients : Command(c))

Spec == Init /\ [][Next]_vars

-----------------------------------------------------------------------------
(* Properties.                                                             *)

Overlap(s) == met[s] # {} \/ \E t \in Services : s \in met[t]

\* The methods of a role that the user, and not the library, provides for the word of a command.
UsersMethods(c, role) ==
  {m \in Methods : ~IsTest(m) /\ m.role = role /\ SameWord(m.word, WordOf[c])}

(***************************************************************************)
(* Within the role that executes a command, worker or supervisor, a method *)
(* of the user's comes first, whatever the order of the class path and     *)
(* however the command is spelt: an entry of the library's test class is   *)
(* executed there only for a word for which the user has no method of that *)
(* role.  Nothing is said across the roles: test entries for workers that  *)
(* are scanned after the user's take the word of a supervisor command.     *)
(***************************************************************************)
UsersFirst ==
  \A c \in Clients :
    cl[c] = "done" /\ UsersMethods(c, ran[c].role) # {}
      => ran[c].method \in UsersMethods(c, ran[c].role)

(***************************************************************************)
(* A command for workers is not executed by the supervisor, also across    *)
(* crashes and restarts, unless its client has looked while the shared     *)
(* memory was being written.                                               *)
(***************************************************************************)
InWorkers ==
  \A c \in Clients :
    cl[c] = "done" /\ ran[c].role = "supervisor" /\ ~route[c].blank
      => /\ UsersMethods(c, "worker") = {}
         /\ \A w \in case.cfg.commands : ~SameWord(w, WordOf[c])

(***************************************************************************)
(* A service executes the commands that were sent to it, none that an      *)
(* earlier service has left in its queues.                                 *)
(***************************************************************************)
FreshCommands ==
  \A c \in Clients : ran[c] # None => ran[c].service = sentTo[c]

(***************************************************************************)
(* A service that ran alone has its own tables, or, if its scan failed,    *)
(* those of a service whose supervisor crashed.                            *)
(***************************************************************************)
OwnTables ==
  \A s \in Services :
    ses[s] # None /\ ~Overlap(s) =>
      IF Publishes(s) THEN ses[s] = [of |-> s, ses |-> Applied(Session(case.cfg), tab[s])]
      ELSE proc[ses[s].of]["supervisor"] = "dead"

(***************************************************************************)
(* As long as no other service of that name runs, the names of the queues  *)
(* lead to the service that serves them, and what others have left behind  *)
(* keeps no service from opening its own.                                  *)
(***************************************************************************)
Reachable ==
  \A s \in Services, k \in Kinds :
    At(s, k, "serve") /\ ~Overlap(s) => named[k] = s

Restartable ==
  \A s \in Services, k \in Kinds : tries[s][k] = Tries => Overlap(s)

(***************************************************************************)
(* If the user's instance methods are in the class of main, and config.ini *)
(* has no other idea of them, they are called on an object of that class,  *)
(* whichever is called first.                                              *)
(***************************************************************************)
ObjectOfMain ==
  \A s \in Services :
    LET ss == ses[s].ses
    IN obj[s] # None
       /\ (\A m \in ToSet(ss.supervisor) : m.class = ss.main)
       /\ (case.cfg.main # None => \A p \in GivenPoints : case.cfg.points[p] \in {None, case.cfg.main})
       => obj[s] = ss.main

(***************************************************************************)
(* When all services have ended and none of them has crashed, nothing of   *)
(* them is left in the kernel.                                             *)
(***************************************************************************)
NothingLeft ==
  (\A s \in 1..case.services, k \in Kinds : At(s, k, "ended"))
    => shm = None /\ \A k \in Kinds : named[k] = None
===============================================================================
