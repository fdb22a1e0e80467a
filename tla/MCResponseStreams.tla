--------------------------- MODULE MCResponseStreams ---------------------------
(* Instances of ResponseStreams for TLC: pairs of requests that meet.         *)
EXTENDS ResponseStreams, TLC

CONSTANTS r1, r2

Wish(k, t, x) == [kind |-> k, target |-> t, react |-> x]

Invoke == Wish("invoke", "worker", TRUE)
Refused == Wish("invoke", "supervisor", FALSE)
InvokeEx == Wish("invokeEx", "worker", FALSE)
ToSupervisor == Wish("client", "supervisor", TRUE)
ToWorker == Wish("client", "worker", FALSE)
Status == Wish("status", "supervisor", FALSE)

\* Two threads; a thread and a supervisor command; two on the de-queue thread; and
\* what runs beside them.
MCMixes ==
  {r1 :> m[1] @@ r2 :> m[2] : m \in {<<Invoke, InvokeEx>>, <<Invoke, ToSupervisor>>, <<Refused, ToSupervisor>>,
    <<InvokeEx, Status>>, <<ToSupervisor, ToSupervisor>>, <<ToWorker, ToSupervisor>>,
    <<Status, ToSupervisor>>}}
===============================================================================
