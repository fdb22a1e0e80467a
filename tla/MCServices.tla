------------------------------ MODULE MCServices ------------------------------
(* Instances of Services for TLC: a class path and some settings.            *)
EXTENDS Services, TLC

CONSTANTS etl, gen, c1, c2

Typed(name) == [name |-> name, upper |-> FALSE]
Annotated(name) == [name |-> name, upper |-> TRUE]
Method(class, role, word) == [class |-> class, role |-> role, word |-> word]

MCTestClasses == {"test"}

\* The library's test class, in its own archive, and the user's class.
MCMethods ==
  {Method("test", "main", None), Method("test", "worker", Annotated(etl)),
   Method("test", "supervisor", Annotated(gen)),
   Method("app", "main", None), Method("app", "worker", Annotated(etl)),
   Method("app", "supervisor", Annotated(gen))}

NoPoints == [p \in GivenPoints |-> None]

\* Nothing; a main; a status of another class; commands of workers with and without words.
MCConfigs ==
  {Settings(None, NoPoints, None, {}), Settings("app", NoPoints, None, {}),
   Settings(None, [NoPoints EXCEPT !["status"] = "other"], None, {}),
   Settings(None, NoPoints, "app", {Typed(gen)}), Settings(None, NoPoints, "app", {})}

\* A service under all settings and orders of the class path; two services that may meet.
MCScans == Scans(MCMethods)
MCOrder == CHOOSE s \in MCScans : s.supervisor # <<>> /\ IsTest(Last(s.supervisor))
MCCases ==
  [cfg : MCConfigs, scan : MCScans, services : {1}, clients : {{c1, c2}}, calls : {GivenPoints}]
  \cup [cfg : {Settings(None, NoPoints, None, {})}, scan : {MCOrder},
        services : {2}, clients : {{c1}, {c2}}, calls : {{}}]

MCWordOf == c1 :> Typed(etl) @@ c2 :> Annotated(gen)
===============================================================================
