------------------------------ MODULE StatusBoard ------------------------------
(***************************************************************************)
(* What the supervisor's table of child processes promises: the reports of *)
(* the launcher are posted in one sequence and applied in that sequence,   *)
(* each once and none left out, until the supervisor shuts down.  From     *)
(* then on reports may be dropped and entries struck off.                  *)
(***************************************************************************)
EXTENDS Naturals, Sequences

CONSTANTS
  Kids       \* child processes

VARIABLES
  posted,    \* reports not applied yet, oldest first
  listed,    \* children in the table
  closed     \* the supervisor is shutting down

vars == <<posted, listed, closed>>

Report == [cmd : {"NOTIFY", "COMPLETION"}, pid : Kids]

Init ==
  /\ posted = <<>>
  /\ listed = {}
  /\ closed = FALSE

Post(r) ==
  /\ posted' = Append(posted, r)
  /\ UNCHANGED <<listed, closed>>

Apply ==
  /\ posted # <<>>
  /\ posted' = Tail(posted)
  /\ listed' = IF Head(posted).cmd = "NOTIFY"
               THEN listed \cup {Head(posted).pid}
               ELSE listed \ {Head(posted).pid}
  /\ UNCHANGED closed

Close ==
  /\ closed' = TRUE
  /\ UNCHANGED <<posted, listed>>

DropFirst ==
  /\ closed
  /\ posted # <<>>
  /\ posted' = Tail(posted)
  /\ UNCHANGED <<listed, closed>>

DropLast ==
  /\ closed
  /\ \E n \in 0..Len(posted) : posted' = SubSeq(posted, 1, n)
  /\ UNCHANGED <<listed, closed>>

Strike(k) ==
  /\ closed
  /\ k \in listed
  /\ listed' = listed \ {k}
  /\ UNCHANGED <<posted, closed>>

Next ==
  \/ \E r \in Report : Post(r)
  \/ Apply \/ Close \/ DropFirst \/ DropLast
  \/ \E k \in Kids : Strike(k)

Spec == Init /\ [][Next]_vars
===============================================================================
