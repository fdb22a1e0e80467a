------------------------------ MODULE MCSupervisor ------------------------------
(* Instances of Supervisor for TLC: workers, clients and their symmetry. *)
EXTENDS Supervisor, TLC

CONSTANTS w1, w2, cmd1, status1

\* The workers are interchangeable (safety runs only).
Symmetry == Permutations(Kids)
===============================================================================
