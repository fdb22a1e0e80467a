------------------------------ MODULE MCLauncher ------------------------------
(* Instances of Launcher for TLC: which command each job is. *)
EXTENDS Launcher, TLC

CONSTANTS j1, j2, j3, etl, cdc

\* Two jobs of one command and one of another.
MCCmdOf == [j \in Jobs |-> IF j = j3 THEN cdc ELSE etl]
===============================================================================
