------------------------------- MODULE Selection -------------------------------
(***************************************************************************)
(* The elements of a sequence that belong to a set, in their order.  It is *)
(* SelectSeq with a set for its test, written as a recursive function of   *)
(* the length of a prefix.                                                 *)
(***************************************************************************)
EXTENDS Naturals, Sequences

\* For each n, what is selected from the first n elements.
Taken(s, R) ==
  LET upTo[n \in 0..Len(s)] ==
        IF n = 0 THEN <<>>
        ELSE IF s[n] \in R THEN Append(upTo[n - 1], s[n]) ELSE upTo[n - 1]
  IN upTo

Selected(s, R) == Taken(s, R)[Len(s)]
===============================================================================
