------------------------------- MODULE MCFec --------------------------------
(* Instances of Fec for TLC. *)
EXTENDS Fec

\* The first frame is the shortest.
Lengths == [f \in 1..MaxFrames |-> IF f = 1 THEN 1 ELSE 2]
=============================================================================
