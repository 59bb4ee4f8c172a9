---------------------------- MODULE MCSenderLoop -----------------------------
(***************************************************************************)
(* Instance of SenderLoop for TLC.                                         *)
(***************************************************************************)
EXTENDS SenderLoop

First == {1}
Everybody == Dest
=============================================================================
