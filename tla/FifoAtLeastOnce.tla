--------------------------- MODULE FifoAtLeastOnce ---------------------------
(***************************************************************************)
(* What the durable relay pair promises to the two C++ endpoints: the      *)
(* frames the sending endpoint hands over, numbered 1, 2, ... in the order *)
(* of submission, reach the receiving endpoint in that order, each at      *)
(* least once, and a repetition only ever repeats the latest frame.  A     *)
(* frame may arrive before its acknowledgement reaches the submitter, so   *)
(* delivery may run one frame ahead of acceptance.                         *)
(***************************************************************************)
EXTENDS Naturals

CONSTANT Frames      \* how many frames the application submits

VARIABLES acked,     \* frames 1..acked are accepted
          last       \* the frame delivered latest (0: none yet)

Init == acked = 0 /\ last = 0

Accept ==
  /\ acked < Frames
  /\ acked' = acked + 1
  /\ UNCHANGED last

Deliver ==
  /\ last < Frames /\ last =< acked
  /\ last' = last + 1
  /\ UNCHANGED acked

Next == Accept \/ Deliver

Spec == Init /\ [][Next]_<<acked, last>>
=============================================================================
