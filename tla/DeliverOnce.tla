----------------------------- MODULE DeliverOnce -----------------------------
(***************************************************************************)
(* What the receiver promises for one stream: a sequence number is          *)
(* delivered at most once, and is refused only when it was delivered or     *)
(* lies below a floor.  The floor starts at the first number seen and only  *)
(* passes numbers that were delivered or are Tolerance or more behind.      *)
(***************************************************************************)
EXTENDS Integers

CONSTANTS
  Seqs,       \* sequence numbers that may arrive
  Tolerance   \* how far behind the newest number a late one may still arrive

VARIABLES
  delivered,  \* the numbers delivered so far
  floor,      \* the number below which everything is refused
  answer      \* the last number offered, and whether it was delivered

vars == <<delivered, floor, answer>>

NoAnswer == [seq |-> 0, fresh |-> FALSE]

Init == delivered = {} /\ floor = 0 /\ answer = NoAnswer

Floor(s) == IF delivered = {} THEN s ELSE floor

Deliver(s) ==
  /\ s \notin delivered /\ s >= Floor(s)
  /\ delivered' = delivered \cup {s}
  /\ floor' \in Nat /\ floor' >= Floor(s)
  /\ \A t \in Floor(s) .. floor' - 1 : t \in delivered' \/ t + Tolerance <= s
  /\ answer' = [seq |-> s, fresh |-> TRUE]

Refuse(s) ==
  /\ s \in delivered \/ s < Floor(s)
  /\ answer' = [seq |-> s, fresh |-> FALSE]
  /\ UNCHANGED <<delivered, floor>>

Next == \E s \in Seqs : Deliver(s) \/ Refuse(s)

Spec == Init /\ [][Next]_vars
=============================================================================
