---------------------------- MODULE DedupeWindow -----------------------------
(***************************************************************************)
(* dedupe::Window of harness/include/dedupe_window.h: a circular bitmap     *)
(* over the Size sequence numbers from base_seq, one per stream of the      *)
(* receiver.  observe() is one call of one thread, so it is one step; its   *)
(* loops are given by what they leave behind.                               *)
(***************************************************************************)
EXTENDS Integers, FiniteSets

CONSTANTS
  Size,      \* size_, the numbers the window spans
  Width,     \* 2^64: sequence numbers are uint64_t
  Seqs,      \* the sequence numbers that arrive
  MaxCalls   \* bound: how many calls of observe()

\* The constructor aborts on an empty window.  The number 2^64 - 1 is left out:
\* ++base_seq_ past it would start over at 0.
ASSUME WindowAssumption ==
  /\ Size \in Nat \ {0}
  /\ Width \in Nat /\ 2 * Size <= Width
  /\ Seqs \subseteq 0 .. Width - 2
  /\ MaxCalls \in Nat

VARIABLES
  initialized,  \* initialized_
  base_seq,     \* base_seq_
  bits,         \* bits_: the positions whose bit is set
  counters,     \* counters_
  result,       \* the last call: its argument and the ObserveResult
  published,    \* history: the numbers accepted, which the receiver publishes
  first         \* history: the first number observed

vars == <<initialized, base_seq, bits, counters, result, published, first>>

Positions == 0 .. Size - 1
Pos(s) == s % Size
Verdicts == {"kAccept", "kDuplicate", "kTooOld", "kAdvanced"}
Larger(a, b) == IF a > b THEN a ELSE b

Init ==
  /\ initialized = FALSE
  /\ base_seq = 0
  /\ bits = {}
  /\ counters = [accepted |-> 0, duplicates |-> 0, too_old |-> 0, lost_confirmed |-> 0,
                 window_slides |-> 0, max_reorder_depth |-> 0, receiver_seq_jump_raw |-> 0]
  /\ result = [seq |-> 0, verdict |-> "kTooOld"]
  /\ published = {}
  /\ first = 0

Calls == counters.accepted + counters.duplicates + counters.too_old

\* The first number observed becomes the base.
Base(seq) == IF initialized THEN base_seq ELSE seq

\* seq >= base_seq_ + size_, where the sum may wrap around.
Beyond(seq) == seq >= (Base(seq) + Size) % Width

\* slide_to(seq - size_ + 1): where the base ends up, ...
SlidBase(seq) == IF Beyond(seq) THEN Larger(Base(seq), seq - Size + 1) ELSE Base(seq)

\* Mutant: a slide does not clear the bits it passes.
SlidBitsKept(seq) == bits

\* ... the bits that survive: all those passed are cleared, ...
SlidBits(seq) == bits \ {Pos(s) : s \in Base(seq) .. SlidBase(seq) - 1}

\* Mutant: only numbers inside the old window are counted as lost.
LostInWindow(seq) ==
  Cardinality({s \in Base(seq) .. SlidBase(seq) - 1 : s < Base(seq) + Size /\ Pos(s) \notin bits})

\* ... and how many numbers it confirms lost: those never seen, which a turn of
\* the window later are all, as their bits have just been cleared.
Lost(seq) ==
  Cardinality({s \in Base(seq) .. SlidBase(seq) - 1 : s >= Base(seq) + Size \/ Pos(s) \notin bits})

\* The counters that observe() updates before it looks at the bit.
Slid(seq) ==
  [counters EXCEPT
     !.receiver_seq_jump_raw = Larger(@, seq - Base(seq)),
     !.lost_confirmed = @ + Lost(seq),
     !.window_slides = IF Beyond(seq) THEN @ + 1 ELSE @,
     !.max_reorder_depth = Larger(@, seq - SlidBase(seq))]

TooOld(seq) ==
  /\ seq < Base(seq)
  /\ counters' = [counters EXCEPT !.too_old = @ + 1]
  /\ result' = [seq |-> seq, verdict |-> "kTooOld"]
  /\ UNCHANGED <<initialized, base_seq, bits, published, first>>

Duplicate(seq) ==
  /\ seq >= Base(seq)
  /\ Pos(seq) \in SlidBits(seq)
  /\ initialized' = TRUE
  /\ base_seq' = SlidBase(seq)
  /\ bits' = SlidBits(seq)
  /\ counters' = [Slid(seq) EXCEPT !.duplicates = @ + 1]
  /\ result' = [seq |-> seq, verdict |-> "kDuplicate"]
  /\ UNCHANGED <<published, first>>

\* Mutant: the contiguous run is passed without clearing its bits.
AdvanceContiguousDirty(b, marked) ==
  \E n \in b .. b + Size :
    /\ \A m \in b .. n - 1 : Pos(m) \in marked
    /\ n = b + Size \/ Pos(n) \notin marked
    /\ base_seq' = n
    /\ bits' = marked

\* Mutant: the base stops one short of the numbers whose bits it cleared.
AdvanceContiguousShort(b, marked) ==
  \E n \in b .. b + Size :
    /\ \A m \in b .. n - 1 : Pos(m) \in marked
    /\ n = b + Size \/ Pos(n) \notin marked
    /\ base_seq' = Larger(b, n - 1)
    /\ bits' = marked \ {Pos(m) : m \in b .. n - 1}

\* advance_contiguous(): the base moves to the first gap at or after b, clearing
\* the bits it passes (so that a full window stops it after one turn).
AdvanceContiguous(b, marked) ==
  \E n \in b .. b + Size :
    /\ \A m \in b .. n - 1 : Pos(m) \in marked
    /\ n = b + Size \/ Pos(n) \notin marked
    /\ base_seq' = n
    /\ bits' = marked \ {Pos(m) : m \in b .. n - 1}

Accept(seq) ==
  /\ seq >= Base(seq)
  /\ Pos(seq) \notin SlidBits(seq)
  /\ initialized' = TRUE
  /\ AdvanceContiguous(SlidBase(seq), SlidBits(seq) \cup {Pos(seq)})
  /\ counters' = [Slid(seq) EXCEPT !.accepted = @ + 1]
  /\ result' = [seq |-> seq, verdict |-> IF Beyond(seq) THEN "kAdvanced" ELSE "kAccept"]
  /\ published' = published \cup {seq}
  /\ first' = IF initialized THEN first ELSE seq

Observe(seq) == TooOld(seq) \/ Duplicate(seq) \/ Accept(seq)

Next == Calls < MaxCalls /\ \E seq \in Seqs : Observe(seq)

Spec == Init /\ [][Next]_vars
-----------------------------------------------------------------------------
(* Properties.                                                             *)

Counters == [accepted : Nat, duplicates : Nat, too_old : Nat, lost_confirmed : Nat,
             window_slides : Nat, max_reorder_depth : Nat, receiver_seq_jump_raw : Nat]

\* Every variable has its type; base_seq_ never wraps around 2^64.
TypeOK ==
  /\ initialized \in BOOLEAN
  /\ base_seq \in 0 .. Width - 1
  /\ bits \subseteq Positions
  /\ counters \in Counters
  /\ result \in [seq : Nat, verdict : Verdicts]
  /\ published \subseteq Seqs
  /\ first \in Nat

\* Between two calls the bitmap says exactly which numbers of the window were
\* accepted, whatever slides and wraps around the bitmap came before; the base
\* is the first gap.
WindowExact ==
  /\ \A s \in base_seq .. base_seq + Size - 1 : Pos(s) \in bits <=> s \in published
  /\ base_seq \notin published

\* No number is accepted twice: observe() counts as many acceptances as there
\* are different numbers accepted.
AcceptedOnce == counters.accepted = Cardinality(published)

\* lost_confirmed is exact: the numbers from the first one observed up to the
\* base that were never accepted, each counted once, and nothing accepted after
\* it was confirmed lost.
LossExact == initialized => counters.lost_confirmed = Cardinality((first .. base_seq - 1) \ published)

\* A number is refused only if it was accepted before, precedes the first one
\* observed, or is a window's size or more behind the newest; the window
\* implements at-most-once delivery with that tolerance.
Promise == INSTANCE DeliverOnce WITH
             Tolerance <- Size,
             delivered <- published,
             floor <- base_seq,
             answer <- [seq |-> result.seq, fresh |-> result.verdict \in {"kAccept", "kAdvanced"}]

DeliversOnce == Promise!Spec
=============================================================================
