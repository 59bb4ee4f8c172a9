------------------------- MODULE DedupeWindowProofs --------------------------
(***************************************************************************)
(* Proofs about the duplicate window, for every window size, every integer *)
(* width and every order in which sequence numbers arrive.                 *)
(***************************************************************************)
EXTENDS DedupeWindow, Residues, FiniteSetTheorems

USE WindowAssumption

\* Every number has a position in the bitmap.
LEMMA PosType == \A s \in Nat : Pos(s) \in Positions
  BY Division DEF Pos, Positions

\* Two numbers that share a position are at least a window apart.
LEMMA PosApart ==
  ASSUME NEW a \in Nat, NEW b \in Nat, b < a, Pos(a) = Pos(b)
  PROVE  b + Size <= a
<1>1. a % Size = b % Size
  BY DEF Pos
<1>2. a \in Int /\ b \in Int /\ Size \in Nat \ {0}
  OBVIOUS
<1> QED
  BY Zenon, <1>1, <1>2, SamePositionApart

\* The number one window earlier has the same position.
LEMMA PosTurn == \A s \in Nat : Pos(s - Size) = Pos(s)
<1> TAKE s \in Nat
<1>1. s \in Int /\ Size \in Nat \ {0}
  OBVIOUS
<1> QED
  BY Zenon, <1>1, SamePositionTurn DEF Pos

\* A bitmap is exact for the window at b: it tells the members of P, which has
\* none beyond the window.
Exact(M, P, b) ==
  /\ \A s \in b .. b + Size - 1 : Pos(s) \in M <=> s \in P
  /\ \A s \in P : s < b + Size

\* Moving the base of an exact bitmap, clearing what is passed, keeps it exact:
\* both slide_to and advance_contiguous do so.
LEMMA MoveKeepsExact ==
  ASSUME NEW M, NEW P \in SUBSET Nat, NEW b \in Nat, NEW c \in Nat, b <= c, Exact(M, P, b)
  PROVE  Exact(M \ {Pos(t) : t \in b .. c - 1}, P, c)
<1> DEFINE N == M \ {Pos(t) : t \in b .. c - 1}
<1>1. ASSUME NEW s \in c .. c + Size - 1 PROVE Pos(s) \in N <=> s \in P
  <2>1. s \in Nat /\ c <= s /\ s < c + Size
    OBVIOUS
  <2>2. CASE s < b + Size
    <3>1. ASSUME NEW t \in b .. c - 1 PROVE Pos(t) # Pos(s)
      <4>1. t \in Nat /\ t < s /\ s < t + Size
        BY <2>1, <2>2
      <4> QED
        BY <4>1, <2>1, PosApart
    <3>2. Pos(s) \in M <=> s \in P
      BY <2>1, <2>2 DEF Exact
    <3> QED
      BY <3>1, <3>2
  <2>3. CASE s >= b + Size
    <3>1. s \notin P
      BY <2>1, <2>3 DEF Exact
    <3>2. s - Size \in b .. c - 1 /\ Pos(s - Size) = Pos(s)
      BY <2>1, <2>3, PosTurn
    <3> QED
      BY <3>1, <3>2
  <2> QED
    BY <2>1, <2>2, <2>3
<1>2. \A s \in P : s < c + Size
  BY DEF Exact
<1> QED
  BY <1>1, <1>2 DEF Exact

\* Setting the bit of a number of the window keeps the bitmap exact.
LEMMA SetKeepsExact ==
  ASSUME NEW M, NEW P \in SUBSET Nat, NEW b \in Nat, NEW q \in b .. b + Size - 1, Exact(M, P, b)
  PROVE  Exact(M \cup {Pos(q)}, P \cup {q}, b)
<1>1. ASSUME NEW s \in b .. b + Size - 1, Pos(s) = Pos(q) PROVE s = q
  <2>1. s \in Nat /\ q \in Nat /\ s < q + Size /\ q < s + Size
    OBVIOUS
  <2>2. ~(s < q) /\ ~(q < s)
    BY <1>1, <2>1, PosApart
  <2> QED
    BY <2>1, <2>2
<1> QED
  BY <1>1 DEF Exact

\* Where slide_to leaves the base: at or below the number observed, which is in
\* the window then, and only numbers a whole window behind it were passed.  This
\* also holds where base_seq_ + size_ wraps around.
LEMMA SlideRange ==
  ASSUME NEW seq \in 0 .. Width - 2, NEW b \in Nat, b = Base(seq), b < Width, b <= seq
  PROVE  /\ SlidBase(seq) \in Nat /\ b <= SlidBase(seq)
         /\ SlidBase(seq) <= seq /\ seq < SlidBase(seq) + Size
         /\ \A t \in b .. SlidBase(seq) - 1 : t + Size <= seq
<1>1. CASE Beyond(seq)
  BY <1>1 DEF SlidBase, Larger
<1>2. CASE ~Beyond(seq)
  <2>1. SlidBase(seq) = b
    BY <1>2 DEF SlidBase
  <2>2. seq < b + Size
    <3>1. CASE b + Size < Width
      <4>1. (b + Size) % Width = b + Size
        BY <3>1, SmallResidue
      <4> QED
        BY <1>2, <4>1 DEF Beyond
    <3> QED
      BY <3>1
  <2> QED
    BY <2>1, <2>2
<1> QED
  BY <1>1, <1>2

-----------------------------------------------------------------------------
(* The window between two calls.                                           *)

\* The bitmap is exact, nothing beyond the window was accepted, the base is a
\* gap, and the window is empty until the first call.
WindowInv ==
  /\ initialized \in BOOLEAN /\ base_seq \in 0 .. Width - 1 /\ published \in SUBSET Seqs
  /\ Exact(bits, published, base_seq)
  /\ base_seq \notin published
  /\ initialized <=> published # {}
  /\ ~initialized => bits = {} /\ base_seq = 0

\* The base that observe() starts from: the window is exact there too.
LEMMA BaseFacts ==
  ASSUME WindowInv, NEW seq \in Seqs
  PROVE  /\ Base(seq) \in Nat /\ Base(seq) < Width
         /\ Exact(bits, published, Base(seq))
         /\ Base(seq) \notin published
<1>1. CASE initialized
  BY <1>1 DEF WindowInv, Base
<1>2. CASE ~initialized
  <2>1. Base(seq) = seq /\ bits = {} /\ published = {}
    BY <1>2 DEF WindowInv, Base
  <2> QED
    BY <2>1 DEF Exact
<1> QED
  BY <1>1, <1>2

\* What slide_to leaves: an exact window that holds the number observed.
LEMMA SlideFacts ==
  ASSUME WindowInv, NEW seq \in Seqs, seq >= Base(seq)
  PROVE  /\ SlidBase(seq) \in Nat /\ Base(seq) <= SlidBase(seq)
         /\ SlidBase(seq) <= seq /\ seq < SlidBase(seq) + Size
         /\ \A t \in Base(seq) .. SlidBase(seq) - 1 : t + Size <= seq
         /\ Exact(SlidBits(seq), published, SlidBase(seq))
         /\ Pos(seq) \in SlidBits(seq) <=> seq \in published
<1> DEFINE b == Base(seq)
           c == SlidBase(seq)
<1>1. b \in Nat /\ b < Width /\ Exact(bits, published, b) /\ published \in SUBSET Nat
  BY BaseFacts DEF WindowInv
<1>2. /\ c \in Nat /\ b <= c /\ c <= seq /\ seq < c + Size
      /\ \A t \in b .. c - 1 : t + Size <= seq
  BY <1>1, SlideRange
<1>3. Exact(SlidBits(seq), published, c)
  BY <1>1, <1>2, MoveKeepsExact DEF SlidBits
<1>4. Pos(seq) \in SlidBits(seq) <=> seq \in published
  <2> HIDE DEF b, c
  <2>1. seq \in c .. c + Size - 1
    BY <1>2
  <2> QED
    BY <2>1, <1>3 DEF Exact
<1> QED
  BY <1>2, <1>3, <1>4

\* A number whose bit is set was accepted, and such a call moves nothing.
LEMMA DuplicateFacts ==
  ASSUME WindowInv, NEW seq \in Seqs, Duplicate(seq)
  PROVE  /\ initialized /\ seq \in published
         /\ SlidBase(seq) = base_seq
         /\ UNCHANGED <<initialized, base_seq, bits>>
<1>0. seq >= Base(seq)
  BY DEF Duplicate
<1>1. seq \in published
  BY <1>0, SlideFacts DEF Duplicate
<1>2. initialized = TRUE /\ Base(seq) = base_seq
  BY <1>1 DEF WindowInv, Base
<1>3. seq < base_seq + Size
  BY <1>1 DEF WindowInv, Exact
<1>4. SlidBase(seq) = base_seq
  BY <1>0, <1>2, <1>3, SlideFacts DEF WindowInv
<1>5. SlidBits(seq) = bits
  BY <1>2, <1>4 DEF SlidBits, WindowInv
<1> QED
  BY <1>1, <1>2, <1>4, <1>5 DEF Duplicate

\* An accepted number is new; the base moves over numbers accepted or a whole
\* window behind, to a gap, and the window stays exact.
LEMMA AcceptFacts ==
  ASSUME WindowInv, NEW seq \in Seqs, Accept(seq)
  PROVE  /\ seq \notin published
         /\ base_seq' \in SlidBase(seq) .. Width - 1
         /\ \A t \in SlidBase(seq) .. base_seq' - 1 : t \in published'
         /\ Exact(bits', published', base_seq')
         /\ base_seq' \notin published'
<1> DEFINE c == SlidBase(seq)
           M == SlidBits(seq) \cup {Pos(seq)}
<1>0. seq >= Base(seq)
  BY DEF Accept
<1>1. /\ c \in Nat /\ c <= seq /\ seq < c + Size
      /\ Exact(SlidBits(seq), published, c)
      /\ Pos(seq) \in SlidBits(seq) <=> seq \in published
  BY <1>0, SlideFacts
<1>2. seq \notin published
  BY <1>1 DEF Accept
<1>3. published' = published \cup {seq} /\ published' \in SUBSET Seqs /\ published \in SUBSET Nat
  BY DEF Accept, WindowInv
<1>4. PICK n \in c .. c + Size :
        /\ \A m \in c .. n - 1 : Pos(m) \in M
        /\ n = c + Size \/ Pos(n) \notin M
        /\ base_seq' = n
        /\ bits' = M \ {Pos(m) : m \in c .. n - 1}
  BY DEF Accept, AdvanceContiguous
<1>5. Exact(M, published', c)
  BY <1>1, <1>3, SetKeepsExact
<1> HIDE DEF c, M
<1>6. \A t \in c .. n - 1 : t \in published'
  BY <1>1, <1>4, <1>5 DEF Exact
<1>7. n \notin published'
  BY <1>1, <1>4, <1>5 DEF Exact
<1>8. n <= Width - 1
  <2>1. CASE n = c
    BY <2>1, <1>1
  <2>2. CASE n > c
    <3>1. n - 1 \in c .. n - 1
      BY <2>2, <1>1, <1>4
    <3>2. n - 1 \in 0 .. Width - 2
      BY <3>1, <1>6, <1>3
    <3> QED
      BY <3>2, <1>1, <1>4
  <2> QED
    BY <2>1, <2>2, <1>1, <1>4
<1>9. Exact(bits', published', n)
  BY <1>1, <1>3, <1>4, <1>5, MoveKeepsExact
<1> QED
  BY <1>1, <1>2, <1>4, <1>6, <1>7, <1>8, <1>9 DEF c

\* observe() keeps the window exact.
LEMMA WindowInvariant == Spec => []WindowInv
<1>1. Init => WindowInv
  <2> SUFFICES ASSUME Init PROVE WindowInv
    OBVIOUS
  <2>1. base_seq \in 0 .. Width - 1 /\ published \in SUBSET Seqs
    BY DEF Init
  <2>2. Exact(bits, published, base_seq)
    BY DEF Init, Exact
  <2> QED
    BY Zenon, <2>1, <2>2 DEF Init, WindowInv
<1>2. WindowInv /\ [Next]_vars => WindowInv'
  <2> SUFFICES ASSUME WindowInv, [Next]_vars PROVE WindowInv'
    OBVIOUS
  <2>1. CASE UNCHANGED vars
    BY <2>1 DEF vars, WindowInv, Exact
  <2>2. ASSUME NEW seq \in Seqs, TooOld(seq) PROVE WindowInv'
    BY <2>2 DEF TooOld, WindowInv, Exact
  <2>3. ASSUME NEW seq \in Seqs, Duplicate(seq) PROVE WindowInv'
    BY <2>3, DuplicateFacts, Zenon DEF Duplicate, WindowInv, Exact
  <2>4. ASSUME NEW seq \in Seqs, Accept(seq) PROVE WindowInv'
    <3>1. seq >= Base(seq) /\ published' = published \cup {seq} /\ initialized' = TRUE
      BY <2>4 DEF Accept
    <3>2. SlidBase(seq) \in Nat
      BY <3>1, SlideFacts
    <3>3. /\ base_seq' \in 0 .. Width - 1
          /\ Exact(bits', published', base_seq') /\ base_seq' \notin published'
      BY <2>4, <3>2, AcceptFacts
    <3> QED
      BY <3>1, <3>3, Zenon DEF WindowInv, Exact
  <2> QED
    BY <2>1, <2>2, <2>3, <2>4 DEF Next, Observe
<1> QED
  BY <1>1, <1>2, PTL DEF Spec

\* Between two calls of observe() the bitmap tells exactly which numbers of the
\* window were accepted, for every window size and arrival order.
THEOREM WindowIsExact == Spec => []WindowExact
<1>1. WindowInv => WindowExact
  BY DEF WindowInv, Exact, WindowExact
<1> QED
  BY <1>1, WindowInvariant, PTL

-----------------------------------------------------------------------------
(* The promise.                                                            *)

\* dedupe::Window delivers every number at most once and refuses only what was
\* delivered, precedes the first number, or is a window behind the newest: it
\* implements DeliverOnce.
THEOREM DeliversAtMostOnce == Spec => DeliversOnce
<1>1. Init => Promise!Init
  <2> SUFFICES ASSUME Init PROVE Promise!Init
    OBVIOUS
  <2>1. result.seq = 0 /\ (result.verdict \in {"kAccept", "kAdvanced"}) = FALSE
    BY DEF Init
  <2>2. [seq |-> result.seq, fresh |-> result.verdict \in {"kAccept", "kAdvanced"}] = Promise!NoAnswer
    BY Zenon, <2>1 DEF Promise!NoAnswer
  <2> QED
    BY <2>2 DEF Init, Promise!Init
<1>2. WindowInv /\ [Next]_vars => [Promise!Next]_Promise!vars
  <2> SUFFICES ASSUME WindowInv, [Next]_vars PROVE [Promise!Next]_Promise!vars
    OBVIOUS
  <2>1. CASE UNCHANGED vars
    BY <2>1 DEF vars, Promise!vars
  <2>2. ASSUME NEW seq \in Seqs, TooOld(seq) PROVE Promise!Refuse(seq)
    <3>1. seq < Base(seq) /\ UNCHANGED <<published, base_seq>> /\ result'.seq = seq
          /\ (result'.verdict \in {"kAccept", "kAdvanced"}) = FALSE
      BY <2>2 DEF TooOld
    <3>2. Promise!Floor(seq) = Base(seq)
      BY Zenon DEF Promise!Floor, Base, WindowInv
    <3>3. [seq |-> result'.seq, fresh |-> result'.verdict \in {"kAccept", "kAdvanced"}]
          = [seq |-> seq, fresh |-> FALSE]
      BY Zenon, <3>1
    <3> QED
      BY <3>1, <3>2, <3>3 DEF Promise!Refuse
  <2>3. ASSUME NEW seq \in Seqs, Duplicate(seq) PROVE Promise!Refuse(seq)
    <3>1. seq \in published /\ UNCHANGED <<published, base_seq>> /\ result'.seq = seq
          /\ (result'.verdict \in {"kAccept", "kAdvanced"}) = FALSE
      <4>1. seq \in published /\ base_seq' = base_seq
        BY <2>3, DuplicateFacts
      <4>2. published' = published /\ result' = [seq |-> seq, verdict |-> "kDuplicate"]
        BY <2>3 DEF Duplicate
      <4> QED
        BY <4>1, <4>2
    <3>2. [seq |-> result'.seq, fresh |-> result'.verdict \in {"kAccept", "kAdvanced"}]
          = [seq |-> seq, fresh |-> FALSE]
      BY Zenon, <3>1
    <3> QED
      BY <3>1, <3>2 DEF Promise!Refuse
  <2>4. ASSUME NEW seq \in Seqs, Accept(seq) PROVE Promise!Deliver(seq)
    <3> DEFINE b == Base(seq)
               c == SlidBase(seq)
               n == base_seq'
    <3>1. /\ seq >= b /\ published' = published \cup {seq}
          /\ result'.seq = seq /\ result'.verdict \in {"kAccept", "kAdvanced"}
      BY <2>4 DEF Accept
    <3>2. /\ c \in Nat /\ b <= c /\ b \in Nat
          /\ \A t \in b .. c - 1 : t + Size <= seq
      BY <3>1, SlideFacts, BaseFacts
    <3>3. /\ seq \notin published /\ n \in c .. Width - 1
          /\ \A t \in c .. n - 1 : t \in published'
      BY <2>4, AcceptFacts
    <3>4. Promise!Floor(seq) = b
      BY Zenon DEF Promise!Floor, Base, WindowInv
    <3> HIDE DEF b, c, n
    <3>5. n \in Nat /\ n >= b /\ \A t \in b .. n - 1 : t \in published' \/ t + Size <= seq
      BY <3>2, <3>3
    <3>6. [seq |-> result'.seq, fresh |-> result'.verdict \in {"kAccept", "kAdvanced"}]
          = [seq |-> seq, fresh |-> TRUE]
      BY Zenon, <3>1
    <3> QED
      BY <3>1, <3>3, <3>4, <3>5, <3>6, Zenon DEF Promise!Deliver, n
  <2> QED
    BY <2>1, <2>2, <2>3, <2>4 DEF Next, Observe, Promise!Next
<1> QED
  BY <1>1, <1>2, WindowInvariant, PTL DEF Spec, DeliversOnce, Promise!Spec

-----------------------------------------------------------------------------
(* The counters.                                                           *)

\* The numbers confirmed lost by a slide are the passed ones never accepted.
LEMMA LostFacts ==
  ASSUME WindowInv, NEW seq \in Seqs, seq >= Base(seq)
  PROVE  /\ Lost(seq) = Cardinality((Base(seq) .. SlidBase(seq) - 1) \ published)
         /\ Lost(seq) \in Nat
<1> DEFINE b == Base(seq)
           c == SlidBase(seq)
           L == {s \in b .. c - 1 : s >= b + Size \/ Pos(s) \notin bits}
<1>1. b \in Nat /\ c \in Nat /\ Exact(bits, published, b)
  BY BaseFacts, SlideFacts
<1>2. L = (b .. c - 1) \ published
  <2> SUFFICES ASSUME NEW s \in b .. c - 1
               PROVE  (s >= b + Size \/ Pos(s) \notin bits) <=> s \notin published
    OBVIOUS
  <2> HIDE DEF b, c
  <2> QED
    BY <1>1 DEF Exact
<1>3. IsFiniteSet((b .. c - 1) \ published)
  <2> HIDE DEF b, c
  <2>1. b \in Int /\ c - 1 \in Int
    BY <1>1
  <2>2. IsFiniteSet(b .. c - 1)
    BY <2>1, FS_Interval
  <2> QED
    BY <2>2, FS_Difference, Zenon
<1>4. Cardinality((b .. c - 1) \ published) \in Nat
  BY <1>3, FS_CardinalityType
<1>5. Lost(seq) = Cardinality(L)
  BY DEF Lost
<1> QED
  BY <1>2, <1>4, <1>5

\* Finitely many numbers are accepted.
LEMMA PublishedFinite ==
  ASSUME NEW P \in SUBSET Seqs
  PROVE  IsFiniteSet(P) /\ Cardinality(P) \in Nat
<1>1. IsFiniteSet(0 .. Width - 2)
  BY FS_Interval
<1>2. IsFiniteSet(P)
  BY <1>1, FS_Subset, Zenon
<1> QED
  BY <1>2, FS_CardinalityType

\* The counters after a call that passes the too-old test.
LEMMA SlidType ==
  ASSUME WindowInv, counters \in Counters, NEW seq \in Seqs, seq >= Base(seq)
  PROVE  Slid(seq) \in Counters
<1> DEFINE jump == Larger(counters.receiver_seq_jump_raw, seq - Base(seq))
           lost == counters.lost_confirmed + Lost(seq)
           slides == IF Beyond(seq) THEN counters.window_slides + 1 ELSE counters.window_slides
           depth == Larger(counters.max_reorder_depth, seq - SlidBase(seq))
<1>1. Base(seq) \in Nat /\ SlidBase(seq) \in Nat /\ SlidBase(seq) <= seq /\ Lost(seq) \in Nat
  BY BaseFacts, SlideFacts, LostFacts, Zenon
<1>2. jump \in Nat /\ lost \in Nat /\ slides \in Nat /\ depth \in Nat
  BY <1>1 DEF Counters, Larger
<1>3. Slid(seq) = [counters EXCEPT !.receiver_seq_jump_raw = jump, !.lost_confirmed = lost,
                                   !.window_slides = slides, !.max_reorder_depth = depth]
  BY DEF Slid
<1> HIDE DEF jump, lost, slides, depth
<1> QED
  BY <1>2, <1>3, ZenonT(40) DEF Counters

\* The variables keep their types, and base_seq_ does not wrap around.
THEOREM TypeCorrect == Spec => []TypeOK
<1>1. Init => TypeOK
  <2> SUFFICES ASSUME Init PROVE TypeOK
    OBVIOUS
  <2>1. counters \in Counters /\ result \in [seq : Nat, verdict : Verdicts]
    BY DEF Init, Counters, Verdicts
  <2>2. base_seq \in 0 .. Width - 1 /\ first \in Nat
    BY DEF Init
  <2> QED
    BY <2>1, <2>2, Zenon DEF Init, TypeOK
<1>2. TypeOK /\ WindowInv /\ WindowInv' /\ [Next]_vars => TypeOK'
  <2> SUFFICES ASSUME TypeOK, WindowInv, WindowInv', [Next]_vars PROVE TypeOK'
    OBVIOUS
  <2>0. initialized' \in BOOLEAN /\ base_seq' \in 0 .. Width - 1 /\ published' \subseteq Seqs
    BY DEF WindowInv
  <2>1. CASE UNCHANGED vars
    BY <2>1 DEF vars, TypeOK
  <2>2. ASSUME NEW seq \in Seqs, TooOld(seq) PROVE TypeOK'
    <3>1. counters' \in Counters
      BY <2>2 DEF TooOld, TypeOK, Counters
    <3> QED
      BY <2>2, <2>0, <3>1 DEF TooOld, TypeOK, Verdicts
  <2>3. ASSUME NEW seq \in Seqs, Duplicate(seq) PROVE TypeOK'
    <3>0. seq >= Base(seq) /\ counters' = [Slid(seq) EXCEPT !.duplicates = @ + 1]
      BY <2>3 DEF Duplicate
    <3>1. counters' \in Counters
      <4>1. Slid(seq) \in Counters
        BY <3>0, SlidType DEF TypeOK
      <4> QED
        BY <3>0, <4>1 DEF Counters
    <3>2. bits' \subseteq Positions
      BY <2>3 DEF Duplicate, SlidBits, TypeOK
    <3> QED
      BY <2>3, <2>0, <3>1, <3>2 DEF Duplicate, TypeOK, Verdicts
  <2>4. ASSUME NEW seq \in Seqs, Accept(seq) PROVE TypeOK'
    <3>0. /\ seq >= Base(seq) /\ counters' = [Slid(seq) EXCEPT !.accepted = @ + 1]
          /\ result' = [seq |-> seq, verdict |-> IF Beyond(seq) THEN "kAdvanced" ELSE "kAccept"]
          /\ first' = first \/ first' = seq
      BY <2>4 DEF Accept
    <3>1. counters' \in Counters
      <4>1. Slid(seq) \in Counters
        BY <3>0, SlidType DEF TypeOK
      <4> QED
        BY <3>0, <4>1 DEF Counters
    <3>2. bits' \subseteq Positions
      BY <2>4, PosType DEF Accept, AdvanceContiguous, SlidBits, TypeOK
    <3>3. result' \in [seq : Nat, verdict : Verdicts] /\ first' \in Nat
      BY <3>0 DEF Verdicts, TypeOK
    <3> QED
      BY <2>0, <3>1, <3>2, <3>3 DEF TypeOK
  <2> QED
    BY <2>1, <2>2, <2>3, <2>4 DEF Next, Observe
<1> QED
  BY <1>1, <1>2, WindowInvariant, PTL DEF Spec

\* The acceptance counter counts different numbers: observe() accepts none twice.
THEOREM NothingAcceptedTwice == Spec => []AcceptedOnce
<1>1. Init => AcceptedOnce
  BY FS_EmptySet DEF Init, AcceptedOnce
<1>2. TypeOK /\ WindowInv /\ AcceptedOnce /\ [Next]_vars => AcceptedOnce'
  <2> SUFFICES ASSUME TypeOK, WindowInv, AcceptedOnce, [Next]_vars PROVE AcceptedOnce'
    OBVIOUS
  <2>1. CASE UNCHANGED vars
    BY <2>1 DEF vars, AcceptedOnce
  <2>2. ASSUME NEW seq \in Seqs, TooOld(seq) \/ Duplicate(seq) PROVE AcceptedOnce'
    BY <2>2, Zenon DEF TooOld, Duplicate, Slid, TypeOK, Counters, AcceptedOnce
  <2>3. ASSUME NEW seq \in Seqs, Accept(seq) PROVE AcceptedOnce'
    <3>1. counters'.accepted = counters.accepted + 1 /\ published' = published \cup {seq}
      BY <2>3 DEF Accept, Slid, TypeOK, Counters
    <3>2. seq \notin published
      BY <2>3, AcceptFacts
    <3>3. IsFiniteSet(published)
      BY PublishedFinite DEF WindowInv
    <3>4. Cardinality(published \cup {seq}) = Cardinality(published) + 1
      BY <3>2, <3>3, FS_AddElement
    <3> QED
      BY <3>1, <3>4 DEF AcceptedOnce
  <2> QED
    BY <2>1, <2>2, <2>3 DEF Next, Observe
<1> QED
  BY <1>1, <1>2, TypeCorrect, WindowInvariant, PTL DEF Spec

\* LossExact, and what it needs of the first number.
LossInv ==
  /\ LossExact
  /\ initialized => first <= base_seq
  /\ ~initialized => counters.lost_confirmed = 0

\* How many numbers from a up to n are not in P.
Gaps(P, a, n) == Cardinality((a .. n - 1) \ P)

\* Gaps are counted part by part.
LEMMA GapsAdd ==
  ASSUME NEW P \in SUBSET Nat, NEW a \in Nat, NEW b \in Nat, NEW c \in Nat, NEW n \in Nat, NEW q \in Nat,
         a <= b, b <= c, c <= n, c <= q, \A t \in c .. n - 1 : t \in P \cup {q}
  PROVE  Gaps(P \cup {q}, a, n) = Gaps(P, a, b) + Gaps(P, b, c)
<1> DEFINE S == (a .. b - 1) \ P
           T == (b .. c - 1) \ P
<1>1. (a .. n - 1) \ (P \cup {q}) = S \cup T
  OBVIOUS
<1>2. S \cap T = {}
  OBVIOUS
<1>3. IsFiniteSet(S) /\ IsFiniteSet(T)
  <2>1. a \in Int /\ b \in Int /\ b - 1 \in Int /\ c - 1 \in Int
    OBVIOUS
  <2>2. IsFiniteSet(a .. b - 1) /\ IsFiniteSet(b .. c - 1)
    BY <2>1, FS_Interval
  <2> QED
    BY <2>2, FS_Difference, Zenon
<1> HIDE DEF S, T
<1>4. Cardinality(S \cup T) = Cardinality(S) + Cardinality(T) - Cardinality(S \cap T)
  BY <1>3, FS_Union
<1>5. Cardinality(S \cap T) = 0 /\ Cardinality(S) \in Nat /\ Cardinality(T) \in Nat
  BY <1>2, <1>3, FS_EmptySet, FS_CardinalityType, Zenon
<1>6. Cardinality(S \cup T) = Cardinality(S) + Cardinality(T)
  BY <1>4, <1>5
<1> QED
  BY <1>1, <1>6, Zenon DEF Gaps, S, T

\* lost_confirmed is the number of gaps below the base, for every arrival order:
\* no gap is counted twice, and no number is accepted after it was confirmed lost.
THEOREM LossIsExact == Spec => []LossExact
<1>1. Init => LossInv
  BY DEF Init, LossInv, LossExact
<1>2. TypeOK /\ WindowInv /\ LossInv /\ [Next]_vars => LossInv'
  <2> SUFFICES ASSUME TypeOK, WindowInv, LossInv, [Next]_vars PROVE LossInv'
    OBVIOUS
  <2>1. CASE UNCHANGED vars
    BY <2>1 DEF vars, LossInv, LossExact
  <2>2. ASSUME NEW seq \in Seqs, TooOld(seq) PROVE LossInv'
    BY <2>2 DEF TooOld, TypeOK, Counters, LossInv, LossExact
  <2>3. ASSUME NEW seq \in Seqs, Duplicate(seq) PROVE LossInv'
    <3>1. initialized /\ SlidBase(seq) = base_seq /\ UNCHANGED <<initialized, base_seq, published, first>>
      BY <2>3, DuplicateFacts, Zenon DEF Duplicate
    <3>2. Base(seq) = base_seq /\ base_seq \in Nat
      BY <3>1 DEF Base, WindowInv
    <3>3. Lost(seq) = 0
      <4>1. base_seq .. base_seq - 1 = {}
        BY <3>2
      <4>2. Lost(seq) = Cardinality({})
        BY <4>1, <3>1, <3>2 DEF Lost
      <4> QED
        BY <4>2, FS_EmptySet
    <3>4. counters'.lost_confirmed = counters.lost_confirmed
      BY <2>3, <3>3 DEF Duplicate, Slid, TypeOK, Counters
    <3> QED
      BY <3>1, <3>4 DEF LossInv, LossExact
  <2>4. ASSUME NEW seq \in Seqs, Accept(seq) PROVE LossInv'
    <3> DEFINE b == Base(seq)
               c == SlidBase(seq)
               n == base_seq'
               a == first'
    <3>1. /\ seq >= b /\ published' = published \cup {seq} /\ initialized' = TRUE
          /\ counters'.lost_confirmed = counters.lost_confirmed + Lost(seq)
          /\ a = IF initialized THEN first ELSE seq
      BY <2>4 DEF Accept, Slid, TypeOK, Counters
    <3>2. b \in Nat /\ c \in Nat /\ b <= c /\ c <= seq /\ seq \in Nat /\ published \in SUBSET Nat
      BY <3>1, BaseFacts, SlideFacts DEF WindowInv
    <3>3. n \in c .. Width - 1 /\ \A t \in c .. n - 1 : t \in published'
      BY <2>4, AcceptFacts
    <3>4. Lost(seq) = Cardinality((b .. c - 1) \ published) /\ Lost(seq) \in Nat
      BY <3>1, LostFacts
    <3>5. a \in Nat /\ a <= b /\ counters.lost_confirmed = Cardinality((a .. b - 1) \ published)
      <4>1. CASE initialized
        BY <4>1, <3>1 DEF Base, LossInv, LossExact, TypeOK
      <4>2. CASE ~initialized
        <5>1. a = seq /\ b = seq /\ counters.lost_confirmed = 0
          BY <4>2, <3>1 DEF Base, LossInv
        <5>2. (a .. b - 1) \ published = {}
          BY <5>1, <3>2
        <5> QED
          BY <5>1, <5>2, <3>2, FS_EmptySet
      <4> QED
        BY <4>1, <4>2
    <3> HIDE DEF a, b, c, n
    <3>6. n \in Nat /\ c <= n /\ a <= n
      BY <3>2, <3>3, <3>5
    <3>7. Cardinality((a .. n - 1) \ published') = counters.lost_confirmed + Lost(seq)
      <4>1. \A t \in c .. n - 1 : t \in published \cup {seq}
        BY <3>1, <3>3
      <4>2. Gaps(published \cup {seq}, a, n) = Gaps(published, a, b) + Gaps(published, b, c)
        BY <3>2, <3>5, <3>6, <4>1, GapsAdd
      <4> QED
        BY <3>1, <3>4, <3>5, <4>2 DEF Gaps
    <3>8. initialized' = TRUE /\ first' <= base_seq'
          /\ counters'.lost_confirmed = Cardinality((first' .. base_seq' - 1) \ published')
      BY <3>1, <3>6, <3>7 DEF a, n
    <3> QED
      BY <3>8 DEF LossInv, LossExact
  <2> QED
    BY <2>1, <2>2, <2>3, <2>4 DEF Next, Observe
<1>3. LossInv => LossExact
  BY DEF LossInv
<1> QED
  BY <1>1, <1>2, <1>3, TypeCorrect, WindowInvariant, PTL DEF Spec
=============================================================================
