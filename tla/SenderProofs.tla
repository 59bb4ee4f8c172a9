---------------------------- MODULE SenderProofs -----------------------------
(***************************************************************************)
(* Proofs about the sender (modules SenderLoop and Fanout), for any number *)
(* of destinations, any of which may fail or hang, any queue size, batch   *)
(* size, ring size and impairment limit: the inductive invariant of the    *)
(* loop together with the fan-out, and that it implies the properties.     *)
(* What has to be known of sums, concatenations and cardinalities is a     *)
(* hypothesis of the lemmas (DataFacts); module SenderTheorems proves it   *)
(* and states the theorems.                                                *)
(***************************************************************************)
EXTENDS SenderLoop, FanoutProofs

----------------------------------------------------------------------------
(* What the lemmas take for granted of data *)

JoinFacts ==
  /\ Joined(<<>>) = <<>>
  /\ \A ss \in Seq(Seq(Nat)) : Joined(ss) \in Seq(Nat)
  /\ \A ss \in Seq(Seq(Nat)), t \in Seq(Nat) : Joined(Append(ss, t)) = Joined(ss) \o t

CountFacts ==
  /\ Cardinality({}) = 0
  /\ \A a, b \in Int : /\ IsFiniteSet(a .. b)
                      /\ Cardinality(a .. b) = IF a > b THEN 0 ELSE b - a + 1
  /\ \A S : IsFiniteSet(S) => Cardinality(S) \in Nat
  /\ \A S : \A T \in SUBSET S : IsFiniteSet(S) =>
       /\ IsFiniteSet(T) /\ Cardinality(T) =< Cardinality(S)
       /\ Cardinality(S) = Cardinality(T) => S = T
  /\ \A S, T : IsFiniteSet(S) /\ IsFiniteSet(T) /\ S \cap T = {} =>
       Cardinality(S \cup T) = Cardinality(S) + Cardinality(T)
  /\ \A S, x : IsFiniteSet(S) /\ x \notin S => Cardinality(S \cup {x}) = Cardinality(S) + 1
  /\ \A s \in Seq(Nat) : IsFiniteSet(Range(s)) /\ Cardinality(Range(s)) =< Len(s)

DataFacts == SumFacts /\ JoinFacts /\ CountFacts

\* One set of facts at a time: sums, ...
LEMMA Sums ==
  ASSUME DataFacts
  PROVE  SumFacts
BY DEF DataFacts

\* ... concatenations, ...
LEMMA Joins ==
  ASSUME DataFacts
  PROVE  /\ Joined(<<>>) = <<>>
         /\ \A ss \in Seq(Seq(Nat)) : Joined(ss) \in Seq(Nat)
         /\ \A ss \in Seq(Seq(Nat)), t \in Seq(Nat) : Joined(Append(ss, t)) = Joined(ss) \o t
BY Zenon DEF DataFacts, JoinFacts

\* ... no elements, ...
LEMMA CountNone ==
  ASSUME DataFacts
  PROVE  Cardinality({}) = 0
BY DEF DataFacts, CountFacts

\* ... the numbers from a to b, ...
LEMMA CountInterval ==
  ASSUME DataFacts, NEW a \in Int, NEW b \in Int
  PROVE  IsFiniteSet(a .. b) /\ Cardinality(a .. b) = IF a > b THEN 0 ELSE b - a + 1
BY Zenon DEF DataFacts, CountFacts

\* ... how many there are, ...
LEMMA CountNat ==
  ASSUME DataFacts, NEW S, IsFiniteSet(S)
  PROVE  Cardinality(S) \in Nat
BY Zenon DEF DataFacts, CountFacts

\* ... some of them, ...
LEMMA CountSubset ==
  ASSUME DataFacts, NEW S, IsFiniteSet(S), NEW T \in SUBSET S
  PROVE  /\ IsFiniteSet(T) /\ Cardinality(T) =< Cardinality(S)
         /\ Cardinality(S) = Cardinality(T) => S = T
BY Zenon DEF DataFacts, CountFacts

\* ... those of two sets, ...
LEMMA CountUnion ==
  ASSUME DataFacts, NEW S, NEW T, IsFiniteSet(S), IsFiniteSet(T), S \cap T = {}
  PROVE  Cardinality(S \cup T) = Cardinality(S) + Cardinality(T)
BY Zenon DEF DataFacts, CountFacts

\* ... one more, ...
LEMMA CountAdd ==
  ASSUME DataFacts, NEW S, NEW x, IsFiniteSet(S), x \notin S
  PROVE  Cardinality(S \cup {x}) = Cardinality(S) + 1
BY Zenon DEF DataFacts, CountFacts

\* ... and the elements of a sequence.
LEMMA CountRange ==
  ASSUME DataFacts, NEW s \in Seq(Nat)
  PROVE  IsFiniteSet(Range(s)) /\ Cardinality(Range(s)) =< Len(s)
BY Zenon DEF DataFacts, CountFacts

----------------------------------------------------------------------------
(* Sequences *)

\* A sequence is a function on its positions.
LEMMA Positions ==
  ASSUME NEW S, NEW s \in Seq(S)
  PROVE  /\ Len(s) \in Nat /\ s \in [1 .. Len(s) -> S] /\ DOMAIN s = 1 .. Len(s)
         /\ \A i \in 1 .. Len(s) : s[i] \in S
OBVIOUS

\* Sequences with the same elements are the same.
LEMMA SameSequence ==
  ASSUME NEW s \in Seq(Nat), NEW t \in Seq(Nat), Len(s) = Len(t), \A i \in 1 .. Len(s) : s[i] = t[i]
  PROVE  s = t
OBVIOUS

\* The elements of a part of a sequence.
LEMMA PartOf ==
  ASSUME NEW s \in Seq(Nat), NEW m \in 1 .. Len(s) + 1, NEW n \in m - 1 .. Len(s)
  PROVE  /\ SubSeq(s, m, n) \in Seq(Nat) /\ Len(SubSeq(s, m, n)) = n - m + 1
         /\ \A i \in 1 .. n - m + 1 : SubSeq(s, m, n)[i] = s[m + i - 1]
<1>1. \A i \in m .. n : s[i] \in Nat
  OBVIOUS
<1> QED BY <1>1

\* Adjacent parts of a sequence are a part of it.
LEMMA Adjacent ==
  ASSUME NEW s \in Seq(Nat), NEW m \in 1 .. Len(s) + 1, NEW k \in m - 1 .. Len(s),
         NEW n \in k .. Len(s)
  PROVE  SubSeq(s, m, k) \o SubSeq(s, k + 1, n) = SubSeq(s, m, n)
<1>0. PICK l \in Nat : l = Len(s)
  OBVIOUS
<1>1. PICK a \in Seq(Nat) : /\ a = SubSeq(s, m, k) /\ Len(a) = k - m + 1
                            /\ \A i \in 1 .. k - m + 1 : a[i] = s[m + i - 1]
  BY PartOf, Zenon
<1>2. PICK b \in Seq(Nat) : /\ b = SubSeq(s, k + 1, n) /\ Len(b) = n - k
                            /\ \A i \in 1 .. n - k : b[i] = s[k + i]
  <2>1. k + 1 \in 1 .. Len(s) + 1 /\ n \in (k + 1) - 1 .. Len(s)
    BY <1>0
  <2>2. /\ SubSeq(s, k + 1, n) \in Seq(Nat) /\ Len(SubSeq(s, k + 1, n)) = n - (k + 1) + 1
        /\ \A i \in 1 .. n - (k + 1) + 1 : SubSeq(s, k + 1, n)[i] = s[(k + 1) + i - 1]
    BY <2>1, PartOf, Zenon
  <2>3. n - (k + 1) + 1 = n - k
    BY <1>0
  <2>4. ASSUME NEW i \in 1 .. n - k
        PROVE  SubSeq(s, k + 1, n)[i] = s[k + i]
    <3>1. (k + 1) + i - 1 = k + i
      BY <1>0
    <3> QED BY <2>2, <2>3, <3>1, Zenon
  <2> QED BY <2>2, <2>3, <2>4, Zenon
<1>3. PICK c \in Seq(Nat) : /\ c = SubSeq(s, m, n) /\ Len(c) = n - m + 1
                            /\ \A i \in 1 .. n - m + 1 : c[i] = s[m + i - 1]
  <2>1. n \in m - 1 .. Len(s)
    BY <1>0
  <2> QED BY <2>1, PartOf, Zenon
<1>4. /\ a \o b \in Seq(Nat) /\ Len(a \o b) = Len(a) + Len(b)
      /\ \A i \in 1 .. Len(a) + Len(b) : (a \o b)[i] = IF i =< Len(a) THEN a[i] ELSE b[i - Len(a)]
  OBVIOUS
<1>5. Len(a \o b) = n - m + 1
  BY <1>0, <1>1, <1>2, <1>4
<1>6. ASSUME NEW i \in 1 .. n - m + 1
      PROVE  (a \o b)[i] = c[i]
  <2>1. CASE i =< k - m + 1
    BY <1>0, <1>1, <1>2, <1>3, <1>4, <1>6, <2>1
  <2>2. CASE i > k - m + 1
    <3>0. PICK j : j = i - (k - m + 1)
      OBVIOUS
    <3>1. j \in 1 .. n - k /\ k + j = m + i - 1
      BY <1>0, <1>6, <2>2, <3>0
    <3>2. (a \o b)[i] = b[j]
      <4>1. i \in 1 .. Len(a) + Len(b) /\ ~ (i =< Len(a)) /\ i - Len(a) = j
        BY <1>0, <1>1, <1>2, <1>6, <2>2, <3>0
      <4> QED BY <1>4, <4>1, Zenon
    <3> QED BY <1>2, <1>3, <1>6, <3>1, <3>2, Zenon
  <2>3. i \in Int /\ k \in Int /\ m \in Int
    BY <1>0
  <2>4. i =< k - m + 1 \/ i > k - m + 1
    BY <2>3
  <2> QED BY <2>1, <2>2, <2>4, Zenon
<1> QED BY <1>1, <1>2, <1>3, <1>4, <1>5, <1>6, SameSequence, Zenon

\* A sequence holds the elements of its parts.
LEMMA RangeConcat ==
  ASSUME NEW s \in Seq(Nat), NEW t \in Seq(Nat)
  PROVE  Range(s \o t) = Range(s) \cup Range(t)
<1>0. PICK m \in Nat, n \in Nat : m = Len(s) /\ n = Len(t)
  OBVIOUS
<1>1. PICK u \in Seq(Nat) : /\ u = s \o t /\ Len(u) = m + n
                            /\ \A i \in 1 .. m + n : u[i] = IF i =< m THEN s[i] ELSE t[i - m]
  <2>1. /\ s \o t \in Seq(Nat) /\ Len(s \o t) = Len(s) + Len(t)
        /\ \A i \in 1 .. Len(s) + Len(t) :
             (s \o t)[i] = IF i =< Len(s) THEN s[i] ELSE t[i - Len(s)]
    OBVIOUS
  <2> QED BY <1>0, <2>1, Zenon
<1>2. DOMAIN s = 1 .. m /\ DOMAIN t = 1 .. n /\ DOMAIN u = 1 .. m + n
  BY <1>0, <1>1
<1>3. ASSUME NEW x \in Range(u)
      PROVE  x \in Range(s) \/ x \in Range(t)
  <2>1. PICK i \in 1 .. m + n : x = u[i]
    BY <1>2, <1>3, Zenon DEF Range
  <2>2. CASE i =< m
    BY <1>1, <1>2, <2>1, <2>2, SMTT(30) DEF Range
  <2>3. CASE ~ (i =< m)
    <3>1. i - m \in 1 .. n /\ x = t[i - m]
      BY <1>1, <2>1, <2>3
    <3> QED BY <1>2, <3>1, Zenon DEF Range
  <2> QED BY <2>2, <2>3
<1>4. ASSUME NEW x \in Range(s)
      PROVE  x \in Range(u)
  <2>1. PICK i \in 1 .. m : x = s[i]
    BY <1>2, <1>4, Zenon DEF Range
  <2>2. m \in Nat /\ n \in Nat /\ i \in 1 .. m
    BY <1>0, <2>1
  <2>3. i \in 1 .. m + n /\ i =< m
    BY <2>2
  <2>4. u[i] = x
    BY <1>1, <2>1, <2>3, Zenon
  <2> QED BY <1>2, <2>3, <2>4, Zenon DEF Range
<1>5. ASSUME NEW x \in Range(t)
      PROVE  x \in Range(u)
  <2>1. PICK i \in 1 .. n : x = t[i]
    BY <1>2, <1>5, Zenon DEF Range
  <2>2. m + i \in 1 .. m + n /\ u[m + i] = x
    BY <1>1, <2>1
  <2> QED BY <1>2, <2>2, Zenon DEF Range
<1> QED BY <1>1, <1>3, <1>4, <1>5

\* Length, elements and grouping of a concatenation.
LEMMA Concats ==
  ASSUME NEW s \in Seq(Nat), NEW t \in Seq(Nat)
  PROVE  /\ s \o t \in Seq(Nat) /\ Len(s \o t) = Len(s) + Len(t)
         /\ Range(s \o t) = Range(s) \cup Range(t)
         /\ \A u \in Seq(Nat) : (s \o t) \o u = s \o (t \o u)
<1>1. s \o t \in Seq(Nat) /\ Len(s \o t) = Len(s) + Len(t)
  OBVIOUS
<1>2. ASSUME NEW u \in Seq(Nat)
      PROVE  (s \o t) \o u = s \o (t \o u)
  BY SMT
<1> QED BY <1>1, <1>2, RangeConcat, Zenon

\* The order in which sequences are joined does not matter.
LEMMA Associative == \A s, t, u \in Seq(Nat) : (s \o t) \o u = s \o (t \o u)
BY Concats, Zenon

\* Moving the first of the elements o to the end of b keeps the order of all.
LEMMA MoveOne ==
  ASSUME NEW f \in Seq(Nat), NEW b \in Seq(Nat), NEW o \in Seq(Nat), o # <<>>
  PROVE  /\ Append(b, Head(o)) \in Seq(Nat) /\ Tail(o) \in Seq(Nat)
         /\ (f \o Append(b, Head(o))) \o Tail(o) = (f \o b) \o o
<1>1. Head(o) \in Nat /\ Tail(o) \in Seq(Nat)
  OBVIOUS
<1>2. Append(b, Head(o)) \in Seq(Nat) /\ Append(b, Head(o)) = b \o <<Head(o)>>
  BY <1>1
<1>3. <<Head(o)>> \in Seq(Nat) /\ <<Head(o)>> \o Tail(o) = o
  BY <1>1
<1>4. f \o (b \o <<Head(o)>>) = (f \o b) \o <<Head(o)>>
  BY <1>3
<1>5. ((f \o b) \o <<Head(o)>>) \o Tail(o) = (f \o b) \o (<<Head(o)>> \o Tail(o))
  <2>1. f \o b \in Seq(Nat)
    OBVIOUS
  <2>2. \A s, t, u \in Seq(Nat) : (s \o t) \o u = s \o (t \o u)
    BY Associative, Zenon
  <2> QED BY <1>1, <1>3, <2>1, <2>2, ZenonT(40)
<1> QED BY <1>1, <1>2, <1>3, <1>4, <1>5, Zenon

\* A sequence is its first n elements and the others after them.
LEMMA SplitAt ==
  ASSUME NEW f \in Seq(Nat), NEW p \in Seq(Nat), NEW n \in 0 .. Len(p)
  PROVE  /\ SubSeq(p, 1, n) \in Seq(Nat) /\ SubSeq(p, n + 1, Len(p)) \in Seq(Nat)
         /\ SubSeq(p, 1, n) \o SubSeq(p, n + 1, Len(p)) = p
         /\ (f \o SubSeq(p, 1, n)) \o SubSeq(p, n + 1, Len(p)) = (f \o <<>>) \o p
<1> DEFINE due == SubSeq(p, 1, n)
           rest == SubSeq(p, n + 1, Len(p))
<1>1. Len(p) \in Nat /\ DOMAIN p = 1 .. Len(p)
  OBVIOUS
<1>2. due \in Seq(Nat)
  BY <1>1, PartOf
<1>3. rest \in Seq(Nat)
  <2>1. n + 1 \in 1 .. Len(p) + 1 /\ Len(p) \in (n + 1) - 1 .. Len(p)
    BY <1>1
  <2> QED BY <2>1, PartOf, Zenon
<1>4. due \o rest = p
  <2>1. 1 \in 1 .. Len(p) + 1 /\ n \in 1 - 1 .. Len(p)
        /\ Len(p) \in n .. Len(p)
    BY <1>1
  <2>2. due \o rest = SubSeq(p, 1, Len(p))
    BY <2>1, Adjacent, Zenon
  <2>3. SubSeq(p, 1, Len(p)) = p
    OBVIOUS
  <2> QED BY <2>2, <2>3, Zenon
<1> HIDE DEF due, rest
<1>5. f \o <<>> = f
  OBVIOUS
<1>6. (f \o due) \o rest = f \o (due \o rest)
  <2>1. \A s, t, u \in Seq(Nat) : (s \o t) \o u = s \o (t \o u)
    BY Associative, Zenon
  <2> QED BY <1>2, <1>3, <2>1, ZenonT(40)
<1>7. /\ due \in Seq(Nat) /\ rest \in Seq(Nat) /\ due \o rest = p
      /\ (f \o due) \o rest = (f \o <<>>) \o p
  BY <1>2, <1>3, <1>4, <1>5, <1>6
<1> QED BY <1>7, Zenon DEF due, rest

\* An element put between others, or after them.
LEMMA Inserted ==
  ASSUME NEW a \in Seq(Nat), NEW b \in Seq(Nat), NEW r \in Nat
  PROVE  /\ (a \o <<r>>) \o b \in Seq(Nat)
         /\ Len((a \o <<r>>) \o b) = Len(a \o b) + 1
         /\ Range((a \o <<r>>) \o b) = Range(a \o b) \cup {r}
<1>1. <<r>> \in Seq(Nat) /\ Len(<<r>>) = 1 /\ Range(<<r>>) = {r}
  <2>1. DOMAIN <<r>> = {1} /\ <<r>>[1] = r
    OBVIOUS
  <2>2. Range(<<r>>) = {r}
    BY <2>1, Zenon DEF Range
  <2> QED BY <2>2
<1>2. a \o <<r>> \in Seq(Nat) /\ Len(a \o <<r>>) = Len(a) + 1
      /\ Range(a \o <<r>>) = Range(a) \cup {r}
  <2>1. PICK e \in Seq(Nat) : e = <<r>>
    BY <1>1, Zenon
  <2>2. a \o e \in Seq(Nat) /\ Len(a \o e) = Len(a) + Len(e)
        /\ Range(a \o e) = Range(a) \cup Range(e)
    BY Concats, Zenon
  <2> QED BY <1>1, <2>1, <2>2, Zenon
<1>3. (a \o <<r>>) \o b \in Seq(Nat) /\ Len((a \o <<r>>) \o b) = (Len(a) + 1) + Len(b)
      /\ Range((a \o <<r>>) \o b) = (Range(a) \cup {r}) \cup Range(b)
  <2>1. \A s \in Seq(Nat) : /\ s \o b \in Seq(Nat) /\ Len(s \o b) = Len(s) + Len(b)
                            /\ Range(s \o b) = Range(s) \cup Range(b)
    BY Concats
  <2> QED BY <1>2, <2>1, Zenon
<1>4. Len(a \o b) = Len(a) + Len(b) /\ Range(a \o b) = Range(a) \cup Range(b)
  BY RangeConcat
<1>5. Len(a) \in Nat /\ Len(b) \in Nat
  OBVIOUS
<1> QED BY <1>3, <1>4, <1>5

\* A datagram queued between held-back ones that are due and others that fell due.
LEMMA Between ==
  ASSUME NEW x \in Seq(Nat), NEW d \in Seq(Nat), NEW r \in Nat, NEW u \in Seq(Nat), NEW v \in Seq(Nat)
  PROVE  /\ (d \o <<r>>) \o u \in Seq(Nat)
         /\ (x \o ((d \o <<r>>) \o u)) \o v = ((x \o d) \o <<r>>) \o (u \o v)
<1>1. \A s, t \in Seq(Nat) : s \o t \in Seq(Nat)
  BY Concats
<1>2. \A s, t, w \in Seq(Nat) : (s \o t) \o w = s \o (t \o w)
  BY Concats, Zenon
<1>3. PICK e \in Seq(Nat) : e = <<r>>
  <2>1. <<r>> \in Seq(Nat)
    OBVIOUS
  <2> QED BY <2>1, Zenon
<1>4. PICK de \in Seq(Nat) : de = d \o e
  BY <1>1, Zenon
<1>5. PICK deu \in Seq(Nat) : deu = de \o u
  BY <1>1, Zenon
<1>6. PICK xd \in Seq(Nat) : xd = x \o d
  BY <1>1, Zenon
<1>7. PICK xde \in Seq(Nat) : xde = xd \o e
  BY <1>1, Zenon
<1>8. x \o de = xde
  <2>1. \A w \in Seq(Nat) : (x \o d) \o w = x \o (d \o w)
    BY Associative, ZenonT(40)
  <2> QED BY <1>4, <1>6, <1>7, <2>1, Zenon
<1>9. x \o deu = xde \o u
  <2>1. \A w \in Seq(Nat) : (x \o de) \o w = x \o (de \o w)
    BY Associative, ZenonT(40)
  <2> QED BY <1>5, <1>8, <2>1, Zenon
<1>10. (x \o deu) \o v = xde \o (u \o v)
  <2>1. \A w \in Seq(Nat) : (xde \o u) \o w = xde \o (u \o w)
    BY Concats, Zenon
  <2> QED BY <1>9, <2>1, Zenon
<1> QED BY <1>3, <1>4, <1>5, <1>6, <1>7, <1>10, Zenon

----------------------------------------------------------------------------
(* The loop and the fan-out *)

\* Without a fan-out there are no workers.
Alone ==
  /\ mpc \in {"run", "ok", "closed"} /\ at = 1
  /\ \A d \in Dest : wpc[d] = "exited" /\ sent[d] = <<>>

FanoutInv ==
  /\ FanoutTypeOK
  /\ opts.fan => FanInv
  /\ ~ opts.fan => Alone

\* What the loop does to the batches and the main thread: it moves on, ends, gives
\* up, or hands over one batch.
Moves ==
  /\ batches' = batches
  /\ \/ mpc' = mpc
     \/ mpc = "run" /\ opts.fan /\ mpc' \in {"mark", "destroy"}
     \/ mpc = "run" /\ ~ opts.fan /\ mpc' \in {"ok", "closed"}
HandsOver(members) ==
  /\ mpc = "run" /\ mpc' = IF opts.fan THEN "enqueue" ELSE "run"
  /\ \E b \in Batch : b.members = members /\ batches' = Append(batches, b)

\* The fan-out is fed.
LEMMA LoopFeeds ==
  ASSUME opts.fan, UNCHANGED <<workerVars, opts>>,
         Moves \/ \E members \in Seq(Nat) : HandsOver(members)
  PROVE  Fed
<1>1. UNCHANGED <<at, stateVars, wpc, work, sent>>
  BY DEF workerVars
<1>2. Goes \/ Gives
  BY DEF Moves, HandsOver, Goes, Gives
<1> QED BY <1>1, <1>2 DEF Fed

\* Its invariant does not depend on the loop.
LEMMA LoopKeepsFanout ==
  ASSUME FanoutInv, UNCHANGED <<workerVars, opts>>,
         Moves \/ \E members \in Seq(Nat) : HandsOver(members)
  PROVE  FanoutInv'
<1>1. CASE opts.fan
  <2>1. FanInv' /\ opts'.fan
    BY <1>1, LoopFeeds, LoopKeepsFan DEF FanoutInv
  <2> QED BY <2>1 DEF FanoutInv, FanInv
<1>2. CASE ~ opts.fan
  <2>0. UNCHANGED <<at, queue, bytes, done, failed, rejected, wpc, work, sent, opts>> /\ FanoutTypeOK /\ Alone
    BY <1>2 DEF workerVars, stateVars, FanoutInv
  <2>1. Alone'
    BY <1>2, <2>0 DEF Alone, Moves, HandsOver
  <2>2. batches' \in Seq(Batch)
    <3>1. batches \in Seq(Batch)
      BY <2>0 DEF FanoutTypeOK, Batch
    <3>2. CASE Moves
      BY <3>1, <3>2, Zenon DEF Moves
    <3>3. CASE \E members \in Seq(Nat) : HandsOver(members)
      <4>1. PICK b \in Batch : batches' = Append(batches, b)
        BY <3>3, Zenon DEF HandsOver
      <4> QED BY <3>1, <4>1
    <3> QED BY <3>2, <3>3
  <2>3. mpc' \in MainPlaces
    BY <2>1 DEF Alone, MainPlaces
  <2>4. FanoutTypeOK'
    BY <2>0, <2>2, <2>3 DEF FanoutTypeOK, Batch
  <2> QED BY <1>2, <2>0, <2>1, <2>4 DEF FanoutInv
<1> QED BY <1>1, <1>2

\* Without a fan-out there is nothing to do here; with one, its steps keep the
\* invariant.
LEMMA FanoutKeeps ==
  ASSUME SumFacts, FanoutInv, FanoutStep
  PROVE  FanoutInv' /\ opts.fan /\ FanInv /\ FanStep
<1>1. FanStep /\ opts' = opts
  BY DEF FanoutStep, FanStep, loopVars
<1>2. opts.fan
  <2>1. SUFFICES ASSUME Alone PROVE FALSE
    BY DEF FanoutInv
  <2>2. ~ Enqueue /\ ~ Completing
    BY <2>1, Zenon DEF Alone, Enqueue, EnqueueFailed, EnqueueFull, EnqueueFits,
                Completing, MarkDone, Join, Destroy, Reap
  <2>3. ASSUME NEW d \in Dest
        PROVE  ~ (WorkerStep(d) \/ SpuriousWakeup(d) \/ Transfer(d))
    BY <2>1, Zenon DEF Alone, WorkerStep, Sleep, Exit, Take, SpuriousWakeup, Transfer, SendOk, SendFails
  <2> QED BY <1>1, <2>2, <2>3 DEF FanStep
<1>3. FanInv /\ FanInv'
  BY <1>1, <1>2, FanoutStepKeeps DEF FanoutInv
<1> QED BY <1>1, <1>2, <1>3 DEF FanoutInv, FanInv

----------------------------------------------------------------------------
(* The inductive invariant of the loop *)

LoopPlaces == {"top", "stop", "read", "emit", "overflow", "idle", "final", "wait"}

LoopTypeOK ==
  /\ opts \in Options
  /\ write_index \in Nat /\ read_index \in Nat
  /\ skipped \in SUBSET Nat /\ dropped \in SUBSET Nat /\ echoed \in SUBSET Nat
  /\ batch \in Seq(Nat) /\ pending \in Seq(Nat) /\ outgoing \in Seq(Nat)
  /\ lpc \in LoopPlaces

Empties ==
  /\ ~ opts.impaired => pending = <<>> /\ dropped = {}
  /\ lpc \in {"top", "stop", "read"} => outgoing = <<>>
  /\ lpc = "final" => pending = <<>>
  /\ lpc = "wait" => batch = <<>> /\ outgoing = <<>> /\ pending = <<>>
  /\ mpc \in {"mark", "join", "ok", "bad"} => lpc = "wait"

Counted ==
  opts.count # 0 => /\ Taken =< opts.count
                    /\ lpc = "read" /\ ~ plain_fast_path => Taken < opts.count

Echoing ==
  /\ echoed \subseteq Range(Flushed)
  /\ mpc = "ok" => ~ Awaited

LoopInv == LoopTypeOK /\ read_index =< write_index /\ Empties /\ Counted /\ Echoing /\ OnePlace

SenderInv == FanoutInv /\ LoopInv

----------------------------------------------------------------------------
(* The datagrams inside the loop *)

Inside == Flushed \o batch \o outgoing \o pending

\* What left the loop is a sequence of frames; ...
LEMMA FlushedType ==
  ASSUME DataFacts, FanoutTypeOK
  PROVE  Flushed \in Seq(Nat)
<1>1. batches \in Seq(Batch) /\ Len(batches) \in Nat /\ DOMAIN batches = 1 .. Len(batches)
  BY DEF FanoutTypeOK, Batch
<1>2. \A n \in 1 .. Len(batches) : batches[n].members \in Seq(Nat)
  <2> TAKE n \in 1 .. Len(batches)
  <2>1. batches[n] \in Batch
    BY <1>1
  <2> QED BY <2>1 DEF Batch
<1>3. [n \in DOMAIN batches |-> batches[n].members] \in Seq(Seq(Nat))
  BY <1>1, <1>2
<1> QED BY <1>3, Joins DEF Flushed

\* ... a batch handed over is added to it.
LEMMA FlushedGrows ==
  ASSUME DataFacts, FanoutTypeOK, NEW b \in Batch, batches' = Append(batches, b)
  PROVE  Flushed' = Flushed \o b.members
<1> DEFINE ss == [n \in DOMAIN batches |-> batches[n].members]
           tt == [n \in DOMAIN batches' |-> batches'[n].members]
<1>1. batches \in Seq(Batch) /\ Len(batches) \in Nat /\ DOMAIN batches = 1 .. Len(batches)
  BY DEF FanoutTypeOK, Batch
<1>2. \A n \in 1 .. Len(batches) : batches[n].members \in Seq(Nat)
  <2> TAKE n \in 1 .. Len(batches)
  <2>1. batches[n] \in Batch
    BY <1>1
  <2> QED BY <2>1 DEF Batch
<1>3. ss \in Seq(Seq(Nat)) /\ Len(ss) = Len(batches) /\ ss \in [1 .. Len(batches) -> Seq(Nat)]
  BY <1>1, <1>2
<1>4. b.members \in Seq(Nat)
  BY DEF Batch
<1>5. /\ DOMAIN batches' = 1 .. Len(batches) + 1
      /\ batches'[Len(batches) + 1] = b
      /\ \A n \in 1 .. Len(batches) : batches'[n] = batches[n]
  BY <1>1
<1>6. tt = Append(ss, b.members)
  <2>1. tt \in [1 .. Len(batches) + 1 -> Seq(Nat)]
    <3>1. ASSUME NEW n \in 1 .. Len(batches) + 1
          PROVE  batches'[n].members \in Seq(Nat)
      <4>1. CASE n \in 1 .. Len(batches)
        BY <1>2, <1>5, <4>1
      <4>2. CASE n = Len(batches) + 1
        BY <1>4, <1>5, <4>2
      <4> QED BY <1>1, <4>1, <4>2
    <3> QED BY <1>5, <3>1
  <2>2. tt \in Seq(Seq(Nat)) /\ Len(tt) = Len(batches) + 1
    BY <1>1, <2>1
  <2>3. \A n \in 1 .. Len(batches) : tt[n] = ss[n]
    BY <1>1, <1>5
  <2>4. tt[Len(batches) + 1] = b.members
    BY <1>1, <1>5
  <2> DEFINE u == Append(ss, b.members)
  <2>5. /\ u \in Seq(Seq(Nat)) /\ Len(u) = Len(batches) + 1
        /\ u[Len(batches) + 1] = b.members
        /\ \A n \in 1 .. Len(batches) : u[n] = ss[n]
    BY <1>3, <1>4
  <2> HIDE DEF tt, u, ss
  <2>6. \A n \in 1 .. Len(batches) + 1 : tt[n] = u[n]
    <3> TAKE n \in 1 .. Len(batches) + 1
    <3>1. CASE n \in 1 .. Len(batches)
      BY <2>3, <2>5, <3>1
    <3>2. CASE n = Len(batches) + 1
      BY <2>4, <2>5, <3>2
    <3> QED BY <1>1, <3>1, <3>2
  <2>7. tt = u
    <3>1. \A S : \A p, q \in Seq(S) :
            Len(p) = Len(q) /\ (\A i \in 1 .. Len(p) : p[i] = q[i]) => p = q
      OBVIOUS
    <3> QED BY <2>2, <2>5, <2>6, <3>1, Zenon
  <2> QED BY <2>7 DEF u
<1>7. Flushed = Joined(ss) /\ Flushed' = Joined(tt)
  BY DEF Flushed
<1> HIDE DEF ss, tt
<1> QED BY <1>3, <1>4, <1>6, <1>7, Joins, Zenon

\* flush_batch: the datagrams left the loop or are still in the batch; the sender
\* goes on, or has given up and stays where it is.
LEMMA FlushIs ==
  ASSUME DataFacts, FanoutTypeOK, mpc = "run", NEW datagrams \in Seq(Nat), NEW next,
         FlushBatch(datagrams, next)
  PROVE  /\ Moves \/ HandsOver(datagrams)
         /\ batch' \in Seq(Nat) /\ Flushed' \in Seq(Nat)
         /\ Flushed' \o batch' = Flushed \o datagrams
         /\ Range(Flushed) \subseteq Range(Flushed')
         /\ mpc' \in {"run", "enqueue", "closed"}
         /\ \/ lpc' = next /\ batch' = <<>>
            \/ lpc' = lpc
<1>0. Flushed \in Seq(Nat) /\ <<>> \in Seq(Nat)
  BY FlushedType
<1>1. CASE datagrams = <<>> /\ batch' = <<>> /\ lpc' = next /\ UNCHANGED <<batches, mpc>>
  <2>1. Moves /\ Flushed' = Flushed
    BY <1>1 DEF Moves, Flushed
  <2> QED BY <1>0, <1>1, <2>1
<1>2. CASE /\ datagrams # <<>>
           /\ batches' = Append(batches,
                [frames |-> Len(datagrams), members |-> datagrams,
                 bytes |-> Tally([i \in DOMAIN datagrams |-> SizeOf(datagrams[i])])])
           /\ mpc' = IF opts.fan THEN "enqueue" ELSE "run"
           /\ batch' = <<>> /\ lpc' = next
  <2> DEFINE size == Tally([i \in DOMAIN datagrams |-> SizeOf(datagrams[i])])
             b == [frames |-> Len(datagrams), members |-> datagrams, bytes |-> size]
  <2>1. Len(datagrams) \in Nat \ {0} /\ DOMAIN datagrams = 1 .. Len(datagrams)
    BY <1>2
  <2>2. size \in Nat
    <3>1. \A i \in DOMAIN datagrams : SizeOf(datagrams[i]) \in Nat
      BY DEF SizeOf
    <3>2. [i \in DOMAIN datagrams |-> SizeOf(datagrams[i])] \in [1 .. Len(datagrams) -> Nat]
      BY <2>1, <3>1
    <3> QED BY <2>1, <3>2, Sums, TallyNat, Zenon
  <2>3. batches' = Append(batches, b)
    BY <1>2
  <2> HIDE DEF size
  <2>4. b \in Batch /\ b.members = datagrams
    BY <2>1, <2>2 DEF Batch
  <2> HIDE DEF b
  <2>5. HandsOver(datagrams)
    BY <1>2, <2>3, <2>4, Zenon DEF HandsOver
  <2>6. Flushed' = Flushed \o datagrams
    BY <2>3, <2>4, FlushedGrows, Zenon
  <2>7. Flushed' \in Seq(Nat) /\ Flushed' \o <<>> = Flushed \o datagrams
    BY <1>0, <2>6
  <2>8. Range(Flushed) \subseteq Range(Flushed')
    BY <1>0, <2>6, RangeConcat
  <2> QED BY <1>0, <1>2, <2>5, <2>7, <2>8, Zenon
<1>3. CASE datagrams # <<>> /\ ~ opts.fan /\ mpc' = "closed" /\ batch' = datagrams
           /\ UNCHANGED <<batches, lpc>>
  <2>1. Moves /\ Flushed' = Flushed
    BY <1>3 DEF Moves, Flushed
  <2> QED BY <1>0, <1>3, <2>1
<1> QED BY <1>1, <1>2, <1>3, Zenon DEF FlushBatch

\* What is inside the loop is a sequence of frames.
LEMMA InsideType ==
  ASSUME DataFacts, FanoutTypeOK, LoopTypeOK
  PROVE  Flushed \in Seq(Nat) /\ Inside \in Seq(Nat) /\ Len(Inside) \in Nat
<1>1. Flushed \in Seq(Nat) /\ batch \in Seq(Nat) /\ outgoing \in Seq(Nat) /\ pending \in Seq(Nat)
  BY FlushedType DEF LoopTypeOK
<1>2. Inside \in Seq(Nat)
  BY <1>1 DEF Inside
<1> QED BY <1>1, <1>2

\* The places of the frames, by sizes.
LEMMA Places ==
  ASSUME DataFacts, FanoutTypeOK, LoopTypeOK, OnePlace
  PROVE  /\ Range(Inside) \cup dropped \cup skipped = 0 .. read_index - 1
         /\ IsFiniteSet(dropped) /\ IsFiniteSet(skipped)
         /\ Cardinality(dropped) \in Nat /\ Cardinality(skipped) \in Nat
         /\ Len(Inside) + Cardinality(dropped) + Cardinality(skipped) = read_index
         /\ Taken = read_index - Cardinality(skipped)
<1>1. Range(Inside) \cup dropped \cup skipped = 0 .. read_index - 1
  BY DEF OnePlace, Inside
<1>2. IsFiniteSet(0 .. read_index - 1)
  BY CountInterval DEF LoopTypeOK
<1>3. dropped \in SUBSET (0 .. read_index - 1) /\ skipped \in SUBSET (0 .. read_index - 1)
  BY <1>1
<1>4. IsFiniteSet(dropped) /\ IsFiniteSet(skipped)
  BY <1>2, <1>3, CountSubset, Zenon
<1>5. Cardinality(dropped) \in Nat /\ Cardinality(skipped) \in Nat
  BY <1>4, CountNat
<1> QED BY <1>1, <1>4, <1>5 DEF OnePlace, Inside, Taken

\* A frame stays where it is, ...
LEMMA PlaceKept ==
  ASSUME OnePlace, Inside' = Inside, UNCHANGED <<dropped, skipped, read_index, opts>>
  PROVE  OnePlace'
BY DEF OnePlace, Inside

\* ... frames are skipped, ...
LEMMA PlaceSkips ==
  ASSUME DataFacts, FanoutTypeOK, LoopTypeOK, OnePlace, Inside' = Inside,
         UNCHANGED <<dropped, opts>>, Lapped, Resume
  PROVE  /\ OnePlace' /\ Taken' = Taken
         /\ read_index' \in Nat /\ read_index' =< write_index /\ skipped' \in SUBSET Nat
<1> DEFINE r == read_index
           q == write_index - Slots
<1>1. r \in Nat /\ q \in Nat /\ r < q /\ q =< write_index /\ read_index' = q
  BY SenderAssumption DEF LoopTypeOK, Lapped, Resume
<1>2. skipped' = skipped \cup (r .. q - 1)
  BY DEF Resume
<1>3. /\ Range(Inside) \cup dropped \cup skipped = 0 .. r - 1
      /\ IsFiniteSet(skipped) /\ Cardinality(dropped) \in Nat /\ Cardinality(skipped) \in Nat
      /\ Len(Inside) + Cardinality(dropped) + Cardinality(skipped) = r
      /\ Len(Inside) \in Nat
  BY Places, InsideType
<1> HIDE DEF r, q
<1>4. Range(Inside) \cup dropped \cup skipped' = 0 .. q - 1
  <2>1. (0 .. r - 1) \cup (r .. q - 1) = 0 .. q - 1
    BY <1>1
  <2> QED BY <1>2, <1>3, <2>1
<1>5. Cardinality(skipped') = Cardinality(skipped) + (q - r)
  <2>1. IsFiniteSet(r .. q - 1) /\ Cardinality(r .. q - 1) = q - r
    BY <1>1, CountInterval
  <2>2. skipped \cap (r .. q - 1) = {}
    BY <1>1, <1>3
  <2>3. Cardinality(skipped') = Cardinality(skipped) + Cardinality(r .. q - 1)
    BY <1>2, <1>3, <2>1, <2>2, CountUnion, Zenon
  <2> QED BY <1>1, <1>3, <2>1, <2>3
<1>6. Len(Inside) + Cardinality(dropped) + Cardinality(skipped') = q
  <2>1. \A a, b, c, x, y \in Nat : a + b + c = x => a + b + (c + (y - x)) = y
    OBVIOUS
  <2> QED BY <1>1, <1>3, <1>5, <2>1
<1>7. Taken' = Taken
  <2>1. \A c, x, y \in Nat : y - (c + (y - x)) = x - c
    OBVIOUS
  <2>2. q - Cardinality(skipped') = r - Cardinality(skipped)
    BY <1>1, <1>3, <1>5, <2>1
  <2> QED BY <1>1, <2>2 DEF Taken, r
<1>8. OnePlace'
  <2>1. Range(Inside') \cup dropped' \cup skipped' = 0 .. read_index' - 1
    BY <1>1, <1>4
  <2>2. Len(Inside') + Cardinality(dropped') + Cardinality(skipped') = read_index'
    BY <1>1, <1>6
  <2>3. opts'.impaired \/ \A i, j \in DOMAIN Inside' : i < j => Inside'[i] < Inside'[j]
    BY DEF OnePlace, Inside
  <2> QED BY <2>1, <2>2, <2>3 DEF OnePlace, Inside
<1>9. skipped' \in SUBSET Nat
  <2>1. r .. q - 1 \in SUBSET Nat
    BY <1>1
  <2> QED BY <1>2, <2>1, Zenon DEF LoopTypeOK
<1> QED BY <1>1, <1>7, <1>8, <1>9

\* ... a frame is dropped, ...
LEMMA PlaceDrops ==
  ASSUME DataFacts, FanoutTypeOK, LoopTypeOK, OnePlace, Inside' = Inside,
         UNCHANGED <<skipped, opts>>, read_index' = read_index + 1,
         dropped' = dropped \cup {read_index}
  PROVE  OnePlace'
<1> DEFINE r == read_index
<1>1. r \in Nat /\ read_index' = r + 1 /\ dropped' = dropped \cup {r}
  BY DEF LoopTypeOK
<1>2. /\ Range(Inside) \cup dropped \cup skipped = 0 .. r - 1
      /\ IsFiniteSet(dropped) /\ Cardinality(dropped) \in Nat /\ Cardinality(skipped) \in Nat
      /\ Len(Inside) + Cardinality(dropped) + Cardinality(skipped) = r
      /\ Len(Inside) \in Nat
  BY Places, InsideType
<1> HIDE DEF r
<1>3. Range(Inside) \cup dropped' \cup skipped = 0 .. (r + 1) - 1
  <2>1. (0 .. r - 1) \cup {r} = 0 .. (r + 1) - 1
    BY <1>1
  <2> QED BY <1>1, <1>2, <2>1
<1>4. Cardinality(dropped') = Cardinality(dropped) + 1
  <2>1. r \notin dropped
    BY <1>1, <1>2
  <2> QED BY <1>1, <1>2, <2>1, CountAdd
<1>5. Len(Inside) + Cardinality(dropped') + Cardinality(skipped) = r + 1
  <2>1. \A a, b, c, x \in Nat : a + b + c = x => a + (b + 1) + c = x + 1
    OBVIOUS
  <2> QED BY <1>1, <1>2, <1>4, <2>1
<1>6. Range(Inside') \cup dropped' \cup skipped' = 0 .. read_index' - 1
  BY <1>1, <1>3
<1>7. Len(Inside') + Cardinality(dropped') + Cardinality(skipped') = read_index'
  BY <1>1, <1>5
<1>8. opts'.impaired \/ \A i, j \in DOMAIN Inside' : i < j => Inside'[i] < Inside'[j]
  BY DEF OnePlace, Inside
<1> QED BY <1>6, <1>7, <1>8 DEF OnePlace, Inside

\* ... or a frame enters the loop, at the end unless the sender is impaired.
LEMMA PlaceEnters ==
  ASSUME DataFacts, FanoutTypeOK, LoopTypeOK, OnePlace,
         Len(Inside') = Len(Inside) + 1, Range(Inside') = Range(Inside) \cup {read_index},
         opts.impaired \/ Inside' = Inside \o <<read_index>>,
         UNCHANGED <<skipped, dropped, opts>>, read_index' = read_index + 1
  PROVE  OnePlace'
<1> DEFINE r == read_index
<1>1. r \in Nat /\ read_index' = r + 1 /\ Range(Inside') = Range(Inside) \cup {r}
      /\ (opts.impaired \/ Inside' = Inside \o <<r>>)
  BY Zenon DEF LoopTypeOK
<1>2. /\ Range(Inside) \cup dropped \cup skipped = 0 .. r - 1
      /\ Cardinality(dropped) \in Nat /\ Cardinality(skipped) \in Nat
      /\ Len(Inside) + Cardinality(dropped) + Cardinality(skipped) = r
      /\ Inside \in Seq(Nat) /\ Len(Inside) \in Nat /\ DOMAIN Inside = 1 .. Len(Inside)
  BY Places, InsideType
<1>a. opts.impaired \/ \A i, j \in DOMAIN Inside : i < j => Inside[i] < Inside[j]
  BY Zenon DEF OnePlace, Inside
<1> HIDE DEF r
<1>3. Range(Inside') \cup dropped \cup skipped = 0 .. (r + 1) - 1
  <2>1. (0 .. r - 1) \cup {r} = 0 .. (r + 1) - 1
    BY <1>1
  <2> QED BY <1>1, <1>2, <2>1
<1>4. Len(Inside') + Cardinality(dropped) + Cardinality(skipped) = r + 1
  <2>1. /\ Len(Inside) \in Nat /\ Cardinality(dropped) \in Nat /\ Cardinality(skipped) \in Nat
        /\ Len(Inside) + Cardinality(dropped) + Cardinality(skipped) = r
    BY <1>2
  <2>2. (Len(Inside) + 1) + Cardinality(dropped) + Cardinality(skipped) = r + 1
    BY <2>1
  <2> QED BY <2>2, Zenon
<1>5. Range(Inside') \cup dropped' \cup skipped' = 0 .. read_index' - 1
  BY <1>1, <1>3
<1>6. Len(Inside') + Cardinality(dropped') + Cardinality(skipped') = read_index'
  BY <1>1, <1>4
<1>7. ASSUME ~ opts.impaired, NEW i \in DOMAIN Inside', NEW j \in DOMAIN Inside', i < j
      PROVE  Inside'[i] < Inside'[j]
  <2>1. <<r>> \in Seq(Nat) /\ Len(<<r>>) = 1 /\ <<r>>[1] = r
    BY <1>1
  <2>2. /\ DOMAIN Inside' = 1 .. Len(Inside) + 1
        /\ \A k \in 1 .. Len(Inside) : Inside'[k] = Inside[k]
        /\ Inside'[Len(Inside) + 1] = r
    BY <1>1, <1>2, <1>7, <2>1
  <2>3. i \in 1 .. Len(Inside) /\ (j \in 1 .. Len(Inside) \/ j = Len(Inside) + 1)
    BY <1>2, <1>7, <2>2
  <2>4. CASE j \in 1 .. Len(Inside)
    BY <1>2, <1>7, <1>a, <2>2, <2>3, <2>4
  <2>5. CASE j = Len(Inside) + 1
    <3>1. Inside[i] \in Range(Inside)
      BY <1>2, <2>3 DEF Range
    <3>2. Inside[i] \in 0 .. r - 1
      BY <1>2, <3>1
    <3> QED BY <1>1, <2>2, <2>3, <2>5, <3>2
  <2> QED BY <2>3, <2>4, <2>5
<1>8. opts'.impaired \/ \A i, j \in DOMAIN Inside' : i < j => Inside'[i] < Inside'[j]
  BY <1>7
<1> QED BY <1>5, <1>6, <1>8, Zenon DEF OnePlace, Inside

----------------------------------------------------------------------------
(* Every step of the loop keeps the invariant *)

\* A step that leaves the fan-out and the echoes alone.
LEMMA VarsKept ==
  ASSUME SenderInv, UNCHANGED <<vars, opts, echoed>>
  PROVE  FanoutInv' /\ Flushed' = Flushed /\ mpc' = mpc /\ Echoing'
<1>1. batches' = batches /\ mpc' = mpc /\ UNCHANGED <<workerVars, opts, echoed>>
  BY DEF vars, workerVars
<1>2. Flushed' = Flushed
  BY <1>1 DEF Flushed
<1>3. FanoutInv'
  BY <1>1, LoopKeepsFanout DEF SenderInv, Moves
<1>4. Echoing'
  BY <1>1, <1>2 DEF SenderInv, LoopInv, Echoing, Awaited
<1> QED BY <1>1, <1>2, <1>3, <1>4

\* The types and sizes that the steps below rely on.
LEMMA LoopFacts ==
  ASSUME DataFacts, SenderInv
  PROVE  /\ FanoutInv /\ FanoutTypeOK /\ LoopTypeOK /\ read_index =< write_index
         /\ Empties /\ Counted /\ Echoing /\ OnePlace
         /\ Flushed \in Seq(Nat) /\ batch \in Seq(Nat)
         /\ outgoing \in Seq(Nat) /\ pending \in Seq(Nat)
         /\ Taken \in Int /\ opts.count \in Nat
<1>1. /\ FanoutInv /\ FanoutTypeOK /\ LoopTypeOK /\ read_index =< write_index
      /\ Empties /\ Counted /\ Echoing /\ OnePlace
  BY DEF SenderInv, FanoutInv, LoopInv
<1>2. Cardinality(skipped) \in Nat
  BY <1>1, Places
<1>3. Taken \in Int
  BY <1>1, <1>2 DEF Taken, LoopTypeOK
<1>4. opts.count \in Nat
  BY <1>1, SenderAssumption, Zenon DEF LoopTypeOK, Options
<1> QED BY <1>1, <1>3, <1>4, FlushedType DEF LoopTypeOK

\* A step that flushes, keeps what is inside apart from that, and does not read.
LEMMA FlushKeeps ==
  ASSUME DataFacts, SenderInv, mpc = "run", NEW datagrams \in Seq(Nat), NEW next, FlushBatch(datagrams, next),
         UNCHANGED <<workerVars, opts>>
  PROVE  /\ FanoutInv' /\ batch' \in Seq(Nat) /\ Flushed' \in Seq(Nat)
         /\ Flushed' \o batch' = Flushed \o datagrams
         /\ mpc' \in {"run", "enqueue", "closed"}
         /\ (lpc' = next /\ batch' = <<>>) \/ lpc' = lpc
         /\ echoed' \subseteq Range(Flushed) => Echoing'
<1>0. FanoutTypeOK /\ FanoutInv
  BY LoopFacts
<1>1. /\ Moves \/ HandsOver(datagrams)
      /\ batch' \in Seq(Nat) /\ Flushed' \in Seq(Nat)
      /\ Flushed' \o batch' = Flushed \o datagrams
      /\ Range(Flushed) \subseteq Range(Flushed')
      /\ mpc' \in {"run", "enqueue", "closed"}
      /\ (lpc' = next /\ batch' = <<>>) \/ lpc' = lpc
  BY <1>0, FlushIs, Zenon
<1>2. FanoutInv'
  BY <1>0, <1>1, LoopKeepsFanout
<1>3. echoed' \subseteq Range(Flushed) => Echoing'
  BY <1>1 DEF Echoing
<1> QED BY <1>1, <1>2, <1>3

\* What came back was sent.
LEMMA DrainEchoIs ==
  ASSUME DataFacts, SenderInv, DrainEcho
  PROVE  echoed' \subseteq Range(Flushed) /\ echoed' \in SUBSET Nat
<1>1. echoed \subseteq Range(Flushed) /\ Flushed \in Seq(Nat)
  BY LoopFacts DEF Echoing
<1>2. echoed' \subseteq Range(Flushed)
  BY <1>1 DEF DrainEcho
<1>3. Range(Flushed) \subseteq Nat
  BY <1>1 DEF Range
<1> QED BY <1>2, <1>3

\* A flush of the batch, between two steps that leave everything else inside alone.
LEMMA FlushInside ==
  ASSUME Flushed' \o batch' = Flushed \o batch, UNCHANGED <<outgoing, pending>>
  PROVE  Inside' = Inside
BY DEF Inside

\* The fast path may find that it was lapped.
LEMMA FastResumeKeeps ==
  ASSUME DataFacts, SenderInv, FastResume, Inside' = Inside, UNCHANGED <<dropped, opts, write_index>>
  PROVE  /\ OnePlace' /\ Taken' = Taken
         /\ read_index' \in Nat /\ read_index' =< write_index' /\ skipped' \in SUBSET Nat
<1>0. /\ LoopTypeOK /\ FanoutTypeOK /\ read_index =< write_index /\ OnePlace
  BY LoopFacts
<1>1. CASE Lapped /\ Resume
  BY <1>0, <1>1, PlaceSkips
<1>2. CASE UNCHANGED <<skipped, read_index>>
  <2>1. OnePlace'
    BY <1>0, <1>2, PlaceKept
  <2> QED BY <1>0, <1>2, <2>1 DEF Taken, LoopTypeOK
<1> QED BY <1>1, <1>2 DEF FastResume

\* Releasing the first of the held-back datagrams keeps the order of all.
LEMMA Released ==
  ASSUME NEW f \in Seq(Nat), pending \in Seq(Nat), NEW n \in 0 .. Len(pending)
  PROVE  /\ Due(n) \in Seq(Nat) /\ Rest(n) \in Seq(Nat)
         /\ Due(n) \o Rest(n) = pending
         /\ (f \o Due(n)) \o Rest(n) = (f \o <<>>) \o pending
BY SplitAt, Zenon DEF Due, Rest

\* What is due is taken from the front of what is held back.
LEMMA DueIs ==
  ASSUME pending \in Seq(Nat), NEW n \in 0 .. Len(pending), NEW m \in n .. Len(pending)
  PROVE  /\ Due(n) \in Seq(Nat) /\ Rest(n) \in Seq(Nat) /\ Due(n) \o Rest(n) = pending
         /\ SubSeq(pending, n + 1, m) \in Seq(Nat) /\ Rest(m) \in Seq(Nat)
         /\ SubSeq(pending, n + 1, m) \o Rest(m) = Rest(n)
         /\ pending = <<>> => Due(n) = <<>> /\ SubSeq(pending, n + 1, m) = <<>> /\ Rest(m) = <<>>
<1>0. <<>> \in Seq(Nat)
  OBVIOUS
<1>1. Len(pending) \in Nat /\ DOMAIN pending = 1 .. Len(pending) /\ m \in 0 .. Len(pending)
  OBVIOUS
<1>2. Due(n) \in Seq(Nat) /\ Rest(n) \in Seq(Nat) /\ Due(n) \o Rest(n) = pending
  BY <1>0, Released, Zenon
<1>3. Rest(m) \in Seq(Nat)
  BY <1>0, <1>1, Released, Zenon
<1>4. SubSeq(pending, n + 1, m) \in Seq(Nat)
  <2>1. \A i \in n + 1 .. m : pending[i] \in Nat
    BY <1>1
  <2> QED BY <1>1, <2>1
<1>5. SubSeq(pending, n + 1, m) \o Rest(m) = Rest(n)
  <2>1. n + 1 \in 1 .. Len(pending) + 1 /\ m \in (n + 1) - 1 .. Len(pending)
        /\ Len(pending) \in m .. Len(pending)
    BY <1>1
  <2> QED BY <2>1, Adjacent, Zenon DEF Rest
<1>6. ASSUME pending = <<>>
      PROVE  Due(n) = <<>> /\ SubSeq(pending, n + 1, m) = <<>> /\ Rest(m) = <<>>
  <2>1. n = 0 /\ m = 0 /\ Len(pending) = 0
    BY <1>6
  <2> QED BY <2>1, <1>6 DEF Due, Rest
<1> QED BY <1>2, <1>3, <1>4, <1>5, <1>6, Zenon

\* flush_pending keeps what is inside the loop, and its order.
LEMMA ReleaseKeeps ==
  ASSUME DataFacts, SenderInv, lpc = "read", Flushed' = Flushed, batch' = batch,
         \E n \in 0 .. Len(pending) : outgoing' = Due(n) /\ pending' = Rest(n)
  PROVE  /\ Inside' = Inside /\ outgoing' \in Seq(Nat) /\ pending' \in Seq(Nat)
         /\ pending = <<>> => pending' = <<>>
<1>0. batch \in Seq(Nat) /\ pending \in Seq(Nat) /\ Flushed \in Seq(Nat) /\ Empties
  BY LoopFacts
<1>1. PICK n \in 0 .. Len(pending) : outgoing' = Due(n) /\ pending' = Rest(n)
  OBVIOUS
<1>2. Flushed \o batch \in Seq(Nat)
  BY <1>0, Concats
<1>3. PICK x \in Seq(Nat) : x = Flushed \o batch
  BY <1>2, Zenon
<1>4. /\ Due(n) \in Seq(Nat) /\ Rest(n) \in Seq(Nat)
      /\ (x \o Due(n)) \o Rest(n) = (x \o <<>>) \o pending
  BY <1>0, Released, Zenon
<1>5. outgoing = <<>>
  BY <1>0 DEF Empties
<1>6. Inside' = Inside
  <2>1. Inside = (x \o <<>>) \o pending
    BY <1>3, <1>5 DEF Inside
  <2>2. Inside' = (x \o Due(n)) \o Rest(n)
    BY <1>1, <1>3 DEF Inside
  <2> QED BY <1>4, <2>1, <2>2
<1>7. ASSUME pending = <<>>
      PROVE  pending' = <<>>
  <2>1. n = 0 /\ Len(pending) = 0
    BY <1>7
  <2> QED BY <1>1, <1>7, <2>1 DEF Rest
<1> QED BY <1>1, <1>4, <1>6, <1>7

\* A step that leaves the loop's variables and the batches alone.
LEMMA LoopStays ==
  ASSUME DataFacts, SenderInv, FanoutInv', batches' = batches, UNCHANGED loopVars,
         mpc' \in {"mark", "join", "ok", "bad"} => lpc = "wait",
         mpc' = "ok" => ~ Awaited
  PROVE  SenderInv'
<1>0. /\ LoopTypeOK /\ read_index =< write_index /\ Empties /\ Counted /\ OnePlace /\ Echoing
  BY LoopFacts
<1>1. UNCHANGED <<opts, write_index, read_index, skipped, batch, pending, outgoing, dropped, echoed, lpc>>
  BY DEF loopVars
<1>2. Flushed' = Flushed
  BY DEF Flushed
<1>3. OnePlace'
  BY <1>0, <1>1, <1>2, PlaceKept DEF Inside
<1>4. LoopTypeOK' /\ read_index' =< write_index'
  BY <1>0, <1>1 DEF LoopTypeOK
<1>5. Empties'
  BY <1>0, <1>1 DEF Empties
<1>6. Counted'
  BY <1>0, <1>1 DEF Counted, Taken, plain_fast_path
<1>7. Echoing'
  BY <1>0, <1>1, <1>2 DEF Echoing, Awaited
<1> QED BY <1>3, <1>4, <1>5, <1>6, <1>7 DEF SenderInv, LoopInv

\* Every step of the loop, of the fan-out and of the producer keeps the invariant.
LEMMA SenderSteps ==
  ASSUME DataFacts, SenderInv, [SenderNext]_senderVars
  PROVE  SenderInv'
<1>Publish. ASSUME Publish
      PROVE  SenderInv'
  <2> USE <1>Publish
  <2>0. /\ LoopTypeOK /\ read_index =< write_index /\ Empties /\ Counted /\ OnePlace
        /\ UNCHANGED <<vars, opts, read_index, skipped, batch, pending, outgoing, dropped, echoed, lpc>>
        /\ write_index' = write_index + 1
    BY LoopFacts DEF Publish
  <2>1. FanoutInv' /\ Flushed' = Flushed /\ mpc' = mpc /\ Echoing'
    BY <2>0, VarsKept
  <2>2. OnePlace'
    BY <2>0, <2>1, PlaceKept DEF Inside
  <2>3. LoopTypeOK' /\ read_index' =< write_index'
    BY <2>0 DEF LoopTypeOK
  <2>4. Empties'
    BY <2>0, <2>1 DEF Empties
  <2>5. Counted'
    BY <2>0 DEF Counted, Taken, plain_fast_path
  <2> QED BY <2>1, <2>2, <2>3, <2>4, <2>5 DEF SenderInv, LoopInv

<1>QueueOrFlush. ASSUME QueueOrFlush
      PROVE  SenderInv'
  <2> USE <1>QueueOrFlush
  <2> DEFINE queued == Append(batch, Head(outgoing))
  <2>0. /\ LoopTypeOK /\ read_index =< write_index /\ Empties /\ Counted /\ Echoing /\ OnePlace
        /\ Flushed \in Seq(Nat) /\ batch \in Seq(Nat) /\ outgoing \in Seq(Nat) /\ pending \in Seq(Nat)
        /\ FanoutTypeOK /\ FanoutInv
    BY LoopFacts
  <2>1. /\ mpc = "run" /\ outgoing # <<>> /\ outgoing' = Tail(outgoing)
        /\ UNCHANGED <<workerVars, opts, write_index, read_index, skipped, pending, dropped, echoed>>
    BY DEF QueueOrFlush
  <2>2. /\ queued \in Seq(Nat) /\ outgoing' \in Seq(Nat)
        /\ (Flushed \o queued) \o outgoing' = (Flushed \o batch) \o outgoing
    <3>1. Flushed \in Seq(Nat) /\ batch \in Seq(Nat) /\ outgoing \in Seq(Nat) /\ outgoing # <<>>
      BY <2>0, <2>1
    <3>a. \A o \in Seq(Nat) : o # <<>> =>
            /\ Append(batch, Head(o)) \in Seq(Nat) /\ Tail(o) \in Seq(Nat)
            /\ (Flushed \o Append(batch, Head(o))) \o Tail(o) = (Flushed \o batch) \o o
      BY <3>1, MoveOne, Zenon
    <3>2. /\ Append(batch, Head(outgoing)) \in Seq(Nat) /\ Tail(outgoing) \in Seq(Nat)
          /\ (Flushed \o Append(batch, Head(outgoing))) \o Tail(outgoing) = (Flushed \o batch) \o outgoing
      BY <3>1, <3>a, Zenon
    <3> QED BY <2>1, <3>2, Zenon
  <2>3. FlushBatch(queued, lpc) \/ (batch' = queued /\ UNCHANGED <<batches, mpc, lpc>>)
    BY DEF QueueOrFlush
  <2> HIDE DEF queued
  <2>4. /\ FanoutInv' /\ batch' \in Seq(Nat) /\ Flushed' \o batch' = Flushed \o queued
        /\ mpc' \in {"run", "enqueue", "closed"} /\ lpc' = lpc /\ Echoing'
    <3>1. CASE FlushBatch(queued, lpc)
      <4>1. echoed' \subseteq Range(Flushed)
        BY <2>0, <2>1 DEF Echoing
      <4> QED BY <2>1, <2>2, <3>1, <4>1, FlushKeeps, Zenon
    <3>2. CASE batch' = queued /\ UNCHANGED <<batches, mpc, lpc>>
      <4>1. Flushed' = Flushed
        BY <3>2 DEF Flushed
      <4>2. FanoutInv'
        BY <2>0, <2>1, <3>2, LoopKeepsFanout DEF Moves
      <4>3. Echoing'
        BY <2>0, <2>1, <3>2, <4>1 DEF Echoing, Awaited
      <4> QED BY <2>1, <2>2, <3>2, <4>1, <4>2, <4>3
    <3> QED BY <2>3, <3>1, <3>2, Zenon
  <2>5. Inside' = Inside
    <3>1. Inside' = ((Flushed' \o batch') \o outgoing') \o pending'
      BY DEF Inside
    <3>2. Inside' = ((Flushed \o batch) \o outgoing) \o pending
      BY <2>1, <2>2, <2>4, <3>1
    <3> QED BY <3>2 DEF Inside
  <2>6. OnePlace'
    BY <2>0, <2>1, <2>5, PlaceKept
  <2>7. LoopTypeOK' /\ read_index' =< write_index'
    BY <2>0, <2>1, <2>2, <2>4 DEF LoopTypeOK
  <2>8. Empties'
    BY <2>0, <2>1, <2>4 DEF Empties
  <2>9. Counted'
    BY <2>0, <2>1, <2>4 DEF Counted, Taken, plain_fast_path
  <2> QED BY <2>4, <2>6, <2>7, <2>8, <2>9 DEF SenderInv, LoopInv

<1>LoopEnds. ASSUME LoopEnds
      PROVE  SenderInv'
  <2> USE <1>LoopEnds
  <2>0. /\ LoopTypeOK /\ read_index =< write_index /\ Empties /\ Counted /\ OnePlace
        /\ Flushed \in Seq(Nat) /\ batch \in Seq(Nat) /\ outgoing \in Seq(Nat) /\ pending \in Seq(Nat)
    BY LoopFacts
  <2>1. /\ mpc = "run" /\ lpc' = "final" /\ outgoing' = pending /\ pending' = <<>> /\ outgoing = <<>>
        /\ UNCHANGED <<vars, opts, write_index, read_index, skipped, batch, dropped, echoed>>
    BY <2>0 DEF LoopEnds, At, Empties
  <2>2. FanoutInv' /\ Flushed' = Flushed /\ mpc' = mpc /\ Echoing'
    BY <2>1, VarsKept
  <2>3. Inside' = Inside
    <3>1. Flushed \o batch \in Seq(Nat)
      BY <2>0
    <3>2. \A a, p \in Seq(Nat) : (a \o p) \o <<>> = (a \o <<>>) \o p
      OBVIOUS
    <3>3. Inside = ((Flushed \o batch) \o <<>>) \o pending
      BY <2>1 DEF Inside
    <3>4. Inside' = ((Flushed \o batch) \o pending) \o <<>>
      BY <2>1, <2>2 DEF Inside
    <3> QED BY <2>0, <3>1, <3>2, <3>3, <3>4
  <2>4. OnePlace'
    BY <2>0, <2>1, <2>3, PlaceKept
  <2>5. LoopTypeOK' /\ read_index' =< write_index'
    <3>1. <<>> \in Seq(Nat)
      OBVIOUS
    <3> QED BY <2>0, <2>1, <3>1 DEF LoopTypeOK, LoopPlaces
  <2>6. Empties'
    BY <2>0, <2>1, <2>2 DEF Empties
  <2>7. Counted'
    BY <2>0, <2>1 DEF Counted, Taken
  <2> QED BY <2>2, <2>4, <2>5, <2>6, <2>7 DEF SenderInv, LoopInv

<1>LoopGoesOn. ASSUME LoopGoesOn
      PROVE  SenderInv'
  <2> USE <1>LoopGoesOn
  <2>0. /\ LoopTypeOK /\ read_index =< write_index /\ Empties /\ Counted /\ OnePlace
        /\ batch \in Seq(Nat) /\ FanoutInv /\ Taken \in Int /\ opts.count \in Nat
    BY LoopFacts
  <2>1. /\ mpc = "run" /\ lpc = "top" /\ ~ CountMet /\ DrainEcho
        /\ UNCHANGED <<workerVars, opts, write_index, read_index, skipped, pending, outgoing, dropped>>
        /\ FlushBatch(batch, "read") \/ (lpc' = "read" /\ UNCHANGED <<batches, mpc, batch>>)
    BY DEF LoopGoesOn, At
  <2>2. echoed' \subseteq Range(Flushed) /\ echoed' \in SUBSET Nat
    BY <2>1, DrainEchoIs
  <2>3. /\ FanoutInv' /\ batch' \in Seq(Nat) /\ Flushed' \o batch' = Flushed \o batch
        /\ mpc' \in {"run", "enqueue", "closed"} /\ lpc' \in {"read", "top"} /\ Echoing'
    <3>1. CASE FlushBatch(batch, "read")
      BY <2>0, <2>1, <2>2, <3>1, FlushKeeps, Zenon
    <3>2. CASE lpc' = "read" /\ UNCHANGED <<batches, mpc, batch>>
      <4>1. Flushed' = Flushed
        BY <3>2 DEF Flushed
      <4>2. FanoutInv'
        BY <2>0, <2>1, <3>2, LoopKeepsFanout DEF Moves
      <4>3. Echoing'
        BY <2>1, <2>2, <3>2, <4>1 DEF Echoing
      <4> QED BY <2>0, <2>1, <3>2, <4>1, <4>2, <4>3
    <3> QED BY <2>1, <3>1, <3>2, Zenon
  <2>4. OnePlace'
    <3>1. Inside' = Inside
      BY <2>1, <2>3, FlushInside
    <3> QED BY <2>0, <2>1, <3>1, PlaceKept
  <2>5. LoopTypeOK' /\ read_index' =< write_index'
    BY <2>0, <2>1, <2>2, <2>3 DEF LoopTypeOK, LoopPlaces
  <2>6. Empties'
    BY <2>0, <2>1, <2>3 DEF Empties
  <2>7. Counted'
    <3>1. opts.count # 0 => Taken < opts.count
      BY <2>0, <2>1 DEF CountMet
    <3>2. Taken' = Taken
      BY <2>1 DEF Taken
    <3> QED BY <2>0, <2>1, <3>1, <3>2 DEF Counted
  <2> QED BY <2>3, <2>4, <2>5, <2>6, <2>7 DEF SenderInv, LoopInv

<1>FastRead. ASSUME FastRead
      PROVE  SenderInv'
  <2> USE <1>FastRead
  <2>0. /\ LoopTypeOK /\ FanoutTypeOK /\ read_index =< write_index /\ Empties /\ Counted /\ OnePlace
        /\ batch \in Seq(Nat) /\ Flushed \in Seq(Nat) /\ Taken \in Int /\ opts.count \in Nat
        /\ read_index \in Nat /\ write_index \in Nat
    BY LoopFacts DEF LoopTypeOK
  <2>1. /\ mpc = "run" /\ lpc = "read" /\ plain_fast_path /\ ~ CountMet /\ Available
        /\ batch' = Append(batch, read_index) /\ read_index' = read_index + 1
        /\ UNCHANGED <<vars, opts, write_index, skipped, pending, outgoing, dropped, echoed, lpc>>
    BY DEF FastRead, At
  <2>2. FanoutInv' /\ Flushed' = Flushed /\ mpc' = mpc /\ Echoing'
    BY <2>1, VarsKept
  <2>3. outgoing = <<>> /\ pending = <<>>
    BY <2>0, <2>1 DEF Empties, plain_fast_path
  <2>4. <<read_index>> \in Seq(Nat) /\ batch' = batch \o <<read_index>> /\ batch' \in Seq(Nat)
    <3>1. \A b \in Seq(Nat), r \in Nat :
            <<r>> \in Seq(Nat) /\ Append(b, r) = b \o <<r>> /\ Append(b, r) \in Seq(Nat)
      OBVIOUS
    <3> QED BY <2>0, <2>1, <3>1
  <2>5. Inside = Flushed \o batch /\ Flushed \o batch \in Seq(Nat)
    <3>1. \A t \in Seq(Nat) : (t \o <<>>) \o <<>> = t
      OBVIOUS
    <3>2. Flushed \o batch \in Seq(Nat)
      BY <2>0
    <3> QED BY <2>3, <3>1, <3>2 DEF Inside
  <2>6. Inside' = Flushed \o batch'
    <3>1. \A t \in Seq(Nat) : (t \o <<>>) \o <<>> = t
      OBVIOUS
    <3>2. Flushed \o batch' \in Seq(Nat)
      BY <2>0, <2>4
    <3> QED BY <2>1, <2>2, <2>3, <3>1, <3>2 DEF Inside
  <2>7. Inside' = Inside \o <<read_index>>
    <3>1. \A u \in Seq(Nat) : (Flushed \o batch) \o u = Flushed \o (batch \o u)
      BY <2>0, Concats, Zenon
    <3> QED BY <2>0, <2>4, <2>5, <2>6, <3>1, Zenon
  <2>8. OnePlace'
    <3>1. Len(Inside') = Len(Inside) + 1 /\ Range(Inside') = Range(Inside) \cup {read_index}
      <4>1. Inside \in Seq(Nat)
        BY <2>5
      <4>2. Len(<<read_index>>) = 1 /\ Range(<<read_index>>) = {read_index}
        BY DEF Range
      <4> QED BY <2>4, <2>7, <4>1, <4>2, Concats, Zenon
    <3> QED BY <2>0, <2>1, <2>7, <3>1, PlaceEnters, Zenon
  <2>9. LoopTypeOK' /\ read_index' =< write_index'
    BY <2>0, <2>1, <2>4 DEF LoopTypeOK, Available
  <2>10. Empties'
    BY <2>0, <2>1, <2>2 DEF Empties
  <2>11. Counted'
    <3>1. opts.count # 0 => Taken < opts.count
      BY <2>0, <2>1 DEF CountMet
    <3>2. Taken' = Taken + 1
      <4>1. Cardinality(skipped) \in Nat
        BY <2>0, Places
      <4> QED BY <2>0, <2>1, <4>1 DEF Taken
    <3>3. opts.count # 0 => Taken + 1 =< opts.count
      BY <2>0, <3>1
    <3> QED BY <2>1, <3>2, <3>3 DEF Counted, plain_fast_path
  <2> QED BY <2>2, <2>8, <2>9, <2>10, <2>11 DEF SenderInv, LoopInv

<1>FastFlush. ASSUME FastFlush
      PROVE  SenderInv'
  <2> USE <1>FastFlush
  <2>0. /\ LoopTypeOK /\ Empties /\ Counted /\ Echoing /\ batch \in Seq(Nat)
    BY LoopFacts
  <2>1. /\ mpc = "run" /\ lpc = "read" /\ plain_fast_path /\ FastResume /\ FlushBatch(batch, "top")
        /\ UNCHANGED <<workerVars, opts, write_index, pending, outgoing, dropped, echoed>>
    BY DEF FastFlush, At
  <2>2. /\ FanoutInv' /\ batch' \in Seq(Nat) /\ Flushed' \o batch' = Flushed \o batch
        /\ mpc' \in {"run", "enqueue", "closed"} /\ lpc' \in {"read", "top"} /\ Echoing'
    <3>1. echoed' \subseteq Range(Flushed)
      BY <2>0, <2>1 DEF Echoing
    <3> QED BY <2>0, <2>1, <3>1, FlushKeeps, Zenon
  <2>3. /\ OnePlace' /\ Taken' = Taken
        /\ read_index' \in Nat /\ read_index' =< write_index' /\ skipped' \in SUBSET Nat
    <3>1. Inside' = Inside
      BY <2>1, <2>2, FlushInside
    <3> QED BY <2>1, <3>1, FastResumeKeeps
  <2>4. LoopTypeOK'
    BY <2>0, <2>1, <2>2, <2>3 DEF LoopTypeOK, LoopPlaces
  <2>5. Empties'
    BY <2>0, <2>1, <2>2 DEF Empties
  <2>6. Counted'
    BY <2>0, <2>1, <2>3 DEF Counted, plain_fast_path
  <2> QED BY <2>2, <2>3, <2>4, <2>5, <2>6 DEF SenderInv, LoopInv

<1>FastIdle. ASSUME NEW next \in {"top", "stop"}, FastIdle(next)
      PROVE  SenderInv'
  <2> USE <1>FastIdle
  <2>0. /\ LoopTypeOK /\ Empties /\ Counted
    BY LoopFacts
  <2>1. /\ mpc = "run" /\ lpc = "read" /\ lpc' = next /\ FastResume
        /\ UNCHANGED <<vars, opts, write_index, batch, pending, outgoing, dropped, echoed>>
    BY DEF FastIdle, At
  <2>2. FanoutInv' /\ Flushed' = Flushed /\ mpc' = mpc /\ Echoing'
    BY <2>1, VarsKept
  <2>3. /\ OnePlace' /\ Taken' = Taken
        /\ read_index' \in Nat /\ read_index' =< write_index' /\ skipped' \in SUBSET Nat
    <3>1. Inside' = Inside
      BY <2>1, <2>2 DEF Inside
    <3> QED BY <2>1, <3>1, FastResumeKeeps
  <2>4. LoopTypeOK'
    BY <2>0, <2>1, <2>3 DEF LoopTypeOK, LoopPlaces
  <2>5. Empties'
    BY <2>0, <2>1, <2>2 DEF Empties
  <2>6. Counted'
    BY <2>0, <2>1, <2>3 DEF Counted
  <2> QED BY <2>2, <2>3, <2>4, <2>5, <2>6 DEF SenderInv, LoopInv

<1>SlowRead. ASSUME SlowRead
      PROVE  SenderInv'
  <2> USE <1>SlowRead
  <2> DEFINE x == Flushed \o batch
  <2>0. /\ LoopTypeOK /\ FanoutTypeOK /\ read_index =< write_index /\ Empties /\ Counted /\ OnePlace
        /\ batch \in Seq(Nat) /\ pending \in Seq(Nat) /\ Flushed \in Seq(Nat)
        /\ Taken \in Int /\ opts.count \in Nat /\ read_index \in Nat /\ write_index \in Nat
    BY LoopFacts DEF LoopTypeOK
  <2>1. /\ mpc = "run" /\ lpc = "read" /\ ~ plain_fast_path /\ Available
        /\ read_index' = read_index + 1 /\ lpc' = "emit"
        /\ UNCHANGED <<vars, opts, write_index, skipped, batch, echoed>>
    BY DEF SlowRead, At
  <2>2. PICK n \in 0 .. Len(pending) : Emit(n)
    BY DEF SlowRead
  <2>3. FanoutInv' /\ Flushed' = Flushed /\ mpc' = mpc /\ Echoing'
    BY <2>1, VarsKept
  <2>4. x \in Seq(Nat)
    BY <2>0, Concats
  <2>5. Len(pending) \in n .. Len(pending)
    BY <2>0
  <2>6. /\ Due(n) \in Seq(Nat) /\ Rest(n) \in Seq(Nat) /\ Due(n) \o Rest(n) = pending
    BY <2>0, <2>5, DueIs
  <2>7. Inside = x \o pending /\ Inside' = (x \o outgoing') \o pending'
    <3>1. outgoing = <<>>
      BY <2>0, <2>1 DEF Empties
    <3>2. x \o <<>> = x
      BY <2>4
    <3>3. Inside = (x \o outgoing) \o pending
      BY DEF Inside
    <3>4. Inside' = (x \o outgoing') \o pending'
      BY <2>1, <2>3 DEF Inside
    <3> QED BY <3>1, <3>2, <3>3, <3>4
  <2>8. PICK xd \in Seq(Nat) : xd = x \o Due(n)
    BY <2>4, <2>6, Concats, Zenon
  <2> HIDE DEF x
  <2>9. Inside = xd \o Rest(n) /\ Inside \in Seq(Nat)
    <3>1. \A t, u \in Seq(Nat) : (x \o t) \o u = x \o (t \o u) /\ x \o t \in Seq(Nat)
      BY <2>4, Concats, Zenon
    <3> QED BY <2>0, <2>6, <2>7, <2>8, <3>1, Zenon
  <2>a. /\ Len((xd \o <<read_index>>) \o Rest(n)) = Len(Inside) + 1
        /\ Range((xd \o <<read_index>>) \o Rest(n)) = Range(Inside) \cup {read_index}
    <3>1. \A b \in Seq(Nat), r \in Nat :
            /\ Len((xd \o <<r>>) \o b) = Len(xd \o b) + 1
            /\ Range((xd \o <<r>>) \o b) = Range(xd \o b) \cup {r}
      BY Inserted, ZenonT(40)
    <3>2. read_index \in Nat /\ Rest(n) \in Seq(Nat)
      BY <2>0, <2>6, Zenon
    <3> QED BY <2>9, <3>1, <3>2, Zenon
  <2>10. /\ OnePlace' /\ outgoing' \in Seq(Nat) /\ pending' \in Seq(Nat) /\ dropped' \in SUBSET Nat
         /\ ~ opts.impaired => pending' = <<>> /\ dropped' = {}
    <3>1. CASE opts.impaired /\ dropped' = dropped \cup {read_index}
               /\ outgoing' = Due(n) /\ pending' = Rest(n)
      <4>1. Inside' = Inside
        BY <2>7, <2>8, <2>9, <3>1
      <4>2. OnePlace'
        BY <2>0, <2>1, <3>1, <4>1, PlaceDrops
      <4> QED BY <2>0, <2>6, <3>1, <4>2 DEF LoopTypeOK
    <3>2. CASE opts.impaired /\ pending' = Append(Rest(n), read_index)
               /\ outgoing' = Due(n) /\ UNCHANGED dropped
      <4>1. \A s \in Seq(Nat), r \in Nat :
              <<r>> \in Seq(Nat) /\ Append(s, r) = s \o <<r>> /\ Append(s, r) \in Seq(Nat)
        OBVIOUS
      <4>2. <<read_index>> \in Seq(Nat) /\ pending' = Rest(n) \o <<read_index>> /\ pending' \in Seq(Nat)
        BY <2>0, <2>6, <3>2, <4>1
      <4>3. Inside' = xd \o (Rest(n) \o <<read_index>>)
        BY <2>7, <2>8, <3>2, <4>2
      <4>4. \A u \in Seq(Nat) : (xd \o Rest(n)) \o u = xd \o (Rest(n) \o u)
        BY <2>6, Concats, Zenon
      <4>5. Inside' = Inside \o <<read_index>>
        BY <2>9, <4>2, <4>3, <4>4, Zenon
      <4>6. Len(<<read_index>>) = 1 /\ Range(<<read_index>>) = {read_index}
        BY DEF Range
      <4>7. Len(Inside') = Len(Inside) + 1 /\ Range(Inside') = Range(Inside) \cup {read_index}
        <5>1. <<read_index>> \in Seq(Nat) /\ Inside \in Seq(Nat)
          BY <2>9, <4>2
        <5>2. /\ Len(Inside \o <<read_index>>) = Len(Inside) + Len(<<read_index>>)
              /\ Range(Inside \o <<read_index>>) = Range(Inside) \cup Range(<<read_index>>)
          BY <5>1, Concats, Zenon
        <5> QED BY <4>5, <4>6, <5>2, Zenon
      <4>8. OnePlace'
        BY <2>0, <2>1, <3>2, <4>7, PlaceEnters
      <4> QED BY <2>0, <2>6, <3>2, <4>2, <4>8 DEF LoopTypeOK
    <3>3. ASSUME NEW m \in n .. Len(pending),
                 outgoing' = Due(n) \o <<read_index>> \o SubSeq(pending, n + 1, m),
                 pending' = Rest(m), UNCHANGED dropped
          PROVE  /\ OnePlace' /\ outgoing' \in Seq(Nat) /\ pending' \in Seq(Nat) /\ dropped' \in SUBSET Nat
                 /\ ~ opts.impaired => pending' = <<>> /\ dropped' = {}
      <4>1. /\ SubSeq(pending, n + 1, m) \in Seq(Nat) /\ Rest(m) \in Seq(Nat)
            /\ SubSeq(pending, n + 1, m) \o Rest(m) = Rest(n)
            /\ pending = <<>> => Due(n) = <<>> /\ SubSeq(pending, n + 1, m) = <<>> /\ Rest(m) = <<>>
        BY <2>0, DueIs, Zenon
      <4>2. PICK u \in Seq(Nat) : u = SubSeq(pending, n + 1, m)
        BY <4>1, Zenon
      <4>3. PICK v \in Seq(Nat) : v = Rest(m)
        BY <4>1
      <4>4. PICK d \in Seq(Nat) : d = Due(n)
        BY <2>6
      <4>5. outgoing' = (d \o <<read_index>>) \o u /\ pending' = v /\ u \o v = Rest(n)
        BY <3>3, <4>1, <4>2, <4>3, <4>4, Zenon
      <4>6. outgoing' \in Seq(Nat) /\ Inside' = ((x \o d) \o <<read_index>>) \o (u \o v)
        <5>1. read_index \in Nat
          BY <2>0
        <5>a. \A r \in Nat : \A u1, w \in Seq(Nat) :
                /\ (d \o <<r>>) \o u1 \in Seq(Nat)
                /\ (x \o ((d \o <<r>>) \o u1)) \o w = ((x \o d) \o <<r>>) \o (u1 \o w)
          BY <2>4, Between, Zenon
        <5>b. \A u1, w \in Seq(Nat) :
                /\ (d \o <<read_index>>) \o u1 \in Seq(Nat)
                /\ (x \o ((d \o <<read_index>>) \o u1)) \o w = ((x \o d) \o <<read_index>>) \o (u1 \o w)
          BY <5>1, <5>a, Zenon
        <5>2. \A w \in Seq(Nat) :
                /\ (d \o <<read_index>>) \o u \in Seq(Nat)
                /\ (x \o ((d \o <<read_index>>) \o u)) \o w = ((x \o d) \o <<read_index>>) \o (u \o w)
          BY <5>b, Zenon
        <5> QED BY <2>7, <4>5, <5>2, Zenon
      <4>7. Inside' = (xd \o <<read_index>>) \o Rest(n)
        BY <2>8, <4>4, <4>5, <4>6, Zenon
      <4>8. Len(Inside') = Len(Inside) + 1 /\ Range(Inside') = Range(Inside) \cup {read_index}
        BY <2>a, <4>7, Zenon
      <4>9. opts.impaired \/ Inside' = Inside \o <<read_index>>
        <5>1. SUFFICES ASSUME ~ opts.impaired PROVE Inside' = Inside \o <<read_index>>
          BY Zenon
        <5>2. pending = <<>>
          BY <2>0, <5>1 DEF Empties
        <5>3. Rest(n) = <<>>
          <6>1. n = 0 /\ Len(pending) = 0
            BY <5>2
          <6> QED BY <5>2, <6>1 DEF Rest
        <5>4. PICK w \in Seq(Nat) : w = xd \o <<read_index>>
          <6>1. <<read_index>> \in Seq(Nat)
            BY <2>0
          <6> QED BY <6>1, Concats, Zenon
        <5>5. w \o <<>> = w /\ xd \o <<>> = xd
          OBVIOUS
        <5> QED BY <2>9, <4>7, <5>3, <5>4, <5>5
      <4>10. OnePlace'
        BY <2>0, <2>1, <3>3, <4>8, <4>9, PlaceEnters
      <4>11. ~ opts.impaired => pending' = <<>> /\ dropped' = {}
        BY <2>0, <3>3, <4>1 DEF Empties
      <4> QED BY <2>0, <3>3, <4>1, <4>6, <4>10, <4>11, Zenon DEF LoopTypeOK
    <3> QED BY <2>2, <3>1, <3>2, <3>3, Zenon DEF Emit
  <2>11. LoopTypeOK' /\ read_index' =< write_index'
    BY <2>0, <2>1, <2>10 DEF LoopTypeOK, LoopPlaces, Available
  <2>12. Empties'
    BY <2>0, <2>1, <2>3, <2>10 DEF Empties
  <2>13. Counted'
    <3>1. opts.count # 0 => Taken < opts.count
      BY <2>0, <2>1 DEF Counted
    <3>2. Taken' = Taken + 1
      <4>1. Cardinality(skipped) \in Nat
        BY <2>0, Places
      <4> QED BY <2>0, <2>1, <4>1 DEF Taken
    <3>3. opts.count # 0 => Taken + 1 =< opts.count
      BY <2>0, <3>1
    <3> QED BY <2>1, <3>2, <3>3 DEF Counted
  <2> QED BY <2>3, <2>10, <2>11, <2>12, <2>13 DEF SenderInv, LoopInv

<1>SlowOverflow. ASSUME SlowOverflow
      PROVE  SenderInv'
  <2> USE <1>SlowOverflow
  <2>0. /\ LoopTypeOK /\ read_index =< write_index /\ Empties /\ Counted /\ OnePlace
        /\ pending \in Seq(Nat)
    BY LoopFacts
  <2>1. /\ mpc = "run" /\ lpc = "read" /\ lpc' = "overflow"
        /\ UNCHANGED <<vars, opts, write_index, read_index, skipped, batch, dropped, echoed>>
        /\ \E n \in 0 .. Len(pending) : outgoing' = Due(n) /\ pending' = Rest(n)
    BY DEF SlowOverflow, At
  <2>2. FanoutInv' /\ Flushed' = Flushed /\ mpc' = mpc /\ Echoing'
    BY <2>1, VarsKept
  <2>3. /\ Inside' = Inside /\ outgoing' \in Seq(Nat) /\ pending' \in Seq(Nat)
        /\ pending = <<>> => pending' = <<>>
    BY <2>0, <2>1, <2>2, ReleaseKeeps
  <2>4. OnePlace'
    BY <2>0, <2>1, <2>3, PlaceKept
  <2>5. LoopTypeOK' /\ read_index' =< write_index'
    BY <2>0, <2>1, <2>3 DEF LoopTypeOK, LoopPlaces
  <2>6. Empties'
    BY <2>0, <2>1, <2>2, <2>3 DEF Empties
  <2>7. Counted'
    BY <2>0, <2>1 DEF Counted, Taken
  <2> QED BY <2>2, <2>4, <2>5, <2>6, <2>7 DEF SenderInv, LoopInv

<1>SlowEmpty. ASSUME SlowEmpty
      PROVE  SenderInv'
  <2> USE <1>SlowEmpty
  <2>0. /\ LoopTypeOK /\ read_index =< write_index /\ Empties /\ Counted /\ OnePlace
        /\ pending \in Seq(Nat)
    BY LoopFacts
  <2>1. /\ mpc = "run" /\ lpc = "read" /\ lpc' = "idle"
        /\ UNCHANGED <<vars, opts, write_index, read_index, skipped, batch, dropped, echoed>>
        /\ \E n \in 0 .. Len(pending) : outgoing' = Due(n) /\ pending' = Rest(n)
    BY DEF SlowEmpty, At
  <2>2. FanoutInv' /\ Flushed' = Flushed /\ mpc' = mpc /\ Echoing'
    BY <2>1, VarsKept
  <2>3. /\ Inside' = Inside /\ outgoing' \in Seq(Nat) /\ pending' \in Seq(Nat)
        /\ pending = <<>> => pending' = <<>>
    BY <2>0, <2>1, <2>2, ReleaseKeeps
  <2>4. OnePlace'
    BY <2>0, <2>1, <2>3, PlaceKept
  <2>5. LoopTypeOK' /\ read_index' =< write_index'
    BY <2>0, <2>1, <2>3 DEF LoopTypeOK, LoopPlaces
  <2>6. Empties'
    BY <2>0, <2>1, <2>2, <2>3 DEF Empties
  <2>7. Counted'
    BY <2>0, <2>1 DEF Counted, Taken
  <2> QED BY <2>2, <2>4, <2>5, <2>6, <2>7 DEF SenderInv, LoopInv

<1>Emitted. ASSUME Emitted
      PROVE  SenderInv'
  <2> USE <1>Emitted
  <2>0. /\ LoopTypeOK /\ read_index =< write_index /\ Empties /\ Counted /\ OnePlace
    BY LoopFacts
  <2>1. /\ mpc = "run" /\ outgoing = <<>> /\ lpc' = "top"
        /\ UNCHANGED <<vars, opts, write_index, read_index, skipped, batch, pending, outgoing, dropped, echoed>>
    BY DEF Emitted, At
  <2>2. FanoutInv' /\ Flushed' = Flushed /\ mpc' = mpc /\ Echoing'
    BY <2>1, VarsKept
  <2>3. OnePlace'
    BY <2>0, <2>1, <2>2, PlaceKept DEF Inside
  <2>4. LoopTypeOK' /\ read_index' =< write_index'
    BY <2>0, <2>1 DEF LoopTypeOK, LoopPlaces
  <2>5. Empties'
    BY <2>0, <2>1, <2>2 DEF Empties
  <2>6. Counted'
    BY <2>0, <2>1 DEF Counted, Taken
  <2> QED BY <2>2, <2>3, <2>4, <2>5, <2>6 DEF SenderInv, LoopInv

<1>SlowLapped. ASSUME SlowLapped
      PROVE  SenderInv'
  <2> USE <1>SlowLapped
  <2>0. /\ LoopTypeOK /\ FanoutTypeOK /\ Empties /\ Counted /\ OnePlace
    BY LoopFacts
  <2>1. /\ mpc = "run" /\ lpc = "read" /\ lpc' = "top" /\ Lapped /\ Resume
        /\ UNCHANGED <<vars, opts, write_index, batch, pending, outgoing, dropped, echoed>>
    BY DEF SlowLapped, At
  <2>2. FanoutInv' /\ Flushed' = Flushed /\ mpc' = mpc /\ Echoing'
    BY <2>1, VarsKept
  <2>3. /\ OnePlace' /\ Taken' = Taken
        /\ read_index' \in Nat /\ read_index' =< write_index' /\ skipped' \in SUBSET Nat
    <3>1. Inside' = Inside
      BY <2>1, <2>2 DEF Inside
    <3> QED BY <2>0, <2>1, <3>1, PlaceSkips
  <2>4. LoopTypeOK'
    BY <2>0, <2>1, <2>3 DEF LoopTypeOK, LoopPlaces
  <2>5. Empties'
    BY <2>0, <2>1, <2>2 DEF Empties
  <2>6. Counted'
    BY <2>0, <2>1, <2>3 DEF Counted
  <2> QED BY <2>2, <2>3, <2>4, <2>5, <2>6 DEF SenderInv, LoopInv

<1>SlowIdle. ASSUME NEW next \in {"top", "stop"}, SlowIdle(next)
      PROVE  SenderInv'
  <2> USE <1>SlowIdle
  <2>0. /\ LoopTypeOK /\ read_index =< write_index /\ Empties /\ Counted /\ Echoing /\ OnePlace
        /\ batch \in Seq(Nat)
    BY LoopFacts
  <2>1. /\ mpc = "run" /\ lpc = "idle" /\ outgoing = <<>> /\ FlushBatch(batch, next)
        /\ UNCHANGED <<workerVars, opts, write_index, read_index, skipped, pending, outgoing, dropped, echoed>>
    BY DEF SlowIdle, At
  <2>2. /\ FanoutInv' /\ batch' \in Seq(Nat) /\ Flushed' \o batch' = Flushed \o batch
        /\ mpc' \in {"run", "enqueue", "closed"} /\ Echoing'
        /\ (lpc' = next /\ batch' = <<>>) \/ lpc' = lpc
    <3>1. echoed' \subseteq Range(Flushed)
      BY <2>0, <2>1 DEF Echoing
    <3> QED BY <2>0, <2>1, <3>1, FlushKeeps, Zenon
  <2>3. OnePlace'
    <3>1. Inside' = Inside
      BY <2>1, <2>2, FlushInside
    <3> QED BY <2>0, <2>1, <3>1, PlaceKept
  <2>4. LoopTypeOK' /\ read_index' =< write_index'
    BY <2>0, <2>1, <2>2 DEF LoopTypeOK, LoopPlaces
  <2>5. Empties'
    BY <2>0, <2>1, <2>2 DEF Empties
  <2>6. Counted'
    BY <2>0, <2>1, <2>2 DEF Counted, Taken
  <2> QED BY <2>2, <2>3, <2>4, <2>5, <2>6 DEF SenderInv, LoopInv

<1>FlushLast. ASSUME FlushLast
      PROVE  SenderInv'
  <2> USE <1>FlushLast
  <2>0. /\ LoopTypeOK /\ read_index =< write_index /\ Empties /\ Counted /\ Echoing /\ OnePlace
        /\ batch \in Seq(Nat)
    BY LoopFacts
  <2>1. /\ mpc = "run" /\ lpc = "final" /\ outgoing = <<>> /\ FlushBatch(batch, "wait")
        /\ UNCHANGED <<workerVars, opts, write_index, read_index, skipped, pending, outgoing, dropped, echoed>>
    BY DEF FlushLast, At
  <2>2. /\ FanoutInv' /\ batch' \in Seq(Nat) /\ Flushed' \o batch' = Flushed \o batch
        /\ mpc' \in {"run", "enqueue", "closed"} /\ Echoing'
        /\ (lpc' = "wait" /\ batch' = <<>>) \/ lpc' = lpc
    <3>1. echoed' \subseteq Range(Flushed)
      BY <2>0, <2>1 DEF Echoing
    <3> QED BY <2>0, <2>1, <3>1, FlushKeeps, Zenon
  <2>3. OnePlace'
    <3>1. Inside' = Inside
      BY <2>1, <2>2, FlushInside
    <3> QED BY <2>0, <2>1, <3>1, PlaceKept
  <2>4. LoopTypeOK' /\ read_index' =< write_index'
    BY <2>0, <2>1, <2>2 DEF LoopTypeOK, LoopPlaces
  <2>5. Empties'
    BY <2>0, <2>1, <2>2 DEF Empties
  <2>6. Counted'
    BY <2>0, <2>1, <2>2 DEF Counted, Taken
  <2> QED BY <2>2, <2>3, <2>4, <2>5, <2>6 DEF SenderInv, LoopInv

<1>Echo. ASSUME EchoRound \/ EchoDeadline
      PROVE  SenderInv'
  <2> USE <1>Echo
  <2>0. /\ LoopTypeOK /\ read_index =< write_index /\ Empties /\ Counted /\ OnePlace /\ FanoutInv
    BY LoopFacts
  <2>1. /\ mpc = "run" /\ lpc = "wait" /\ Awaited /\ DrainEcho /\ batches' = batches
        /\ mpc' \in {"run", "closed"} /\ UNCHANGED workerVars
        /\ UNCHANGED <<opts, write_index, read_index, skipped, batch, pending, outgoing, dropped, lpc>>
    BY DEF EchoRound, EchoDeadline, At, vars, workerVars
  <2>2. ~ opts.fan
    BY <2>0, <2>1 DEF Awaited, LoopTypeOK, Options
  <2>3. FanoutInv'
    <3>1. Moves
      BY <2>1, <2>2 DEF Moves
    <3> QED BY <2>0, <2>1, <3>1, LoopKeepsFanout
  <2>4. echoed' \subseteq Range(Flushed) /\ echoed' \in SUBSET Nat
    BY <2>1, DrainEchoIs
  <2>5. Flushed' = Flushed
    BY <2>1 DEF Flushed
  <2>6. OnePlace'
    BY <2>0, <2>1, <2>5, PlaceKept DEF Inside
  <2>7. LoopTypeOK' /\ read_index' =< write_index'
    BY <2>0, <2>1, <2>4 DEF LoopTypeOK
  <2>8. Empties'
    BY <2>0, <2>1 DEF Empties
  <2>9. Counted'
    BY <2>0, <2>1 DEF Counted, Taken, plain_fast_path
  <2>10. Echoing'
    BY <2>1, <2>4, <2>5 DEF Echoing
  <2> QED BY <2>3, <2>6, <2>7, <2>8, <2>9, <2>10 DEF SenderInv, LoopInv

<1>AllSent. ASSUME AllSent
      PROVE  SenderInv'
  <2> USE <1>AllSent
  <2>1. /\ mpc = "run" /\ lpc = "wait" /\ ~ Awaited /\ UNCHANGED <<batches, workerVars, loopVars>>
        /\ mpc' = IF opts.fan THEN "mark" ELSE "ok"
    BY DEF AllSent, At
  <2>2. FanoutInv'
    BY <2>1, LoopFacts, LoopKeepsFanout DEF Moves, loopVars
  <2> QED BY <2>1, <2>2, LoopStays

<1>GiveUp. ASSUME GiveUp
      PROVE  SenderInv'
  <2> USE <1>GiveUp
  <2>1. /\ mpc = "run" /\ UNCHANGED <<batches, workerVars, loopVars>>
        /\ mpc' = IF opts.fan THEN "destroy" ELSE "closed"
    BY DEF GiveUp
  <2>2. FanoutInv'
    BY <2>1, LoopFacts, LoopKeepsFanout DEF Moves, loopVars
  <2>3. mpc' \notin {"mark", "join", "ok", "bad"}
    BY <2>1
  <2> QED BY <2>1, <2>2, <2>3, LoopStays

\* finish() begins at the end of the loop only, and with a fan-out no echo is awaited.
<1>FanoutStep. ASSUME FanoutStep
      PROVE  SenderInv'
  <2> USE <1>FanoutStep
  <2>0. FanoutInv /\ Empties /\ Echoing /\ LoopTypeOK
    BY LoopFacts
  <2>1. UNCHANGED loopVars
    BY DEF FanoutStep
  <2>2. FanoutInv'
    BY <2>0, Sums, FanoutKeeps
  <2>3. /\ batches' = batches
        /\ mpc' \in {"mark", "join", "ok", "bad"} => mpc \in {"mark", "join", "ok", "bad"}
        /\ mpc' = "ok" => mpc \in {"join", "ok"}
    <3>1. CASE Enqueue
      BY <3>1 DEF Enqueue, EnqueueFailed, EnqueueFull, EnqueueFits, NextTarget
    <3>2. CASE Completing
      BY <3>2 DEF Completing, MarkDone, Join, Destroy, Reap, NextTarget
    <3>3. ASSUME NEW d \in Dest, WorkerStep(d) \/ SpuriousWakeup(d) \/ Transfer(d)
          PROVE  batches' = batches /\ mpc' = mpc
      BY <3>3, Zenon DEF WorkerStep, SpuriousWakeup, Transfer, Sleep, Exit, Take, SendOk, SendFails
    <3> QED BY <3>1, <3>2, <3>3 DEF FanoutStep
  <2>4. mpc = "join" => ~ Awaited
    BY <2>0 DEF FanoutInv, FanInv, Alone, Awaited, LoopTypeOK, Options
  <2>5. mpc = "ok" => ~ Awaited
    BY <2>0 DEF Echoing
  <2> QED BY <2>0, <2>1, <2>2, <2>3, <2>4, <2>5, LoopStays DEF Empties

<1>1. CASE UNCHANGED senderVars
  <2>1. UNCHANGED <<vars, loopVars, opts, echoed, lpc>> /\ batches' = batches /\ mpc' = mpc
    BY <1>1 DEF senderVars, vars, loopVars
  <2>2. FanoutInv'
    BY <2>1, VarsKept
  <2>3. Empties /\ Echoing
    BY LoopFacts
  <2> QED BY <2>1, <2>2, <2>3, LoopStays DEF Empties, Echoing
<1>2. CASE Publish
  BY <1>2, <1>Publish
<1>3. CASE FanoutStep
  BY <1>3, <1>FanoutStep
<1>4. CASE LoopStep
  <2>1. CASE QueueOrFlush \/ LoopEnds \/ LoopGoesOn
    BY <2>1, <1>QueueOrFlush, <1>LoopEnds, <1>LoopGoesOn
  <2>2. CASE FastRead \/ FastFlush \/ FastIdle("top") \/ FastIdle("stop")
    BY <2>2, <1>FastRead, <1>FastFlush, <1>FastIdle
  <2>3. CASE SlowRead \/ SlowOverflow \/ Emitted \/ SlowLapped \/ SlowEmpty
    BY <2>3, <1>SlowRead, <1>SlowOverflow, <1>Emitted, <1>SlowLapped, <1>SlowEmpty
  <2>4. CASE SlowIdle("top") \/ SlowIdle("stop") \/ FlushLast
    BY <2>4, <1>SlowIdle, <1>FlushLast
  <2>5. CASE EchoRound \/ EchoDeadline \/ AllSent \/ GiveUp
    BY <2>5, <1>Echo, <1>AllSent, <1>GiveUp
  <2> QED BY <1>4, <2>1, <2>2, <2>3, <2>4, <2>5 DEF LoopStep, IdleEnds
<1> QED BY <1>1, <1>2, <1>3, <1>4 DEF SenderNext

----------------------------------------------------------------------------
(* The initial states *)

\* It holds when run() starts.
LEMMA SenderStarts ==
  ASSUME DataFacts, SenderInit
  PROVE  SenderInv
<1>1. /\ opts \in Options /\ batches = <<>> /\ mpc = "run" /\ at = 1
      /\ queue = [d \in Dest |-> <<>>] /\ bytes = [d \in Dest |-> 0]
      /\ done = [d \in Dest |-> FALSE] /\ failed = [d \in Dest |-> FALSE]
      /\ rejected = [d \in Dest |-> 0] /\ work = [d \in Dest |-> 0] /\ sent = [d \in Dest |-> <<>>]
      /\ wpc = [d \in Dest |-> IF opts.fan THEN "check" ELSE "exited"]
  BY DEF SenderInit, Start, All
<1>2. /\ write_index = 0 /\ read_index = 0 /\ skipped = {} /\ batch = <<>> /\ pending = <<>>
      /\ outgoing = <<>> /\ dropped = {} /\ echoed = {} /\ lpc = "top"
  BY DEF SenderInit
<1>3. <<>> \in Seq(Nat) /\ Len(<<>>) = 0 /\ Range(<<>>) = {} /\ DOMAIN <<>> = {}
  BY DEF Range
<1>4. FanoutTypeOK
  <2>1. <<>> \in Seq([frames : Nat \ {0}, members : Seq(Nat), bytes : Nat])
    OBVIOUS
  <2>2. 1 \in Dest
    BY FanoutAssumption DEF Dest
  <2>3. queue \in [Dest -> Seq(Nat)] /\ sent \in [Dest -> Seq(Nat)]
    BY <1>1, <1>3
  <2> QED BY <1>1, <2>1, <2>2, <2>3 DEF FanoutTypeOK, MainPlaces
<1>5. FanoutInv
  <2>1. CASE opts.fan
    <3>1. Walking
      BY <1>1, <2>1 DEF Walking
    <3>2. ASSUME NEW d \in Dest
          PROVE  InLine(d) /\ Leaving(d)
      <4>1. /\ queue[d] = <<>> /\ sent[d] = <<>> /\ ~ failed[d] /\ wpc[d] = "check"
        BY <1>1, <2>1
      <4>2. Presented(d) = 0 /\ Sending(d) = 0
        BY <1>1, <4>1 DEF Presented, Sending
      <4>3. InLine(d)
        BY <4>1, <4>2 DEF InLine
      <4>4. Leaving(d)
        BY <4>1 DEF Leaving
      <4> QED BY <4>3, <4>4
    <3> QED BY <1>4, <2>1, <3>1, <3>2 DEF FanoutInv, FanInv
  <2>2. CASE ~ opts.fan
    BY <1>1, <1>4, <2>2 DEF FanoutInv, Alone
  <2> QED BY <2>1, <2>2
<1>6. Flushed = <<>>
  <2>1. [n \in DOMAIN batches |-> batches[n].members] = <<>>
    BY <1>1
  <2> QED BY <2>1, Joins DEF Flushed
<1>7. OnePlace
  <2>1. Inside = <<>>
    BY <1>2, <1>6 DEF Inside
  <2>2. Cardinality({}) = 0
    BY CountNone
  <2>3. Range(Inside) \cup dropped \cup skipped = 0 .. read_index - 1
    BY <1>2, <1>3, <2>1
  <2>4. Len(Inside) + Cardinality(dropped) + Cardinality(skipped) = read_index
    BY <1>2, <1>3, <2>1, <2>2
  <2>5. \A i, j \in DOMAIN Inside : i < j => Inside[i] < Inside[j]
    BY <1>3, <2>1
  <2> QED BY <2>3, <2>4, <2>5 DEF OnePlace, Inside
<1>8. LoopTypeOK /\ read_index =< write_index
  BY <1>1, <1>2, <1>3 DEF LoopTypeOK, LoopPlaces
<1>9. Empties
  BY <1>1, <1>2 DEF Empties
<1>10. Counted
  <2>1. Taken = 0 /\ opts.count \in Nat
    <3>1. Cardinality({}) = 0
      BY CountNone
    <3>2. opts.count \in Nat
      BY <1>1, SenderAssumption, Zenon DEF Options
    <3> QED BY <1>2, <3>1, <3>2 DEF Taken
  <2> QED BY <1>2, <2>1 DEF Counted
<1>11. Echoing
  BY <1>1, <1>2 DEF Echoing
<1> QED BY <1>5, <1>7, <1>8, <1>9, <1>10, <1>11 DEF SenderInv, LoopInv

----------------------------------------------------------------------------
(* What the invariant implies *)

\* Every worker sends the batches in order.
LEMMA OrderHolds ==
  ASSUME DataFacts, SenderInv
  PROVE  SentInOrder
<1>1. FanoutInv
  BY LoopFacts
<1>2. CASE opts.fan
  BY <1>1, <1>2 DEF FanoutInv, FanInv, InLine, SentInOrder
<1>3. CASE ~ opts.fan
  <2>1. DOMAIN <<>> = {}
    OBVIOUS
  <2> QED BY <1>1, <1>3, <2>1 DEF FanoutInv, Alone, SentInOrder
<1> QED BY <1>2, <1>3

\* The exit status is true.
LEMMA ExitHolds ==
  ASSUME DataFacts, SenderInv
  PROVE  ExitIsTrue
<1>0. /\ FanoutInv /\ FanoutTypeOK /\ LoopTypeOK /\ Empties /\ Counted /\ Echoing
      /\ Flushed \in Seq(Nat) /\ Taken \in Int /\ opts.count \in Nat
  BY LoopFacts
<1>1. ASSUME Ended, ExitCode = 0
      PROVE  /\ batch = <<>> /\ pending = <<>> /\ outgoing = <<>>
             /\ opts.fan => \A d \in Dest : Len(sent[d]) = Len(batches)
             /\ opts.count # 0 => Taken = opts.count
             /\ opts.echo => echoed = Range(Flushed)
  <2>1. mpc = "ok" /\ ~ (opts.count # 0 /\ Taken < opts.count)
    BY <1>1 DEF ExitCode
  <2>2. batch = <<>> /\ pending = <<>> /\ outgoing = <<>>
    BY <1>0, <2>1 DEF Empties
  <2>3. opts.count # 0 => Taken = opts.count
    BY <1>0, <2>1 DEF Counted
  <2>4. ASSUME opts.fan, NEW d \in Dest
        PROVE  Len(sent[d]) = Len(batches)
    <3>1. Walking /\ InLine(d) /\ Leaving(d)
      BY <1>0, <2>4 DEF FanoutInv, FanInv
    <3>2. ~ failed[d] /\ wpc[d] = "exited"
      BY <2>1, <3>1 DEF Walking
    <3>3. queue[d] = <<>>
      BY <3>1, <3>2 DEF Leaving
    <3>4. Sending(d) = 0 /\ Presented(d) = Len(batches) /\ Len(queue[d]) = 0
      BY <2>1, <3>2, <3>3 DEF Sending, Presented
    <3>5. Len(sent[d]) \in Nat
      BY <1>0 DEF FanoutTypeOK
    <3>6. Len(sent[d]) + Sending(d) + Len(queue[d]) = Presented(d)
      BY <3>1, <3>2 DEF InLine
    <3> QED BY <3>4, <3>5, <3>6
  <2>5. ASSUME opts.echo
        PROVE  echoed = Range(Flushed)
    <3>1. echoed \in SUBSET Range(Flushed) /\ ~ (Cardinality(echoed) < Len(Flushed))
      BY <1>0, <2>1, <2>5 DEF Echoing, Awaited
    <3>2. /\ IsFiniteSet(Range(Flushed)) /\ Cardinality(Range(Flushed)) \in Nat
          /\ Cardinality(Range(Flushed)) =< Len(Flushed) /\ Len(Flushed) \in Nat
      BY <1>0, CountRange, CountNat
    <3>3. /\ Cardinality(echoed) \in Nat /\ Cardinality(echoed) =< Cardinality(Range(Flushed))
          /\ Cardinality(Range(Flushed)) = Cardinality(echoed) => Range(Flushed) = echoed
      BY <3>1, <3>2, CountSubset, CountNat
    <3> QED BY <3>1, <3>2, <3>3
  <2> QED BY <2>2, <2>3, <2>4, <2>5
<1>2. ASSUME mpc = "bad"
      PROVE  \E d \in Dest : rejected[d] > 0
  <2>1. opts.fan
    BY <1>0, <1>2 DEF FanoutInv, Alone
  <2>2. PICK d \in Dest : failed[d]
    BY <1>0, <1>2, <2>1 DEF FanoutInv, FanInv, Walking
  <2> QED BY <1>0, <1>2, <2>1, <2>2 DEF FanoutInv, FanInv, Leaving, Destroying
<1>3. ASSUME Ended, NEW d \in Dest
      PROVE  wpc[d] = "exited"
  BY <1>0, <1>3 DEF FanoutInv, FanInv, Walking, Alone, Ended
<1> QED BY <1>1, <1>2, <1>3 DEF ExitIsTrue

----------------------------------------------------------------------------
(* The accounts of the destinations *)

Balanced == opts.fan => Destroying \/ \A d \in Dest : Account(d)

\* What a step of the loop is to the fan-out.
LEMMA LoopStepIs ==
  ASSUME DataFacts, SenderInv, Publish \/ LoopStep
  PROVE  /\ UNCHANGED <<workerVars, opts>>
         /\ Moves \/ \E members \in Seq(Nat) : HandsOver(members)
<1>0. /\ FanoutTypeOK /\ LoopTypeOK /\ batch \in Seq(Nat) /\ outgoing \in Seq(Nat)
      /\ Flushed \in Seq(Nat)
  BY LoopFacts
<1>1. ASSUME mpc = "run", NEW datagrams \in Seq(Nat), NEW next, FlushBatch(datagrams, next)
      PROVE  Moves \/ \E members \in Seq(Nat) : HandsOver(members)
  BY <1>0, <1>1, FlushIs
<1>2. UNCHANGED vars => UNCHANGED workerVars /\ Moves
  BY DEF vars, workerVars, Moves
<1>3. UNCHANGED <<batches, mpc>> => Moves
  BY DEF Moves
<1>4. CASE Publish \/ LoopEnds \/ FastRead \/ FastIdle("top") \/ FastIdle("stop") \/ SlowRead
           \/ SlowOverflow \/ Emitted \/ SlowLapped \/ SlowEmpty \/ EchoRound
  BY <1>2, <1>4, Zenon DEF Publish, LoopEnds, FastRead, FastIdle, SlowRead, SlowOverflow, Emitted,
                    SlowLapped, SlowEmpty, EchoRound
<1>5. CASE LoopGoesOn \/ FastFlush \/ SlowIdle("top") \/ SlowIdle("stop") \/ FlushLast
  <2>1. mpc = "run" /\ UNCHANGED <<workerVars, opts>>
    BY <1>5 DEF LoopGoesOn, FastFlush, SlowIdle, FlushLast, At
  <2>2. \/ \E next \in {"read", "top", "stop", "wait"} : FlushBatch(batch, next)
        \/ UNCHANGED <<batches, mpc>>
    BY <1>5 DEF LoopGoesOn, FastFlush, SlowIdle, FlushLast
  <2> QED BY <1>0, <1>1, <1>3, <2>1, <2>2
<1>6. CASE QueueOrFlush
  <2>1. /\ mpc = "run" /\ UNCHANGED <<workerVars, opts>> /\ outgoing # <<>>
        /\ FlushBatch(Append(batch, Head(outgoing)), lpc) \/ UNCHANGED <<batches, mpc>>
    BY <1>6 DEF QueueOrFlush
  <2>2. Append(batch, Head(outgoing)) \in Seq(Nat)
    <3>1. Head(outgoing) \in Nat
      BY <1>0, <2>1
    <3> QED BY <1>0, <3>1
  <2> QED BY <1>1, <1>3, <2>1, <2>2, Zenon
<1>7. CASE EchoDeadline
  <2>1. ~ opts.fan
    BY <1>0, <1>7 DEF EchoDeadline, Awaited, LoopTypeOK, Options
  <2> QED BY <1>7, <2>1 DEF EchoDeadline, At, Moves
<1>8. CASE AllSent \/ GiveUp
  BY <1>8 DEF AllSent, GiveUp, At, Moves, loopVars
<1> QED BY <1>4, <1>5, <1>6, <1>7, <1>8 DEF LoopStep, IdleEnds

\* The accounts are balanced at the start, ...
LEMMA BalancedStarts ==
  ASSUME DataFacts, SenderInit
  PROVE  Balanced
<1>1. SUFFICES ASSUME opts.fan, NEW d \in Dest
               PROVE  Account(d)
  BY DEF Balanced
<1>2. /\ batches = <<>> /\ mpc = "run" /\ queue[d] = <<>> /\ sent[d] = <<>> /\ bytes[d] = 0
      /\ rejected[d] = 0 /\ wpc[d] = "check"
  BY <1>1 DEF SenderInit, Start, All
<1>3. Presented(d) = 0 /\ InHand(d) = 0
  BY <1>2, Zenon DEF Presented, InHand
<1>4. Upto(0) = <<>>
  BY DEF Upto
<1>5. \A v : Total(v, <<>>) = 0
  BY Sums, SumNone
<1>6. Total(FrameCounts, Upto(Presented(d))) = 0 /\ Total(FrameCounts, <<>>) = 0 /\ Total(ByteCounts, <<>>) = 0
  BY <1>3, <1>4, <1>5
<1> QED BY <1>2, <1>3, <1>6, FanoutAssumption DEF Account

\* ... every step keeps them balanced, ...
LEMMA BalancedKept ==
  ASSUME DataFacts, SenderInv, Balanced, [SenderNext]_senderVars
  PROVE  Balanced'
<1>1. FanoutInv /\ SumFacts
  BY Sums DEF SenderInv
<1>2. CASE FanoutStep
  BY <1>1, <1>2, FanoutKeeps, AccountsKept DEF Balanced
<1>3. ASSUME UNCHANGED <<workerVars, opts>>,
             Moves \/ \E members \in Seq(Nat) : HandsOver(members)
      PROVE  Balanced'
  <2>1. SUFFICES ASSUME opts.fan PROVE Balanced'
    BY <1>3 DEF Balanced
  <2>2. FanInv /\ Fed
    BY <1>1, <1>3, <2>1, LoopFeeds DEF FanoutInv
  <2> QED BY <1>1, <2>1, <2>2, AccountsKept DEF Balanced
<1>4. CASE UNCHANGED senderVars
  <2>1. UNCHANGED <<workerVars, opts>> /\ Moves
    BY <1>4 DEF senderVars, vars, loopVars, stateVars, workerVars, Moves
  <2> QED BY <1>3, <2>1
<1>5. CASE Publish \/ LoopStep
  BY <1>3, <1>5, LoopStepIs
<1> QED BY <1>2, <1>4, <1>5 DEF SenderNext

\* ... and that is what FanoutAccounted says.
LEMMA BalancedIs ==
  ASSUME DataFacts, SenderInv, Balanced
  PROVE  FanoutAccounted
<1>1. FanoutInv /\ SumFacts
  BY Sums DEF SenderInv
<1> QED BY <1>1, AccountsKept DEF FanoutInv, Balanced, FanoutAccounted

=============================================================================
