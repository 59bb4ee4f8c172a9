--------------------------- MODULE SenderTheorems ----------------------------
(***************************************************************************)
(* The theorems about the sender.  The lemmas of SenderProofs take for     *)
(* granted what Tally, Total, Joined and Cardinality compute (DataFacts);  *)
(* it is proved here.  Sums and concatenations need induction, which rests *)
(* on the well-foundedness of the natural numbers: a set of naturals that  *)
(* is not empty has a least element.                                       *)
(***************************************************************************)
EXTENDS SenderProofs, FiniteSetTheorems, WellFoundedInduction

----------------------------------------------------------------------------
(* Induction *)

\* A set of natural numbers that is not empty has a least element.
LEMMA LeastElement ==
  ASSUME NEW T \in SUBSET Nat, T # {}
  PROVE  \E x \in T : \A y \in T : x =< y
<1> DEFINE R == OpToRel(<, Nat)
<1>1. IsWellFoundedOn(R, Nat)
  BY NatLessThanWellFounded, Zenon
<1>2. ASSUME NEW x \in Nat, NEW y \in Nat, y < x
      PROVE  <<y, x>> \in R
  <2>1. <<y, x>> \in Nat \X Nat /\ <<y, x>>[1] < <<y, x>>[2]
    BY <1>2
  <2> QED BY <2>1, Zenon DEF OpToRel
<1> HIDE DEF R
<1>3. PICK x \in T : \A y \in T : <<y, x>> \notin R
  BY <1>1, WFMin, Zenon
<1>4. ASSUME NEW y \in T
      PROVE  x =< y
  <2>1. x \in Nat /\ y \in Nat
    OBVIOUS
  <2>2. ~ (y < x)
    <3>1. SUFFICES ASSUME y < x PROVE FALSE
      OBVIOUS
    <3>2. <<y, x>> \in R
      BY <1>2, <2>1, <3>1
    <3> QED BY <1>3, <3>2, Zenon
  <2> QED BY <2>1, <2>2
<1> QED BY <1>4

\* Induction: a set that contains 0, and n + 1 with every n, contains every
\* natural number.
LEMMA Induction ==
  ASSUME NEW T, 0 \in T, \A n \in Nat : n \in T => n + 1 \in T
  PROVE  \A n \in Nat : n \in T
<1>1. SUFFICES ASSUME NEW m \in Nat, m \notin T PROVE FALSE
  OBVIOUS
<1>2. PICK x \in Nat \ T : \A y \in Nat \ T : x =< y
  BY <1>1, LeastElement, Zenon
<1>3. x \in Nat /\ x # 0
  OBVIOUS
<1>4. x - 1 \in Nat /\ ~ (x =< x - 1)
  BY <1>3
<1>5. x - 1 \in T
  BY <1>2, <1>4
<1>6. (x - 1) + 1 \in T
  BY <1>4, <1>5
<1> QED BY <1>3, <1>6

----------------------------------------------------------------------------
(* Sums over sequences *)

\* The equation of the function of partial sums that Tally computes.
Adds(f, n, g) == g = [i \in 0 .. n |-> IF i = 0 THEN 0 ELSE g[i - 1] + f[i]]

\* What it says of one position, which is all it says.
LEMMA AddsAt ==
  ASSUME NEW f, NEW n \in Nat, NEW g
  PROVE  Adds(f, n, g) <=>
           /\ g = [i \in 0 .. n |-> g[i]]
           /\ \A i \in 0 .. n : g[i] = IF i = 0 THEN 0 ELSE g[i - 1] + f[i]
<1> DEFINE def(j) == IF j = 0 THEN 0 ELSE g[j - 1] + f[j]
<1>1. Adds(f, n, g) <=> g = [j \in 0 .. n |-> def(j)]
  BY DEF Adds
<1>2. (\A i \in 0 .. n : g[i] = IF i = 0 THEN 0 ELSE g[i - 1] + f[i])
        <=> \A i \in 0 .. n : g[i] = def(i)
  OBVIOUS
<1> HIDE DEF def
<1> QED BY <1>1, <1>2

\* Tally is the last of the partial sums.
LEMMA TallyIs ==
  ASSUME NEW N \in {Nat, Int}, NEW n \in Nat, NEW f \in [1 .. n -> N]
  PROVE  \E g : /\ g[0] = 0 /\ \A k \in 0 .. n - 1 : g[k + 1] = g[k] + f[k + 1]
                /\ \A k \in 0 .. n : g[k] \in N
                /\ Tally(f) = g[n]
<1>1. \E g : Adds(f, n, g)
  <2> DEFINE Ind == {m \in Nat : \E g : Adds(f, m, g)}
  <2>1. 0 \in Ind
    <3>1. Adds(f, 0, [i \in 0 .. 0 |-> 0])
      <4>1. \A i \in 0 .. 0 : i = 0
        OBVIOUS
      <4> QED BY <4>1 DEF Adds
    <3> QED BY <3>1
  <2>2. ASSUME NEW m \in Nat, m \in Ind
        PROVE  m + 1 \in Ind
    <3>1. PICK g : Adds(f, m, g)
      BY <2>2
    <3> DEFINE h == [i \in 0 .. m + 1 |-> IF i = 0 THEN 0 ELSE g[i - 1] + f[i]]
    <3>2. \A i \in 0 .. m : h[i] = g[i]
      <4>1. \A i \in 0 .. m : g[i] = IF i = 0 THEN 0 ELSE g[i - 1] + f[i]
        BY <3>1, AddsAt
      <4>2. \A i \in 0 .. m : i \in 0 .. m + 1
        OBVIOUS
      <4> QED BY <4>1, <4>2, Zenon
    <3>3. h = [i \in 0 .. m + 1 |-> h[i]]
      OBVIOUS
    <3>4. ASSUME NEW i \in 0 .. m + 1
          PROVE  h[i] = IF i = 0 THEN 0 ELSE h[i - 1] + f[i]
      <4>1. i # 0 => i - 1 \in 0 .. m
        OBVIOUS
      <4> QED BY <3>2, <4>1, Zenon
    <3> HIDE DEF h
    <3>5. m + 1 \in Nat
      OBVIOUS
    <3> QED BY <3>3, <3>4, <3>5, AddsAt, Zenon
  <2> HIDE DEF Ind
  <2>3. n \in Ind
    BY <2>1, <2>2, Induction, Zenon
  <2> QED BY <2>3 DEF Ind
<1> DEFINE g == CHOOSE h : Adds(f, n, h)
<1>2. Adds(f, n, g)
  BY <1>1
<1>3. Len(f) = n
  OBVIOUS
<1>4. Tally(f) = g[n]
  BY <1>3 DEF Tally, Adds
<1> HIDE DEF g
<1>5. \A i \in 0 .. n : g[i] = IF i = 0 THEN 0 ELSE g[i - 1] + f[i]
  BY <1>2, AddsAt
<1>6. g[0] = 0 /\ \A k \in 0 .. n - 1 : g[k + 1] = g[k] + f[k + 1]
  <2>1. ASSUME NEW k \in 0 .. n - 1
        PROVE  g[k + 1] = g[k] + f[k + 1]
    <3>1. k + 1 \in 0 .. n /\ k + 1 # 0 /\ (k + 1) - 1 = k
      OBVIOUS
    <3> QED BY <1>5, <3>1
  <2>2. 0 \in 0 .. n
    OBVIOUS
  <2> QED BY <1>5, <2>1, <2>2
<1>7. \A k \in 0 .. n : g[k] \in N
  <2> DEFINE Ind == {m \in Nat : m =< n => g[m] \in N}
  <2>1. 0 \in Ind
    BY <1>6
  <2>2. ASSUME NEW m \in Nat, m \in Ind
        PROVE  m + 1 \in Ind
    <3>1. SUFFICES ASSUME m + 1 =< n PROVE g[m + 1] \in N
      OBVIOUS
    <3>2. m \in 0 .. n - 1 /\ m =< n /\ m + 1 \in 1 .. n
      BY <3>1
    <3>3. g[m] \in N /\ f[m + 1] \in N /\ g[m + 1] = g[m] + f[m + 1]
      BY <1>6, <2>2, <3>2
    <3> QED BY <3>3
  <2> HIDE DEF Ind
  <2>3. \A m \in Nat : m \in Ind
    BY <2>1, <2>2, Induction, Zenon
  <2> QED BY <2>3 DEF Ind
<1> QED BY <1>4, <1>6, <1>7

\* The sum of a sequence of integers, or of natural numbers, is one.
LEMMA TallyType ==
  ASSUME NEW N \in {Nat, Int}, NEW n \in Nat, NEW f \in [1 .. n -> N]
  PROVE  Tally(f) \in N
<1>1. n \in 0 .. n
  OBVIOUS
<1> QED BY <1>1, TallyIs

\* A sequence of no element has the sum 0.
LEMMA TallyNone ==
  ASSUME NEW f \in [1 .. 0 -> Int]
  PROVE  Tally(f) = 0
BY TallyIs, ZenonT(40)

\* The last element adds its value, ...
LEMMA TallyLast ==
  ASSUME NEW n \in Nat, NEW f \in [1 .. n + 1 -> Int], NEW g \in [1 .. n -> Int],
         \A i \in 1 .. n : g[i] = f[i]
  PROVE  Tally(f) = Tally(g) + f[n + 1]
<1>0. PICK m \in Nat : m = n + 1 /\ n \in 0 .. m - 1 /\ n \in 0 .. n
  OBVIOUS
<1>1. PICK p : /\ p[0] = 0 /\ \A k \in 0 .. m - 1 : p[k + 1] = p[k] + f[k + 1]
               /\ \A k \in 0 .. m : p[k] \in Int
               /\ Tally(f) = p[m]
  <2>1. f \in [1 .. m -> Int]
    BY <1>0
  <2> QED BY <2>1, TallyIs, Zenon
<1>2. PICK q : /\ q[0] = 0 /\ \A k \in 0 .. n - 1 : q[k + 1] = q[k] + g[k + 1]
               /\ Tally(g) = q[n]
  BY TallyIs, ZenonT(40)
<1> DEFINE Ind == {k \in Nat : k =< n => p[k] = q[k]}
<1>3. 0 \in Ind
  BY <1>1, <1>2
<1>4. ASSUME NEW k \in Nat, k \in Ind
      PROVE  k + 1 \in Ind
  <2>1. SUFFICES ASSUME k + 1 =< n PROVE p[k + 1] = q[k + 1]
    OBVIOUS
  <2>2. k =< n /\ k \in 0 .. n - 1 /\ k \in 0 .. m - 1 /\ k + 1 \in 1 .. n
    BY <1>0, <2>1
  <2>3. p[k] = q[k] /\ f[k + 1] = g[k + 1]
    BY <1>4, <2>2
  <2> QED BY <1>1, <1>2, <2>2, <2>3
<1> HIDE DEF Ind
<1>5. n \in Ind
  BY <1>3, <1>4, Induction, Zenon
<1>6. p[n] = q[n]
  BY <1>0, <1>5 DEF Ind
<1> QED BY <1>0, <1>1, <1>2, <1>6

\* ... and so does the first one.
LEMMA TallyFirst ==
  ASSUME NEW n \in Nat, NEW f \in [1 .. n + 1 -> Int], NEW g \in [1 .. n -> Int],
         \A i \in 1 .. n : g[i] = f[i + 1]
  PROVE  Tally(f) = f[1] + Tally(g)
<1>0. PICK m \in Nat : m = n + 1 /\ n \in 0 .. m - 1 /\ n \in 0 .. n
  OBVIOUS
<1>1. PICK p : /\ p[0] = 0 /\ \A k \in 0 .. m - 1 : p[k + 1] = p[k] + f[k + 1]
               /\ \A k \in 0 .. m : p[k] \in Int
               /\ Tally(f) = p[m]
  <2>1. f \in [1 .. m -> Int]
    BY <1>0
  <2> QED BY <2>1, TallyIs, Zenon
<1>2. PICK q : /\ q[0] = 0 /\ \A k \in 0 .. n - 1 : q[k + 1] = q[k] + g[k + 1]
               /\ \A k \in 0 .. n : q[k] \in Int
               /\ Tally(g) = q[n]
  BY TallyIs, Zenon
<1> DEFINE Ind == {k \in Nat : k =< n => p[k + 1] = f[1] + q[k]}
<1>3. 0 \in Ind
  <2>1. f[1] \in Int /\ 0 \in 0 .. m - 1 /\ 0 + 1 = 1
    BY <1>0
  <2>2. p[0 + 1] = p[0] + f[0 + 1]
    BY <1>1, <2>1
  <2> QED BY <1>1, <1>2, <2>1, <2>2
<1>4. ASSUME NEW k \in Nat, k \in Ind
      PROVE  k + 1 \in Ind
  <2>1. SUFFICES ASSUME k + 1 =< n PROVE p[(k + 1) + 1] = f[1] + q[k + 1]
    OBVIOUS
  <2>2. /\ k =< n /\ k \in 0 .. n /\ k \in 0 .. n - 1 /\ k + 1 \in 0 .. m - 1
        /\ k + 1 \in 1 .. n /\ 1 \in 1 .. n + 1 /\ (k + 1) + 1 \in 1 .. n + 1
    BY <1>0, <2>1
  <2>3. p[k + 1] = f[1] + q[k] /\ g[k + 1] = f[(k + 1) + 1]
    BY <1>4, <2>2
  <2>4. p[(k + 1) + 1] = p[k + 1] + f[(k + 1) + 1] /\ q[k + 1] = q[k] + g[k + 1]
    BY <1>1, <1>2, <2>2
  <2>5. q[k] \in Int /\ f[1] \in Int /\ g[k + 1] \in Int
    BY <1>2, <2>2
  <2> QED BY <2>3, <2>4, <2>5
<1> HIDE DEF Ind
<1>5. n \in Ind
  BY <1>3, <1>4, Induction, Zenon
<1>6. p[n + 1] = f[1] + q[n]
  BY <1>0, <1>5 DEF Ind
<1> QED BY <1>0, <1>1, <1>2, <1>6

----------------------------------------------------------------------------
(* Concatenations *)

\* The equation of the function that joins the first sequences of ss.
Chains(ss, n, g) == g = [i \in 0 .. n |-> IF i = 0 THEN <<>> ELSE g[i - 1] \o ss[i]]

\* No sequences are joined to the empty one, sequences over S to one over S, and a
\* further sequence follows what was joined before it.
LEMMA JoinedFacts ==
  /\ Joined(<<>>) = <<>>
  /\ \A S : \A ss \in Seq(Seq(S)) : Joined(ss) \in Seq(S)
  /\ \A S : \A ss \in Seq(Seq(S)), t \in Seq(S) : Joined(Append(ss, t)) = Joined(ss) \o t
\* What it says of one position, which is all it says.
<1>ChainsAt. ASSUME NEW ss, NEW n \in Nat, NEW g
      PROVE  Chains(ss, n, g) <=>
               /\ g = [i \in 0 .. n |-> g[i]]
               /\ \A i \in 0 .. n : g[i] = IF i = 0 THEN <<>> ELSE g[i - 1] \o ss[i]
  <2> USE <1>ChainsAt
  <2> DEFINE def(j) == IF j = 0 THEN <<>> ELSE g[j - 1] \o ss[j]
  <2>1. Chains(ss, n, g) <=> g = [j \in 0 .. n |-> def(j)]
    BY DEF Chains
  <2>2. (\A i \in 0 .. n : g[i] = IF i = 0 THEN <<>> ELSE g[i - 1] \o ss[i])
          <=> \A i \in 0 .. n : g[i] = def(i)
    OBVIOUS
  <2> HIDE DEF def
  <2> QED BY <2>1, <2>2

\* Where the function starts, and how it goes on.
<1>ChainsEach. ASSUME NEW ss, NEW n \in Nat, NEW g, Chains(ss, n, g)
      PROVE  g[0] = <<>> /\ \A k \in Nat : k + 1 =< n => g[k + 1] = g[k] \o ss[k + 1]
  <2> USE <1>ChainsEach
  <2>1. \A i \in 0 .. n : g[i] = IF i = 0 THEN <<>> ELSE g[i - 1] \o ss[i]
    <3> DEFINE def(j) == IF j = 0 THEN <<>> ELSE g[j - 1] \o ss[j]
    <3>1. g = [j \in 0 .. n |-> def(j)]
      BY DEF Chains
    <3>2. \A i \in 0 .. n : g[i] = def(i)
      <4> HIDE DEF def
      <4> QED BY <3>1, Zenon
    <3> QED BY <3>2, Zenon
  <2>2. 0 \in 0 .. n
    OBVIOUS
  <2>3. ASSUME NEW k \in Nat, k + 1 =< n
        PROVE  g[k + 1] = g[k] \o ss[k + 1]
    <3>1. PICK i \in 0 .. n : i = k + 1 /\ i - 1 = k /\ i # 0
      BY <2>3
    <3>2. g[i] = g[i - 1] \o ss[i]
      BY <2>1, <3>1, Zenon
    <3> QED BY <3>1, <3>2, Zenon
  <2> QED BY <2>1, <2>2, <2>3, Zenon

\* It has a solution.
<1>ChainsExists. ASSUME NEW ss, NEW n \in Nat
      PROVE  \E g : Chains(ss, n, g)
  <2> USE <1>ChainsExists
  <2> DEFINE Ind == {m \in Nat : \E g : Chains(ss, m, g)}
  <2>1. 0 \in Ind
    <3>1. Chains(ss, 0, [i \in 0 .. 0 |-> <<>>])
      <4>1. \A i \in 0 .. 0 : i = 0
        OBVIOUS
      <4> QED BY <4>1 DEF Chains
    <3> QED BY <3>1
  <2>2. ASSUME NEW m \in Nat, m \in Ind
        PROVE  m + 1 \in Ind
    <3>1. PICK g : Chains(ss, m, g)
      BY <2>2
    <3> DEFINE h == [i \in 0 .. m + 1 |-> IF i = 0 THEN <<>> ELSE g[i - 1] \o ss[i]]
    <3>2. \A i \in 0 .. m : h[i] = g[i]
      BY <3>1, <1>ChainsAt
    <3>3. h = [i \in 0 .. m + 1 |-> h[i]]
      OBVIOUS
    <3>4. ASSUME NEW i \in 0 .. m + 1
          PROVE  h[i] = IF i = 0 THEN <<>> ELSE h[i - 1] \o ss[i]
      <4>1. i # 0 => i - 1 \in 0 .. m
        OBVIOUS
      <4> QED BY <3>2, <4>1, Zenon
    <3> HIDE DEF h
    <3>5. Chains(ss, m + 1, h)
      <4>1. m + 1 \in Nat
        OBVIOUS
      <4> QED BY <3>3, <3>4, <4>1, <1>ChainsAt, Zenon
    <3> QED BY <3>5
  <2> HIDE DEF Ind
  <2>3. n \in Ind
    BY <2>1, <2>2, Induction
  <2> QED BY <2>3 DEF Ind

\* It depends on the sequences joined so far.
<1>ChainsAgree.
      ASSUME NEW ss, NEW m \in Nat, NEW g, Chains(ss, m, g),
             NEW tt, NEW n \in Nat, NEW h, Chains(tt, n, h),
             m =< n, \A i \in 1 .. m : ss[i] = tt[i]
      PROVE  \A i \in 0 .. m : g[i] = h[i]
  <2> USE <1>ChainsAgree
  <2> DEFINE Ind == {k \in Nat : k =< m => g[k] = h[k]}
  <2>1. 0 \in Ind
    <3>2. g[0] = <<>> /\ h[0] = <<>>
      BY <1>ChainsEach, Zenon
    <3> QED BY <3>2
  <2>2. ASSUME NEW k \in Nat, k \in Ind
        PROVE  k + 1 \in Ind
    <3>1. SUFFICES ASSUME k + 1 =< m PROVE g[k + 1] = h[k + 1]
      OBVIOUS
    <3>2. k + 1 =< n /\ k + 1 \in 1 .. m
      BY <3>1
    <3>3. g[k + 1] = g[k] \o ss[k + 1]
      BY <3>1, <1>ChainsEach, ZenonT(40)
    <3>4. h[k + 1] = h[k] \o tt[k + 1]
      BY <3>2, <1>ChainsEach, ZenonT(40)
    <3>5. g[k] = h[k]
      BY <2>2, <3>1
    <3> QED BY <3>2, <3>3, <3>4, <3>5, Zenon
  <2> HIDE DEF Ind
  <2>3. \A k \in Nat : k \in Ind
    BY <2>1, <2>2, Induction
  <2>4. \A k \in 0 .. m : k \in Nat /\ k =< m
    OBVIOUS
  <2> QED BY <2>3, <2>4 DEF Ind

\* Joining sequences over S gives sequences over S.
<1>ChainsType.
      ASSUME NEW S, NEW n \in Nat, NEW ss, \A i \in 1 .. n : ss[i] \in Seq(S),
             NEW g, Chains(ss, n, g)
      PROVE  \A i \in 0 .. n : g[i] \in Seq(S)
  <2> USE <1>ChainsType
  <2> DEFINE Ind == {k \in Nat : k =< n => g[k] \in Seq(S)}
  <2>1. 0 \in Ind
    <3>1. <<>> \in Seq(S)
      OBVIOUS
    <3>2. g[0] = <<>>
      BY <1>ChainsEach, Zenon
    <3> QED BY <3>1, <3>2, Zenon
  <2>2. ASSUME NEW k \in Nat, k \in Ind
        PROVE  k + 1 \in Ind
    <3>1. SUFFICES ASSUME k + 1 =< n PROVE g[k + 1] \in Seq(S)
      OBVIOUS
    <3>2. k + 1 \in 1 .. n
      BY <3>1
    <3>3. g[k + 1] = g[k] \o ss[k + 1]
      BY <3>1, <1>ChainsEach, Zenon
    <3>4. g[k] \in Seq(S) /\ ss[k + 1] \in Seq(S)
      BY <2>2, <3>1, <3>2
    <3> QED BY <3>3, <3>4
  <2> HIDE DEF Ind
  <2>3. \A k \in Nat : k \in Ind
    BY <2>1, <2>2, Induction
  <2>4. \A k \in 0 .. n : k \in Nat /\ k =< n
    OBVIOUS
  <2> QED BY <2>3, <2>4 DEF Ind

\* Joined is the last value of the function that joins one sequence after another.
<1>JoinedIs. ASSUME NEW ss, Len(ss) \in Nat
      PROVE  \E g : Chains(ss, Len(ss), g) /\ Joined(ss) = g[Len(ss)]
  <2> USE <1>JoinedIs
  <2> DEFINE g == CHOOSE h : Chains(ss, Len(ss), h)
  <2>1. Chains(ss, Len(ss), g)
    BY <1>ChainsExists
  <2>2. Joined(ss) = g[Len(ss)]
    BY DEF Joined, Chains
  <2> QED BY <2>1, <2>2, Zenon

\* Sequences over S are joined to one over S ...
<1>JoinedType. ASSUME NEW S, NEW ss \in Seq(Seq(S))
      PROVE  Joined(ss) \in Seq(S)
  <2> USE <1>JoinedType
  <2>1. PICK n \in Nat : n = Len(ss)
    OBVIOUS
  <2>2. PICK g : Chains(ss, n, g) /\ Joined(ss) = g[n]
    BY <2>1, <1>JoinedIs
  <2>3. \A i \in 1 .. n : ss[i] \in Seq(S)
    BY <2>1
  <2>4. \A i \in 0 .. n : g[i] \in Seq(S)
    BY <2>2, <2>3, <1>ChainsType
  <2> QED BY <2>2, <2>4

\* ... and a further sequence follows what was joined before it.
<1>JoinedAppend. ASSUME NEW S, NEW ss \in Seq(Seq(S)), NEW t \in Seq(S)
      PROVE  Joined(Append(ss, t)) = Joined(ss) \o t
  <2> USE <1>JoinedAppend
  <2> DEFINE tt == Append(ss, t)
  <2>1. PICK n \in Nat, k \in Nat : n = Len(ss) /\ k = n + 1
    OBVIOUS
  <2>2. /\ tt \in Seq(Seq(S)) /\ Len(tt) = k
        /\ \A i \in 1 .. n : ss[i] = tt[i]
        /\ tt[k] = t
    BY <2>1
  <2> HIDE DEF tt
  <2>3. PICK g : Chains(ss, n, g) /\ Joined(ss) = g[n]
    BY <2>1, <1>JoinedIs
  <2>4. PICK h : Chains(tt, k, h) /\ Joined(tt) = h[k]
    BY <2>2, <1>JoinedIs
  <2>5. n =< k /\ n \in 0 .. n
    BY <2>1
  <2>6. g[n] = h[n]
    <3>1. Chains(ss, n, g) /\ Chains(tt, k, h) /\ \A i \in 1 .. n : ss[i] = tt[i]
      BY <2>2, <2>3, <2>4
    <3>2. \A i \in 0 .. n : g[i] = h[i]
      BY <2>5, <3>1, <1>ChainsAgree
    <3> QED BY <2>5, <3>2
  <2>7. h[k] = h[n] \o tt[k]
    <3>1. Chains(tt, k, h) /\ n + 1 =< k
      BY <2>1, <2>4
    <3>2. h[n + 1] = h[n] \o tt[n + 1]
      BY <3>1, <1>ChainsEach, Zenon
    <3> QED BY <2>1, <3>2
  <2> QED BY <2>2, <2>3, <2>4, <2>6, <2>7 DEF tt

\* No sequences are joined to the empty one.
<1>JoinedNone. Joined(<<>>) = <<>>
  <2>1. Len(<<>>) = 0
    OBVIOUS
  <2>2. PICK g : Chains(<<>>, 0, g) /\ Joined(<<>>) = g[0]
    BY <2>1, <1>JoinedIs
  <2> QED BY <2>2, <1>ChainsEach, Zenon

<1> QED BY <1>JoinedType, <1>JoinedAppend, <1>JoinedNone

----------------------------------------------------------------------------
(* Sums of the values of numbered items *)

\* No items add up to nothing.
LEMMA TotalNone ==
  ASSUME NEW v
  PROVE  Total(v, <<>>) = 0
<1>1. [i \in DOMAIN <<>> |-> v[<<>>[i]]] \in [1 .. 0 -> Int]
  OBVIOUS
<1> QED BY <1>1, TallyNone, Zenon DEF Total

\* The sum of natural numbers is one.
LEMMA TotalType ==
  ASSUME NEW N \in Nat, NEW v \in [1 .. N -> Nat], NEW n \in Nat, NEW x \in [1 .. n -> 1 .. N]
  PROVE  Total(v, x) \in Nat
<1>1. [i \in DOMAIN x |-> v[x[i]]] \in [1 .. n -> Nat]
  OBVIOUS
<1> QED BY <1>1, TallyType, Zenon DEF Total

\* One more at the end, ...
LEMMA TotalLast ==
  ASSUME NEW N \in Nat, NEW v \in [1 .. N -> Nat], NEW n \in Nat, NEW x \in [1 .. n -> 1 .. N],
         NEW y \in [1 .. n + 1 -> 1 .. N], \A i \in 1 .. n : y[i] = x[i]
  PROVE  Total(v, y) = Total(v, x) + v[y[n + 1]]
<1> DEFINE f == [i \in DOMAIN y |-> v[y[i]]]
           g == [i \in DOMAIN x |-> v[x[i]]]
<1>1. f \in [1 .. n + 1 -> Int] /\ g \in [1 .. n -> Int]
  BY SMTT(30)
<1>2. \A i \in 1 .. n : g[i] = f[i]
  OBVIOUS
<1>3. f[n + 1] = v[y[n + 1]]
  OBVIOUS
<1>4. Total(v, y) = Tally(f) /\ Total(v, x) = Tally(g)
  BY DEF Total
<1> HIDE DEF f, g
<1>5. Tally(f) = Tally(g) + f[n + 1]
  BY <1>1, <1>2, TallyLast, Zenon
<1> QED BY <1>3, <1>4, <1>5

\* ... or at the front.
LEMMA TotalFirst ==
  ASSUME NEW N \in Nat, NEW v \in [1 .. N -> Nat], NEW n \in Nat, NEW x \in [1 .. n -> 1 .. N],
         NEW y \in [1 .. n + 1 -> 1 .. N], \A i \in 1 .. n : x[i] = y[i + 1]
  PROVE  Total(v, y) = v[y[1]] + Total(v, x)
<1> DEFINE f == [i \in DOMAIN y |-> v[y[i]]]
           g == [i \in DOMAIN x |-> v[x[i]]]
<1>1. f \in [1 .. n + 1 -> Int] /\ g \in [1 .. n -> Int]
  <2>1. \A i \in 1 .. n + 1 : v[y[i]] \in Int
    OBVIOUS
  <2>2. \A i \in 1 .. n : v[x[i]] \in Int
    BY SMTT(30)
  <2>3. DOMAIN y = 1 .. n + 1 /\ DOMAIN x = 1 .. n
    OBVIOUS
  <2> QED BY <2>1, <2>2, <2>3, Zenon
<1>2. \A i \in 1 .. n : g[i] = f[i + 1]
  <2>1. ASSUME NEW i \in 1 .. n
        PROVE  i \in DOMAIN x /\ i + 1 \in DOMAIN y /\ x[i] = y[i + 1]
    OBVIOUS
  <2> QED BY <2>1, Zenon
<1>3. f[1] = v[y[1]]
  OBVIOUS
<1>4. Total(v, y) = Tally(f) /\ Total(v, x) = Tally(g)
  BY DEF Total
<1> HIDE DEF f, g
<1>5. Tally(f) = f[1] + Tally(g)
  BY <1>1, <1>2, TallyFirst, Zenon
<1> QED BY <1>3, <1>4, <1>5

\* The sums after Append, ...
LEMMA TotalAppend ==
  ASSUME NEW N \in Nat, NEW v \in [1 .. N -> Nat], NEW n \in Nat, NEW x \in [1 .. n -> 1 .. N],
         NEW k \in 1 .. N
  PROVE  Total(v, Append(x, k)) = Total(v, x) + v[k]
<1>0. PICK y : y = Append(x, k)
  BY Zenon
<1>1. x \in Seq(1 .. N) /\ Len(x) = n
  OBVIOUS
<1>2. /\ Len(y) = n + 1 /\ y \in Seq(1 .. N) /\ y[n + 1] = k
      /\ \A i \in 1 .. n : y[i] = x[i]
  <2>1. PICK S : S = 1 .. N
    OBVIOUS
  <2>2. x \in Seq(S) /\ k \in S
    BY <1>1, <2>1
  <2>3. /\ Append(x, k) \in Seq(S) /\ Len(Append(x, k)) = Len(x) + 1
        /\ \A i \in 1 .. Len(x) : Append(x, k)[i] = x[i]
        /\ Append(x, k)[Len(x) + 1] = k
    BY <2>2
  <2> QED BY <1>0, <1>1, <2>1, <2>3
<1>3. y \in [1 .. n + 1 -> 1 .. N]
  <2>1. y \in [1 .. Len(y) -> 1 .. N]
    BY <1>2, Positions, Zenon
  <2> QED BY <1>2, <2>1
<1>4. Total(v, y) = Total(v, x) + v[y[n + 1]]
  BY <1>2, <1>3, TotalLast, Zenon
<1> QED BY <1>0, <1>2, <1>4

\* ... before Tail, ...
LEMMA TotalTail ==
  ASSUME NEW N \in Nat, NEW v \in [1 .. N -> Nat], NEW x \in Seq(1 .. N), x # <<>>
  PROVE  Total(v, x) = v[Head(x)] + Total(v, Tail(x))
<1>1. PICK n \in Nat : Len(x) = n + 1
  <2>1. Len(x) \in Nat /\ Len(x) # 0
    OBVIOUS
  <2>2. Len(x) - 1 \in Nat /\ Len(x) = (Len(x) - 1) + 1
    BY <2>1
  <2> QED BY <2>2, Zenon
<1>2. PICK y : y = Tail(x)
  BY Zenon
<1>3. /\ y \in Seq(1 .. N) /\ Len(y) = n /\ Head(x) = x[1]
      /\ \A i \in 1 .. n : y[i] = x[i + 1]
  BY <1>1, <1>2
<1>4. x \in [1 .. n + 1 -> 1 .. N] /\ y \in [1 .. n -> 1 .. N]
  <2>1. x \in [1 .. Len(x) -> 1 .. N] /\ y \in [1 .. Len(y) -> 1 .. N]
    BY <1>3, Positions, Zenon
  <2> QED BY <1>1, <1>3, <2>1, Zenon
<1>5. Total(v, x) = v[x[1]] + Total(v, y)
  BY <1>3, <1>4, TotalFirst, Zenon
<1> QED BY <1>2, <1>3, <1>5

\* ... and of the first m numbers.
LEMMA TotalUpto ==
  ASSUME NEW N \in Nat, NEW v \in [1 .. N -> Nat], NEW n \in Nat, NEW m \in 1 .. N, m = n + 1
  PROVE  /\ Total(v, [k \in 1 .. m |-> k]) = Total(v, [k \in 1 .. n |-> k]) + v[m]
         /\ Total(v, [k \in 1 .. n |-> k]) \in Nat
<1>1. PICK y : y = [k \in 1 .. m |-> k]
  BY Zenon
<1>2. PICK x : x = [k \in 1 .. n |-> k]
  BY Zenon
<1>3. y \in [1 .. n + 1 -> 1 .. N] /\ x \in [1 .. n -> 1 .. N] /\ y[n + 1] = m
      /\ \A i \in 1 .. n : y[i] = x[i]
  BY <1>1, <1>2
<1>4. Total(v, y) = Total(v, x) + v[y[n + 1]]
  BY <1>3, TotalLast, Zenon
<1>5. Total(v, x) \in Nat
  BY <1>3, TotalType, Zenon
<1> QED BY <1>1, <1>2, <1>3, <1>4, <1>5

----------------------------------------------------------------------------
(* Cardinalities *)

\* A sequence has no more elements than positions.
LEMMA ToSetBound ==
  ASSUME NEW s \in Seq(Nat)
  PROVE  IsFiniteSet(Range(s)) /\ Cardinality(Range(s)) =< Len(s)
<1>1. Len(s) \in Nat /\ DOMAIN s = 1 .. Len(s) /\ s \in [1 .. Len(s) -> Nat]
  OBVIOUS
<1>2. s \in Surjection(1 .. Len(s), Range(s))
  BY <1>1 DEF Surjection, Range
<1>3. IsFiniteSet(1 .. Len(s)) /\ Cardinality(1 .. Len(s)) = Len(s)
  <2>1. \A n \in Nat : IsFiniteSet(1 .. n) /\ Cardinality(1 .. n) = n
    BY FS_Interval
  <2> QED BY <1>1, <2>1
<1> QED BY <1>2, <1>3, FS_Surjection

\* What the proofs about the sender take for granted of sums, ...
LEMMA SumFactsHold == SumFacts
<1>1. \A n \in Nat : \A values \in [1 .. n -> Nat] : Tally(values) \in Nat
  BY TallyType, Zenon
<1>2. \A v : Total(v, <<>>) = 0
  BY TotalNone, Zenon
<1>3. ASSUME NEW N \in Nat, NEW v \in [1 .. N -> Nat]
      PROVE  /\ \A n \in Nat : \A x \in [1 .. n -> 1 .. N] :
                  /\ Total(v, x) \in Nat
                  /\ \A k \in 1 .. N : Total(v, Append(x, k)) = Total(v, x) + v[k]
             /\ \A x \in Seq(1 .. N) : x # <<>> => Total(v, x) = v[Head(x)] + Total(v, Tail(x))
             /\ \A n \in Nat, m \in 1 .. N : m = n + 1 =>
                  Total(v, Upto(m)) = Total(v, Upto(n)) + v[m] /\ Total(v, Upto(n)) \in Nat
  <2>1. ASSUME NEW n \in Nat, NEW x \in [1 .. n -> 1 .. N]
        PROVE  /\ Total(v, x) \in Nat
               /\ \A k \in 1 .. N : Total(v, Append(x, k)) = Total(v, x) + v[k]
    BY TotalType, TotalAppend, Zenon
  <2>2. ASSUME NEW x \in Seq(1 .. N), x # <<>>
        PROVE  Total(v, x) = v[Head(x)] + Total(v, Tail(x))
    BY <2>2, TotalTail, Zenon
  <2>3. ASSUME NEW n \in Nat, NEW m \in 1 .. N, m = n + 1
        PROVE  Total(v, Upto(m)) = Total(v, Upto(n)) + v[m] /\ Total(v, Upto(n)) \in Nat
    BY <2>3, TotalUpto, ZenonT(40) DEF Upto
  <2> QED BY <2>1, <2>2, <2>3, Zenon
<1> QED BY <1>1, <1>2, <1>3, Zenon DEF SumFacts

\* ... of cardinalities, ...
LEMMA CountFactsHold == CountFacts
<1>1. Cardinality({}) = 0
  BY FS_EmptySet
<1>2. ASSUME NEW a \in Int, NEW b \in Int
      PROVE  IsFiniteSet(a .. b) /\ Cardinality(a .. b) = IF a > b THEN 0 ELSE b - a + 1
  BY FS_Interval, Zenon
<1>3. ASSUME NEW S, IsFiniteSet(S)
      PROVE  Cardinality(S) \in Nat
  BY <1>3, FS_CardinalityType
<1>4. ASSUME NEW S, NEW T \in SUBSET S, IsFiniteSet(S)
      PROVE  /\ IsFiniteSet(T) /\ Cardinality(T) =< Cardinality(S)
             /\ Cardinality(S) = Cardinality(T) => S = T
  BY <1>4, FS_Subset, Zenon
<1>5. ASSUME NEW S, NEW T, IsFiniteSet(S), IsFiniteSet(T), S \cap T = {}
      PROVE  Cardinality(S \cup T) = Cardinality(S) + Cardinality(T)
  <2>1. Cardinality(S \cup T) = Cardinality(S) + Cardinality(T) - Cardinality(S \cap T)
    BY <1>5, FS_Union, Zenon
  <2>2. Cardinality(S \cap T) = 0
    BY <1>1, <1>5
  <2>3. Cardinality(S) \in Nat /\ Cardinality(T) \in Nat
    BY <1>3, <1>5
  <2> QED BY <2>1, <2>2, <2>3
<1>6. ASSUME NEW S, NEW x, IsFiniteSet(S), x \notin S
      PROVE  Cardinality(S \cup {x}) = Cardinality(S) + 1
  BY <1>6, FS_AddElement
<1>7. ASSUME NEW s \in Seq(Nat)
      PROVE  IsFiniteSet(Range(s)) /\ Cardinality(Range(s)) =< Len(s)
  BY ToSetBound, Zenon
<1> QED BY <1>1, <1>2, <1>3, <1>4, <1>5, <1>6, <1>7, Zenon DEF CountFacts

\* ... and of both with concatenations.
LEMMA DataFactsHold == DataFacts
<1>1. JoinFacts
  BY JoinedFacts, Zenon DEF JoinFacts
<1> QED BY <1>1, SumFactsHold, CountFactsHold DEF DataFacts

----------------------------------------------------------------------------
(* Theorems *)

\* The inductive invariant of the loop and the fan-out holds in every state.
LEMMA SenderInvariant == SenderSpec => []SenderInv
<1>1. SenderInit => SenderInv
  BY DataFactsHold, SenderStarts
<1>2. SenderInv /\ [SenderNext]_senderVars => SenderInv'
  BY DataFactsHold, SenderSteps
<1> QED BY <1>1, <1>2, PTL DEF SenderSpec

\* Every worker sends the batches that enqueue gave it in order and without a gap,
\* whatever overflows, fails or hangs at the other destinations.
THEOREM SendsInOrder == SenderSpec => []SentInOrder
<1>1. SenderInv => SentInOrder
  BY DataFactsHold, OrderHolds
<1> QED BY <1>1, SenderInvariant, PTL

\* Every frame that run() took from the ring is in exactly one place, and leaves
\* in order unless the impairment reorders it.
THEOREM EveryFrameInOnePlace == SenderSpec => []OnePlace
<1>1. SenderInv => OnePlace
  BY DEF SenderInv, LoopInv
<1> QED BY <1>1, SenderInvariant, PTL

\* The exit status of run() tells the truth: with 0 everything taken was sent to
\* every destination, the count was met and, on a network that repeats nothing,
\* every echo came back; with a destination blamed, frames were rejected there; and
\* no worker is left.
THEOREM ExitStatusIsTrue == SenderSpec => []ExitIsTrue
<1>1. SenderInv => ExitIsTrue
  BY DataFactsHold, ExitHolds
<1> QED BY <1>1, SenderInvariant, PTL

\* No frame is lost unaccounted between the loop and the sockets, whatever
\* overflows or fails in whichever order: what enqueue presented to a destination
\* was sent, is queued, is being sent or is in the counter that finish() reports;
\* and no queue exceeds --queue-bytes.
THEOREM EveryFrameAccounted == SenderSpec => []FanoutAccounted
<1>1. SenderInit => Balanced
  BY DataFactsHold, BalancedStarts
<1>2. SenderInv /\ Balanced /\ [SenderNext]_senderVars => Balanced'
  BY DataFactsHold, BalancedKept
<1>3. SenderInv /\ Balanced => FanoutAccounted
  BY DataFactsHold, BalancedIs
<1> QED BY <1>1, <1>2, <1>3, SenderInvariant, PTL DEF SenderSpec

=============================================================================
