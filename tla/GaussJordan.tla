----------------------------- MODULE GaussJordan ----------------------------
(***************************************************************************)
(* The algebra of fec.h: GF(256) arithmetic, the parity coefficients, and  *)
(* the elimination by which Decoder::try_recover() gets missing shards     *)
(* back, one step per column.  A shard is one byte: the bytes of a shard   *)
(* are treated alike and independently of each other.                      *)
(***************************************************************************)
EXTENDS Integers, FiniteSets, Sequences, FiniteSetsExt, SequencesExt

CONSTANTS
  Columns,     \* shard indexes of the generation that are tried as missing
  Parities,    \* parity rows that are tried
  Bytes,       \* contents of a shard
  MaxMissing   \* bound: missing shards

ASSUME AlgebraAssumption ==
  /\ Columns \subseteq 0..127 /\ Parities \subseteq 0..15
  /\ Bytes \subseteq SUBSET (0..7) /\ MaxMissing \in Nat \ {0}

VARIABLES
  shard,    \* contents of the generation, by column
  absent,   \* columns of the missing shards, ascending
  rows,     \* parity rows used, ascending
  matrix, rhs, c,
  result    \* "running", "singular" (return false) or "solved"

vars == <<shard, absent, rows, matrix, rhs, c, result>>

\* A byte is the set of its one bits: a polynomial over GF(2).
Bits(n) == {i \in 0..7 : (n \div 2^i) % 2 = 1}
Xor(a, b) == SymDiff(a, b)

\* a<<=1, reduced by 0x1d if the high bit was set.
Double(a) ==
  Xor({i + 1 : i \in a \ {7}}, IF 7 \in a THEN Bits(29) ELSE {})

\* The loop over the bits of b: after i rounds a is a * x^i.
mul(a, b) ==
  LET round[i \in 0..8] ==
        IF i = 0 THEN [out |-> {}, a |-> a]
        ELSE LET r == round[i - 1]
             IN  [out |-> IF i - 1 \in b THEN Xor(r.out, r.a) ELSE r.out, a |-> Double(r.a)]
  IN  round[8].out

\* The loop over the bits of the exponent 254.
inverse(a) ==
  LET round[i \in 0..8] ==
        IF i = 0 THEN [out |-> {0}, a |-> a]
        ELSE LET r == round[i - 1]
             IN  [out |-> IF i - 1 \in Bits(254) THEN mul(r.out, r.a) ELSE r.out,
                  a |-> mul(r.a, r.a)]
  IN  round[8].out

\* Mutant: the columns are not normalised.
coefficientPlain(row, col) == inverse(Xor(Bits(col), Bits(128 + row)))

coefficient(row, col) ==
  mul(Xor(Bits(col), Bits(128)), inverse(Xor(Bits(col), Bits(128 + row))))

Coefficient == [row \in Parities, col \in Columns |-> coefficient(row, col)]

XorOver(S, f(_)) == {i \in 0..7 : Cardinality({x \in S : i \in f(x)}) % 2 = 1}

\* Encoder::close(): the byte of a parity row; row zero is a plain XOR.
ParityByte(row) ==
  IF row = 0 THEN XorOver(Columns, LAMBDA col : shard[col])
             ELSE XorOver(Columns, LAMBDA col : mul(Coefficient[row, col], shard[col]))

\* Mutant: the shards that have arrived are not taken out.
ReducedByNothing(row) == ParityByte(row)

\* The parity byte without the shards that have arrived.
Reduced(row) ==
  Xor(ParityByte(row),
      XorOver(Columns \ Range(absent), LAMBDA col : mul(Coefficient[row, col], shard[col])))

Ascending(S) == SetToSortSeq(S, <)

Init ==
  /\ shard \in [Columns -> Bytes]
  /\ \E A \in SUBSET Columns, R \in SUBSET Parities :
       /\ Cardinality(A) = Cardinality(R) /\ Cardinality(A) \in 1..MaxMissing
       /\ absent = Ascending(A) /\ rows = Ascending(R)
  /\ matrix = [r \in 1..Len(rows) |-> [x \in 1..Len(rows) |-> Coefficient[rows[r], absent[x]]]]
  /\ rhs = [r \in 1..Len(rows) |-> Reduced(rows[r])]
  /\ c = 1 /\ result = "running"

Size == 1..Len(rows)
Pivots == {r \in Size : r >= c /\ matrix[r][c] # {}}

Swapped(s, i, j) == [s EXCEPT ![i] = s[j], ![j] = s[i]]

\* One round of the loop: exchange, scale, and clear column c elsewhere.
Eliminate ==
  /\ result = "running" /\ c <= Len(rows) /\ Pivots # {}
  /\ LET m == Swapped(matrix, Min(Pivots), c)
         v == Swapped(rhs, Min(Pivots), c)
         scale == inverse(m[c][c])
         line == [j \in Size |-> mul(m[c][j], scale)]
         value == mul(v[c], scale)
     IN  /\ matrix' = [r \in Size |-> IF r = c THEN line
                         ELSE [j \in Size |-> Xor(m[r][j], mul(m[r][c], line[j]))]]
         /\ rhs' = [r \in Size |-> IF r = c THEN value
                      ELSE Xor(v[r], mul(m[r][c], value))]
  /\ c' = c + 1
  /\ UNCHANGED <<shard, absent, rows, result>>

\* No pivot is left in the column, or all columns are done.
Stop ==
  /\ result = "running"
  /\ result' = IF c > Len(rows) THEN "solved" ELSE "singular"
  /\ c > Len(rows) \/ Pivots = {}
  /\ UNCHANGED <<shard, absent, rows, matrix, rhs, c>>

Next == Eliminate \/ Stop

Spec == Init /\ [][Next]_vars

-----------------------------------------------------------------------------
(* Properties. *)

\* Every round keeps the missing shards a solution of the system, so that the
\* parity of the encoder and the coefficients of the decoder agree and no row
\* operation is applied to one side only.
ShardsSolveSystem ==
  \A r \in Size :
    XorOver(Size, LAMBDA j : mul(matrix[r][j], shard[absent[j]])) = rhs[r]

\* Any choice of parity rows determines any choice of as many missing shards:
\* try_recover() never fails for want of a pivot, and when its loop ends row r
\* holds the shard of the r-th missing index.
RecoversShards ==
  /\ result # "singular"
  /\ result = "solved" => \A r \in Size : rhs[r] = shard[absent[r]]
=============================================================================
