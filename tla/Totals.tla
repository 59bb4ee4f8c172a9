------------------------------- MODULE Totals --------------------------------
(***************************************************************************)
(* What a loop over a sequence adds up, or puts together, element by       *)
(* element.                                                                *)
(***************************************************************************)
EXTENDS Integers, Sequences

\* The values of a sequence, added up one after the other.
Tally(values) ==
  LET upto[n \in 0 .. Len(values)] == IF n = 0 THEN 0 ELSE upto[n - 1] + values[n]
  IN  upto[Len(values)]

\* The values v of the numbers in sequence x, added up.
Total(v, x) == Tally([i \in DOMAIN x |-> v[x[i]]])

\* The sequences ss, one after the other.
Joined(ss) ==
  LET upto[n \in 0 .. Len(ss)] == IF n = 0 THEN <<>> ELSE upto[n - 1] \o ss[n]
  IN  upto[Len(ss)]

==============================================================================
