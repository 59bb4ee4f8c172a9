--------------------------- MODULE MCDedupeWindow ----------------------------
(* A window of three numbers over the whole range of a small integer type.  *)
EXTENDS DedupeWindow

\* Every number but the last of the type.
AllSeqs == 0 .. Width - 2
=============================================================================
