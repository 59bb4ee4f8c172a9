---------------------------- MODULE MCGaussJordan ---------------------------
(* Instances of GaussJordan for TLC. *)
EXTENDS GaussJordan

\* The ends of the range of columns and of rows, and some between.
SomeColumns == {0, 1, 6, 127}
SomeParities == {0, 1, 2, 15}
SomeBytes == {{0}, {3, 6, 7}}
=============================================================================
