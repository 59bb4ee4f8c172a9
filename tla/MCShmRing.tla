------------------------------ MODULE MCShmRing ------------------------------
(* Instances of the shared-memory ring for TLC.                            *)
EXTENDS ShmRing

CONSTANTS r1, r2, r3

NoReaders == {}
OneReader == {r1}
SecondReader == {r2}
AllReaders == {r1, r2, r3}
OnlyWriter == {Writer}
WriterAndOne == {Writer, r1}
=============================================================================
