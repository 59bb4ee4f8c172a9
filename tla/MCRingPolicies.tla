--------------------------- MODULE MCRingPolicies ---------------------------
(***************************************************************************)
(* The liveness of the ring under both values of Header::backpressure,     *)
(* which attach() takes from PULSEFANOUT_RING_POLICY when it creates the   *)
(* ring: one of two instances of ShmRing over the same variables, chosen   *)
(* initially.  Nobody is killed and no deadline expires.                   *)
(*   overwrite:     two readers come and go and compete for one entry;     *)
(*   backpressure:  two readers stay, and the producer waits for one.      *)
(***************************************************************************)
EXTENDS Integers

CONSTANTS r1, r2

VARIABLES policy, seq, frame_len, frame, mutex, registry_mutex, pid, cursor,
          write_index, wpc, scan, rpc, entry, read_index, out, joined

Readers == {r1, r2}

Overwrite == INSTANCE ShmRing WITH
  Slots <- 2, MaxReaders <- 1, FromEdge <- {}, WaitReaders <- 0, Backpressure <- FALSE,
  MaxIndex <- 5, Mortal <- {}, Leaving <- Readers, Deadlines <- FALSE

Waiting == INSTANCE ShmRing WITH
  Slots <- 2, MaxReaders <- 2, FromEdge <- {}, WaitReaders <- 1, Backpressure <- TRUE,
  MaxIndex <- 4, Mortal <- {}, Leaving <- {}, Deadlines <- FALSE

vars == <<policy, Waiting!vars>>

\* A step of the chosen instance.
Chosen(overwriting, waiting) ==
  /\ UNCHANGED policy
  /\ \/ policy = "overwrite" /\ overwriting
     \/ policy = "backpressure" /\ waiting

Init == \/ policy = "overwrite" /\ Overwrite!Init
        \/ policy = "backpressure" /\ Waiting!Init

Next == Chosen(Overwrite!Next, Waiting!Next)

\* ShmRing's fairness, for the actions of the chosen instance.
Fairness ==
  /\ WF_vars(Chosen(Overwrite!Publication, Waiting!Publication))
  /\ SF_vars(Chosen(Overwrite!LockSlot, Waiting!LockSlot))
  /\ \A r \in Readers :
       /\ WF_vars(Chosen(Overwrite!Attachment(r), Waiting!Attachment(r)))
       /\ WF_vars(Chosen(Overwrite!ReadStep(r), Waiting!ReadStep(r)))
       /\ SF_vars(Chosen(Overwrite!TryLock(r), Waiting!TryLock(r)))

FairSpec == Init /\ [][Next]_vars /\ Fairness

\* A reader's index never moves back while it stays attached, so a consumer
\* never sees a publication twice: the resume index of read() is never below
\* the index that was lapped.
NeverRereads == Overwrite!NeverRereads

\* A reader that read() reports as lapped gets past the index it was at: the
\* writer it raced against seals and advances.
LappedReaderMovesOn == policy = "overwrite" => Overwrite!LappedReaderMovesOn

\* publish() never waits for readers that are waiting for it: a writer held up
\* by backpressure is released by readers that are registered, alive and
\* reading, everything gets published, and every reader reads to the end.
EverythingRead == policy = "backpressure" => Waiting!EverythingRead
=============================================================================
