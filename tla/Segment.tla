------------------------------- MODULE Segment -------------------------------
(***************************************************************************)
(* The life of one named shared-memory segment: Segment::open, ready,      *)
(* unlink and ~Segment (harness/include/shm_segment.h) and the attachment  *)
(* of the ring in it (Ring::attach), as the producer, the receiver and the *)
(* sender's echo output create it and consumers and senders open it.       *)
(*                                                                         *)
(* The name leads to an object or to nothing; an object lives on without   *)
(* its name for those that opened it.  Every system call is a step.  The   *)
(* flock on the object is exclusive from LockEx to Ready and shared during *)
(* a reader's probe; it ends with its process, so it is read off the       *)
(* program counters.                                                       *)
(***************************************************************************)
EXTENDS Integers, FiniteSets

CONSTANTS
  Creators,   \* processes that create the segment; each also names its object
  Readers,    \* processes that open it
  Misfits,    \* the readers whose --slots may differ from the creator's
  Mortal      \* bound: the processes that may be killed

NoObject == "none"

ASSUME SegmentAssumption ==
  /\ NoObject \notin Creators
  /\ Misfits \subseteq Readers
  /\ Mortal \subseteq Creators \cup Readers

VARIABLES
  name,    \* the object that the name leads to
  stage,   \* how far each object is: empty (size 0), sized, header, whole
  cpc,     \* where each creator is
  rpc,     \* where each reader is
  fd       \* the object each reader opened

segmentVars == <<name, stage, cpc, rpc, fd>>

\* A creator that holds the exclusive lock, and one with owner_ set or about to be.
Locking == {"locked", "mapped", "header", "attached"}
Owning == Locking \cup {"created", "ready"}
CreatorPcs == Owning \cup {"start", "done", "failed", "dead"}
ReaderPcs == {"start", "poll", "probe", "mapped", "attached", "done", "failed", "dead"}
Stages == {"none", "empty", "sized", "header", "whole"}

SegmentInit ==
  /\ name = NoObject
  /\ stage = [c \in Creators |-> "none"]
  /\ cpc = [c \in Creators |-> "start"]
  /\ rpc = [r \in Readers |-> "start"]
  /\ fd = [r \in Readers |-> NoObject]

-----------------------------------------------------------------------------
(* A creator *)

CreatorStep(c, from, to) == cpc[c] = from /\ cpc' = [cpc EXCEPT ![c] = to]

\* shm_open with O_CREAT|O_EXCL.
Create(c) ==
  /\ CreatorStep(c, "start", "created")
  /\ name = NoObject
  /\ name' = c
  /\ stage' = [stage EXCEPT ![c] = "empty"]
  /\ UNCHANGED <<rpc, fd>>

\* Mutant: without O_EXCL the creator takes over an existing segment.
NameTakenOver(c) ==
  /\ CreatorStep(c, "start", "ready")
  /\ name # NoObject
  /\ UNCHANGED <<name, stage, rpc, fd>>

\* EEXIST: open throws at once, leaving the segment alone.
NameTaken(c) ==
  /\ CreatorStep(c, "start", "failed")
  /\ name # NoObject
  /\ UNCHANGED <<name, stage, rpc, fd>>

Sharing(o) == {r \in Readers : rpc[r] = "probe" /\ fd[r] = o}

\* flock(LOCK_EX|LOCK_NB), repeated until no reader probes.
LockEx(c) ==
  /\ CreatorStep(c, "created", "locked")
  /\ Sharing(c) = {}
  /\ UNCHANGED <<name, stage, rpc, fd>>

\* ftruncate and mmap.
Truncate(c) ==
  /\ CreatorStep(c, "locked", "mapped")
  /\ stage' = [stage EXCEPT ![c] = "sized"]
  /\ UNCHANGED <<name, rpc, fd>>

\* attach(..., true): the header with its magic comes first, ...
InitHeader(c) ==
  /\ CreatorStep(c, "mapped", "header")
  /\ stage' = [stage EXCEPT ![c] = "header"]
  /\ UNCHANGED <<name, rpc, fd>>

\* ... then the mutexes and the slots.
InitSlots(c) ==
  /\ CreatorStep(c, "header", "attached")
  /\ stage' = [stage EXCEPT ![c] = "whole"]
  /\ UNCHANGED <<name, rpc, fd>>

\* ready(): LOCK_UN.
Ready(c) ==
  /\ CreatorStep(c, "attached", "ready")
  /\ UNCHANGED <<name, stage, rpc, fd>>

\* Something throws before ready(): the lock's deadline, ftruncate or mmap (the
\* catch block of open), a mutex or the socket (~Segment).  All unlink the name.
SetupFails(c) ==
  /\ cpc[c] \in Locking \/ (cpc[c] = "created" /\ Sharing(c) # {})
  /\ cpc' = [cpc EXCEPT ![c] = "failed"]
  /\ name' = NoObject
  /\ UNCHANGED <<stage, rpc, fd>>

\* The program ends: unlink(), or ~Segment when it returns early or throws.
Unlink(c, status) ==
  /\ CreatorStep(c, "ready", status)
  /\ name' = NoObject
  /\ UNCHANGED <<stage, rpc, fd>>

\* The name of a killed creator's segment stays.
KillCreator(c) ==
  /\ c \in Mortal /\ cpc[c] \in Owning
  /\ cpc' = [cpc EXCEPT ![c] = "dead"]
  /\ UNCHANGED <<name, stage, rpc, fd>>

Initialise(c) == \/ Create(c) \/ NameTaken(c) \/ LockEx(c) \/ Truncate(c)
                 \/ InitHeader(c) \/ InitSlots(c)
Setup(c) == Initialise(c) \/ Ready(c)

-----------------------------------------------------------------------------
(* A reader *)

ReaderStep(r, from, to) == rpc[r] = from /\ rpc' = [rpc EXCEPT ![r] = to]

\* shm_open, repeated while there is no such name (ENOENT).
Open(r) ==
  /\ ReaderStep(r, "start", "poll")
  /\ name # NoObject
  /\ fd' = [fd EXCEPT ![r] = name]
  /\ UNCHANGED <<name, stage, cpc>>

Excluded(r) == cpc[fd[r]] \in Locking

\* Mutant: the reader does not take the lock.
ProbeUnlocked(r) ==
  /\ ReaderStep(r, "poll", "probe")
  /\ UNCHANGED <<name, stage, cpc, fd>>

\* flock(LOCK_SH|LOCK_NB).
Probe(r) ==
  /\ ReaderStep(r, "poll", "probe")
  /\ ~Excluded(r)
  /\ UNCHANGED <<name, stage, cpc, fd>>

\* st_size is 0: the creator has not come to ftruncate.  LOCK_UN, try again.
ProbeEmpty(r) ==
  /\ ReaderStep(r, "probe", "poll")
  /\ stage[fd[r]] = "empty"
  /\ UNCHANGED <<name, stage, cpc, fd>>

\* The size is that of other --slots (an option chosen where it is looked at).
SizeMismatch(r) ==
  /\ ReaderStep(r, "probe", "failed")
  /\ stage[fd[r]] # "empty" /\ r \in Misfits
  /\ UNCHANGED <<name, stage, cpc, fd>>

\* mmap and LOCK_UN.
Map(r) ==
  /\ ReaderStep(r, "probe", "mapped")
  /\ stage[fd[r]] # "empty"
  /\ UNCHANGED <<name, stage, cpc, fd>>

\* attach(..., false) finds the header and registers, ...
Attach(r) ==
  /\ ReaderStep(r, "mapped", "attached")
  /\ stage[fd[r]] \in {"header", "whole"}
  /\ UNCHANGED <<name, stage, cpc, fd>>

\* ... or throws because the metadata do not match.
AttachMismatch(r) ==
  /\ ReaderStep(r, "mapped", "failed")
  /\ stage[fd[r]] = "sized"
  /\ UNCHANGED <<name, stage, cpc, fd>>

\* open's five-second deadline, without a name or without an initialised object.
OpenDeadline(r) ==
  /\ \/ rpc[r] = "start" /\ name = NoObject
     \/ rpc[r] = "poll" /\ (Excluded(r) \/ stage[fd[r]] = "empty")
  /\ rpc' = [rpc EXCEPT ![r] = "failed"]
  /\ UNCHANGED <<name, stage, cpc, fd>>

\* The program ends: ~Ring takes its entry out of the registry.
Detach(r, status) ==
  /\ ReaderStep(r, "attached", status)
  /\ UNCHANGED <<name, stage, cpc, fd>>

KillReader(r) ==
  /\ r \in Mortal /\ rpc[r] \in {"poll", "probe", "mapped", "attached"}
  /\ rpc' = [rpc EXCEPT ![r] = "dead"]
  /\ UNCHANGED <<name, stage, cpc, fd>>

Mapping(r) == \/ Open(r) \/ Probe(r) \/ ProbeEmpty(r) \/ SizeMismatch(r) \/ Map(r)
              \/ AttachMismatch(r) \/ OpenDeadline(r)
Opening(r) == Mapping(r) \/ Attach(r)

-----------------------------------------------------------------------------
SegmentNext ==
  \/ \E c \in Creators : \/ Setup(c) \/ SetupFails(c) \/ KillCreator(c)
                         \/ \E status \in {"done", "failed"} : Unlink(c, status)
  \/ \E r \in Readers : \/ Opening(r) \/ KillReader(r)
                        \/ \E status \in {"done", "failed"} : Detach(r, status)

SegmentSpec == SegmentInit /\ [][SegmentNext]_segmentVars

-----------------------------------------------------------------------------
(* Properties *)

\* Every variable has its type.
SegmentTypeOK ==
  /\ name \in Creators \cup {NoObject}
  /\ stage \in [Creators -> Stages]
  /\ cpc \in [Creators -> CreatorPcs]
  /\ rpc \in [Readers -> ReaderPcs]
  /\ fd \in [Readers -> Creators \cup {NoObject}]

\* Names are removed by shm_unlink(name), whatever the name leads to by then.
\* Still a process only ever removes its own segment: as long as it owns one the
\* name leads to it, so there is one creator and writer at a time; and a name is
\* left behind only by a creator that was killed.
NameIsOwned ==
  /\ \A c \in Creators : cpc[c] \in Owning => name = c
  /\ name # NoObject => cpc[name] \in Owning \cup {"dead"}

\* A reader that gets past the checks of attach() uses a ring whose mutexes and
\* slots are initialised, although the magic it checks is written before them:
\* the creator keeps readers out until ready().  Only a creator that ended in
\* between leaves a partial ring.
AttachedToWhole ==
  \A r \in Readers : rpc[r] = "attached" =>
    stage[fd[r]] = "whole" \/ cpc[fd[r]] \in {"failed", "dead"}
=============================================================================
