---------------------------- MODULE ShmRingProofs ----------------------------
(***************************************************************************)
(* Proofs about the shared-memory ring, for every number of slots, readers *)
(* and registry entries, with and without backpressure, whoever is killed. *)
(***************************************************************************)
EXTENDS ShmRing, Residues

USE RingAssumption

\* Every index has a slot (`index & mask_`).
LEMMA SlotOfType == \A i \in Nat : SlotOf(i) \in SlotIds
  BY Division DEF SlotOf, SlotIds

\* Two indices of one slot are at least a turn of the ring apart.
LEMMA SlotsApart ==
  ASSUME NEW a \in Nat, NEW b \in Nat, b < a, SlotOf(a) = SlotOf(b)
  PROVE  b + Slots <= a
<1>1. a % Slots = b % Slots
  BY DEF SlotOf
<1>2. a \in Int /\ b \in Int /\ Slots \in Nat \ {0}
  OBVIOUS
<1> QED
  BY Zenon, <1>1, <1>2, SamePositionApart

\* The index one turn earlier belongs to the same slot.
LEMMA SlotOfTurn == \A i \in Nat : SlotOf(i - Slots) = SlotOf(i)
<1> TAKE i \in Nat
<1>1. i \in Int /\ Slots \in Nat \ {0}
  OBVIOUS
<1> QED
  BY Zenon, <1>1, SamePositionTurn DEF SlotOf

\* The locals of the backpressure loop, built from their parts.
LEMMA ScanType ==
  \A n \in 1 .. MaxReaders + 1 : \A a, b \in BOOLEAN : [at |-> n, any |-> a, blocked |-> b] \in Scans
  BY DEF Scans

-----------------------------------------------------------------------------
(* Types.                                                                  *)

\* The variables keep their types, and the registry is never indexed outside
\* its kMaxReaders entries.
THEOREM TypeCorrect == Spec => []TypeOK
<1>1. Init => TypeOK
  BY DEF Init, TypeOK, SlotTypes, RegistryTypes, WriterTypes, ReaderTypes,
         Scans, FreshScan, Halves, Entries, WriterPcs, ReaderPcs, Writer, None
<1>2. TypeOK /\ [Next]_vars => TypeOK'
  <2> SUFFICES ASSUME SlotTypes, RegistryTypes, WriterTypes, ReaderTypes, [Next]_vars
               PROVE  TypeOK'
    BY DEF TypeOK
  <2>s. ASSUME UNCHANGED <<slotVars, mutex>> PROVE SlotTypes'
    BY <2>s DEF slotVars, SlotTypes
  <2>g. ASSUME UNCHANGED registryVars PROVE RegistryTypes'
    BY <2>g DEF registryVars, RegistryTypes
  <2>w. ASSUME UNCHANGED writerVars PROVE WriterTypes'
    BY <2>w DEF writerVars, WriterTypes
  <2>r. ASSUME UNCHANGED readerVars PROVE ReaderTypes'
    BY <2>r DEF readerVars, ReaderTypes
  <2>i. SlotOf(write_index) \in SlotIds /\ \A r \in Readers : SlotOf(read_index[r]) \in SlotIds
    BY SlotOfType DEF WriterTypes, ReaderTypes
  <2>1. CASE UNCHANGED vars
    BY <2>1, <2>s, <2>g, <2>w, <2>r DEF vars, TypeOK
  <2>2. CASE Publication \/ Deadline \/ KillWriter
    <3> USE DEF Publication, Goto
    <3>1. WriterTypes'
      <4>1. CASE WaitForReaders \/ Deadline \/ KillWriter
        BY <4>1 DEF WaitForReaders, Deadline, KillWriter, WriterTypes, WriterPcs
      <4>6. CASE Publish
        BY <4>6 DEF Publish, WriterTypes, WriterPcs
      <4>2. CASE ScanPid
        <5>1. scan.at \in Entries /\ scan.any \in BOOLEAN /\ scan.blocked \in BOOLEAN
          BY <4>2 DEF ScanPid, WriterTypes, Scans
        <5>2. scan.at \in 1 .. MaxReaders + 1 /\ scan.at + 1 \in 1 .. MaxReaders + 1
          BY <5>1 DEF Entries
        <5>3. scan' \in Scans
          BY Zenon, <4>2, <5>1, <5>2, ScanType DEF ScanPid
        <5> QED
          BY <4>2, <5>1, <5>3 DEF ScanPid, WriterTypes, WriterPcs
      <4>3. CASE ScanCursor
        <5>1. scan.at \in Entries /\ scan.any \in BOOLEAN
          BY <4>3 DEF ScanCursor, WriterTypes, Scans
        <5>2. scan.at + 1 \in 1 .. MaxReaders + 1
          BY <5>1 DEF Entries
        <5>3. scan' \in Scans
          BY Zenon, <4>3, <5>1, <5>2, ScanType DEF ScanCursor
        <5> QED
          BY <4>3, <5>3 DEF ScanCursor, WriterTypes, WriterPcs
      <4>4. CASE ScanPassed \/ ScanBlocked
        <5>1. FreshScan \in Scans
          <6>1. 1 \in 1 .. MaxReaders + 1
            OBVIOUS
          <6> QED
            BY Zenon, <6>1, ScanType DEF FreshScan
        <5> QED
          BY <4>4, <5>1 DEF ScanPassed, ScanBlocked, WriterTypes, WriterPcs
      <4>5. CASE LockSlot \/ Invalidate \/ CopyInLo \/ CopyInHi \/ StoreLength \/ Seal \/ Advance
        BY <4>5 DEF LockSlot, Invalidate, CopyInLo, CopyInHi, StoreLength, Seal, Advance,
                    WriterTypes, WriterPcs
      <4> QED
        BY <2>2, <4>1, <4>2, <4>3, <4>4, <4>5, <4>6
    <3>2. SlotTypes'
      <4>1. CASE UNCHANGED <<slotVars, mutex>>
        BY <4>1, <2>s
      <4>2. CASE LockSlot \/ Advance
        BY <4>2, <2>i DEF LockSlot, Advance, SlotTypes, slotVars
      <4>3. CASE Invalidate \/ StoreLength
        BY <4>3, <2>i DEF Invalidate, StoreLength, SlotTypes, slotVars
      <4>4. CASE Seal
        BY <4>4, <2>i DEF Seal, SlotTypes, WriterTypes
      <4>5. CASE CopyInLo
        BY <4>5, <2>i DEF CopyInLo, SlotTypes, WriterTypes, Halves
      <4>6. CASE CopyInHi
        BY <4>6, <2>i DEF CopyInHi, SlotTypes, WriterTypes, Halves
      <4> QED
        BY <2>2, <4>1, <4>2, <4>3, <4>4, <4>5, <4>6 DEF WaitForReaders, Publish, ScanPid, ScanCursor,
           ScanPassed, ScanBlocked, Deadline, KillWriter
    <3>3. UNCHANGED <<registryVars, readerVars>>
      BY <2>2 DEF WaitForReaders, Publish, ScanPid, ScanCursor, ScanPassed, ScanBlocked, LockSlot,
                  Invalidate, CopyInLo, CopyInHi, StoreLength, Seal, Advance, Deadline, KillWriter
    <3> QED
      BY <3>1, <3>2, <3>3, <2>g, <2>r DEF TypeOK
  <2>3. ASSUME NEW r \in Readers, Attachment(r) \/ Detach(r) \/ KillReader(r) PROVE TypeOK'
    <3> USE DEF Attachment, Step
    <3>1. UNCHANGED <<slotVars, mutex, writerVars>>
      BY <2>3 DEF LockRegistry, StoreCursor, StorePid, RegistryFull, StartIndex, Detach, KillReader
    <3>2. RegistryTypes' /\ ReaderTypes'
      <4> USE DEF RegistryTypes, ReaderTypes
      <4>1. CASE LockRegistry(r) \/ RegistryFull(r) \/ KillReader(r)
        BY <4>1 DEF LockRegistry, RegistryFull, KillReader, registryVars, ReaderPcs
      <4>2. CASE StoreCursor(r)
        <5>1. PICK e \in Entries : /\ entry' = [entry EXCEPT ![r] = e]
                                  /\ cursor' = [cursor EXCEPT ![e] = 0]
          BY <4>2, Zenon DEF StoreCursor, FreeEntries
        <5> QED
          BY <4>2, <5>1 DEF StoreCursor, ReaderPcs, Entries
      <4>3. CASE StorePid(r)
        BY <4>3, Zenon DEF StorePid, WriterTypes, ReaderPcs
      <4>4. CASE StartIndex(r)
        BY <4>4 DEF StartIndex, WriterTypes, registryVars, ReaderPcs
      <4>5. CASE Detach(r)
        <5>1. rpc' \in [Readers -> ReaderPcs] /\ entry' \in [Readers -> 0 .. MaxReaders]
          BY <4>5 DEF Detach, ReaderPcs
        <5>2. /\ read_index' \in [Readers -> Nat] /\ joined' \in [Readers -> Nat]
              /\ out' \in [Readers -> Halves]
          BY <4>5 DEF Detach, Halves
        <5> QED
          BY <4>5, <5>1, <5>2, Zenon DEF Detach
      <4> QED
        BY <2>3, <4>1, <4>2, <4>3, <4>4, <4>5
    <3> QED
      BY <3>1, <3>2, <2>s, <2>w DEF TypeOK
  <2>4. ASSUME NEW r \in Readers, TryLock(r) \/ ReadStep(r) PROVE TypeOK'
    <3> USE DEF ReadStep, Step
    <3>1. UNCHANGED <<slotVars, registry_mutex, pid, writerVars>>
      BY <2>4 DEF TryLock, Check, Resume, CopyOutLo, CopyOutHi, Commit, registryVars
    <3>2. SlotTypes'
      BY <2>4, <3>1, <2>i DEF TryLock, Check, Resume, CopyOutLo, CopyOutHi, Commit, slotVars, SlotTypes
    <3>3. RegistryTypes'
      BY <2>4, <3>1 DEF TryLock, Check, Resume, CopyOutLo, CopyOutHi, Commit, registryVars,
                        RegistryTypes, ReaderTypes
    <3>4. ReaderTypes'
      <4>1. CASE TryLock(r)
        BY <4>1 DEF TryLock, ReaderTypes, ReaderPcs
      <4>2. CASE Check(r)
        <5>1. Verdict(SlotOf(read_index[r]), read_index[r]) \in ReaderPcs
          BY DEF Verdict, ReaderPcs
        <5> QED
          BY <4>2, <5>1 DEF Check, ReaderTypes
      <4>3. CASE Resume(r)
        <5>1. ResumeIndex \in Nat
          BY DEF ResumeIndex, WriterTypes
        <5> QED
          BY <4>3, <5>1 DEF Resume, ReaderTypes, ReaderPcs
      <4>4. CASE CopyOutLo(r)
        BY <4>4, <2>i DEF CopyOutLo, ReaderTypes, SlotTypes, ReaderPcs, Halves
      <4>5. CASE CopyOutHi(r)
        BY <4>5, <2>i DEF CopyOutHi, ReaderTypes, SlotTypes, ReaderPcs, Halves
      <4>6. CASE Commit(r)
        BY <4>6 DEF Commit, ReaderTypes, ReaderPcs
      <4> QED
        BY <2>4, <4>1, <4>2, <4>3, <4>4, <4>5, <4>6
    <3> QED
      BY <3>1, <3>2, <3>3, <3>4, <2>w DEF TypeOK
  <2> QED
    BY <2>1, <2>2, <2>3, <2>4 DEF Next
<1> QED
  BY <1>1, <1>2, PTL DEF Spec

-----------------------------------------------------------------------------
(* Mutual exclusion on the slots.                                          *)

\* Whoever works on a slot owns its mutex.
MutexInv ==
  /\ wpc \in Filling => mutex[SlotOf(write_index)] = Writer
  /\ \A r \in Readers : rpc[r] \in Reading => mutex[SlotOf(read_index[r])] = r

\* A mutex is only ever taken from nobody or from a dead owner (trylock and
\* EOWNERDEAD), so its owner keeps it until it unlocks or dies.
LEMMA MutexInvariant == Spec => []MutexInv
<1>1. Init => MutexInv
  BY DEF Init, MutexInv, Filling, Reading
<1>2. TypeOK /\ MutexInv /\ [Next]_vars => MutexInv'
  <2> SUFFICES ASSUME TypeOK, MutexInv, [Next]_vars PROVE MutexInv'
    OBVIOUS
  <2>t. /\ write_index \in Nat
        /\ mutex \in [SlotIds -> Readers \cup {Writer, None}]
        /\ rpc \in [Readers -> ReaderPcs]
        /\ read_index \in [Readers -> Nat]
    BY DEF TypeOK, SlotTypes, WriterTypes, ReaderTypes
  <2>i. SlotOf(write_index) \in SlotIds /\ \A r \in Readers : SlotOf(read_index[r]) \in SlotIds
    BY SlotOfType, <2>t
  <2>k. /\ wpc \in Filling => ~Lockable(mutex[SlotOf(write_index)])
        /\ \A r \in Readers : rpc[r] \in Reading => ~Lockable(mutex[SlotOf(read_index[r])])
    BY DEF MutexInv, Lockable, Killed, Filling, Reading, Writer, None
  <2>1. CASE UNCHANGED vars
    BY <2>1 DEF vars, writerVars, readerVars, MutexInv
  <2>2. CASE WaitForReaders \/ Publish \/ ScanPid \/ ScanCursor \/ ScanPassed \/ ScanBlocked
             \/ Deadline \/ KillWriter
    BY <2>2 DEF WaitForReaders, Publish, ScanPid, ScanCursor, ScanPassed, ScanBlocked, Deadline,
                KillWriter, Goto, readerVars, MutexInv, Filling
  <2>3. CASE LockSlot
    BY <2>3, <2>t, <2>i, <2>k DEF LockSlot, Goto, readerVars, MutexInv, Filling
  <2>4. CASE Invalidate \/ CopyInLo \/ CopyInHi \/ StoreLength \/ Seal
    BY <2>4 DEF Invalidate, CopyInLo, CopyInHi, StoreLength, Seal, Goto, readerVars,
                MutexInv, Filling
  <2>5. CASE Advance
    BY <2>5, <2>t, <2>i DEF Advance, Goto, readerVars, MutexInv, Filling, Writer
  <2>6. ASSUME NEW r \in Readers, Attachment(r) \/ Detach(r) \/ KillReader(r) PROVE MutexInv'
    <3>1. /\ UNCHANGED <<mutex, write_index, wpc>>
          /\ rpc'[r] \notin Reading
          /\ \A q \in Readers \ {r} : rpc'[q] = rpc[q] /\ read_index'[q] = read_index[q]
      BY <2>6, <2>t DEF Attachment, LockRegistry, StoreCursor, StorePid, RegistryFull, StartIndex,
         Detach, KillReader, Step, writerVars, Reading
    <3> QED
      BY <3>1 DEF MutexInv
  <2>7. ASSUME NEW r \in Readers, TryLock(r) PROVE MutexInv'
    BY <2>7, <2>t, <2>i, <2>k DEF TryLock, Step, writerVars, MutexInv
  <2>8. ASSUME NEW r \in Readers, CopyOutLo(r) \/ CopyOutHi(r) PROVE MutexInv'
    BY <2>8, <2>t DEF CopyOutLo, CopyOutHi, Step, writerVars, MutexInv, Reading
  <2>9. ASSUME NEW r \in Readers, Check(r) \/ Resume(r) \/ Commit(r) PROVE MutexInv'
    <3>1. rpc[r] \in Reading /\ mutex[SlotOf(read_index[r])] = r
      BY <2>9 DEF Check, Resume, Commit, Step, MutexInv, Reading
    <3>2. \/ rpc'[r] \in Reading /\ mutex' = mutex /\ read_index'[r] = read_index[r]
          \/ rpc'[r] \notin Reading /\ mutex' = [mutex EXCEPT ![SlotOf(read_index[r])] = None]
      BY <2>9, <2>t DEF Check, Resume, Commit, Step, Reading
    <3>3. \A q \in Readers \ {r} : rpc'[q] = rpc[q] /\ read_index'[q] = read_index[q]
      BY <2>9, <2>t DEF Check, Resume, Commit, Step
    <3>4. UNCHANGED <<write_index, wpc>>
      BY <2>9 DEF Check, Resume, Commit, writerVars
    <3> QED
      BY <3>1, <3>2, <3>3, <3>4, <2>t, <2>i DEF MutexInv
  <2> QED
    BY <2>1, <2>2, <2>3, <2>4, <2>5, <2>6, <2>7, <2>8, <2>9
       DEF Next, Publication, ReadStep
<1> QED
  BY <1>1, <1>2, TypeCorrect, PTL DEF Spec

-----------------------------------------------------------------------------
(* Whole frames.                                                           *)

\* A sealed slot holds one whole frame; the slot being filled is not sealed
\* until both halves and the length are in.
SlotInv ==
  /\ \A s \in SlotIds :
       seq[s] # 0 => frame_len[s] = 1 /\ frame[s] = [lo |-> seq[s], hi |-> seq[s]]
  /\ wpc \in {"copyLo", "copyHi", "length", "seal"} => seq[SlotOf(write_index)] = 0
  /\ wpc \in {"copyHi", "length", "seal"} => frame[SlotOf(write_index)].lo = write_index + 1
  /\ wpc \in {"length", "seal"} => frame[SlotOf(write_index)].hi = write_index + 1
  /\ wpc = "seal" => frame_len[SlotOf(write_index)] = 1

\* What a reader has copied so far belongs to the index it asked for, a lapped
\* reader holds a slot that was reused, and a reader starts with index 0.
CopyInv ==
  \A r \in Readers :
    /\ rpc[r] \in {"out", "register", "enrol", "start"} => read_index[r] = 0
    /\ rpc[r] = "resume" => seq[SlotOf(read_index[r])] > read_index[r] + 1
    /\ rpc[r] \in {"copyLo", "copyHi", "commit"} =>
         seq[SlotOf(read_index[r])] = read_index[r] + 1
    /\ rpc[r] \in {"copyHi", "commit"} => out[r].lo = read_index[r] + 1
    /\ rpc[r] = "commit" => out[r].hi = read_index[r] + 1
    /\ rpc[r] # "corrupt"

\* publish() keeps the slots well formed: it invalidates before it copies and
\* seals last, and nobody else stores to a slot.
LEMMA SlotInvariant == Spec => []SlotInv
<1>1. Init => SlotInv
  BY DEF Init, SlotInv
<1>2. TypeOK /\ SlotInv /\ [Next]_vars => SlotInv'
  <2> SUFFICES ASSUME TypeOK, SlotInv, [Next]_vars PROVE SlotInv'
    OBVIOUS
  <2>t. /\ write_index \in Nat
        /\ seq \in [SlotIds -> Nat]
        /\ frame_len \in [SlotIds -> {0, 1}]
        /\ frame \in [SlotIds -> Halves]
    BY DEF TypeOK, SlotTypes, WriterTypes
  <2>i. SlotOf(write_index) \in SlotIds
    BY SlotOfType, <2>t
  <2>1. CASE UNCHANGED <<slotVars, write_index>> /\ (wpc' = wpc \/ wpc' \notin Filling \/ LockSlot)
    BY <2>1 DEF slotVars, SlotInv, LockSlot, Goto, Filling
  <2>2. CASE Invalidate
    BY <2>2, <2>t, <2>i DEF Invalidate, Goto, SlotInv
  <2>3. CASE CopyInLo
    BY <2>3, <2>t, <2>i DEF CopyInLo, Goto, SlotInv, Halves
  <2>4. CASE CopyInHi
    BY <2>4, <2>t, <2>i DEF CopyInHi, Goto, SlotInv, Halves
  <2>5. CASE StoreLength
    BY <2>5, <2>t, <2>i DEF StoreLength, Goto, SlotInv
  <2>6. CASE Seal
    <3>1. frame[SlotOf(write_index)] = [lo |-> write_index + 1, hi |-> write_index + 1]
      BY <2>6, <2>t, <2>i DEF Seal, Goto, SlotInv, Halves
    <3> QED
      BY <2>6, <3>1, <2>t, <2>i DEF Seal, Goto, SlotInv
  <2>7. CASE Advance
    BY <2>7 DEF Advance, Goto, slotVars, SlotInv
  <2>8. CASE WaitForReaders \/ Publish \/ ScanPid \/ ScanCursor \/ ScanPassed \/ ScanBlocked
             \/ Deadline \/ KillWriter \/ LockSlot
    BY <2>8, <2>1 DEF WaitForReaders, Publish, ScanPid, ScanCursor, ScanPassed, ScanBlocked,
       Deadline, KillWriter, LockSlot, Goto, Filling
  <2>9. ASSUME NEW r \in Readers,
               Attachment(r) \/ TryLock(r) \/ ReadStep(r) \/ Detach(r) \/ KillReader(r)
        PROVE  UNCHANGED <<slotVars, writerVars>>
    BY <2>9 DEF Attachment, LockRegistry, StoreCursor, StorePid, RegistryFull, StartIndex, TryLock,
       ReadStep, Check, Resume, CopyOutLo, CopyOutHi, Commit, Detach, KillReader
  <2> QED
    BY <2>1, <2>2, <2>3, <2>4, <2>5, <2>6, <2>7, <2>8, <2>9 DEF Next, Publication, vars, writerVars
<1> QED
  BY <1>1, <1>2, TypeCorrect, PTL DEF Spec

\* A slot that a reader holds does not change under it.
LEMMA CopyInvariant == Spec => []CopyInv
<1>1. Init => CopyInv
  BY DEF Init, CopyInv
<1>2. TypeOK /\ MutexInv /\ SlotInv /\ CopyInv /\ [Next]_vars => CopyInv'
  <2> SUFFICES ASSUME TypeOK, MutexInv, SlotInv, CopyInv, [Next]_vars PROVE CopyInv'
    OBVIOUS
  <2>t. /\ write_index \in Nat
        /\ seq \in [SlotIds -> Nat]
        /\ rpc \in [Readers -> ReaderPcs]
        /\ read_index \in [Readers -> Nat]
        /\ out \in [Readers -> Halves]
    BY DEF TypeOK, SlotTypes, WriterTypes, ReaderTypes
  <2>i. SlotOf(write_index) \in SlotIds /\ \A r \in Readers : SlotOf(read_index[r]) \in SlotIds
    BY SlotOfType, <2>t
  <2>1. CASE UNCHANGED <<seq, readerVars>>
    BY <2>1 DEF readerVars, CopyInv
  <2>2. CASE Invalidate \/ Seal
    <3>1. \A r \in Readers : rpc[r] \in Reading => SlotOf(read_index[r]) # SlotOf(write_index)
      BY <2>2 DEF Invalidate, Seal, Goto, MutexInv, Filling, Writer
    <3> QED
      BY <2>2, <3>1, <2>t, <2>i DEF Invalidate, Seal, readerVars, CopyInv, Reading
  <2>3. ASSUME NEW r \in Readers,
               Attachment(r) \/ TryLock(r) \/ Resume(r) \/ Commit(r) \/ Detach(r) \/ KillReader(r)
        PROVE  CopyInv'
    <3>1. /\ rpc'[r] \notin {"resume", "copyLo", "copyHi", "commit", "corrupt"}
          /\ seq' = seq
          /\ \A q \in Readers \ {r} :
               rpc'[q] = rpc[q] /\ read_index'[q] = read_index[q] /\ out'[q] = out[q]
          /\ rpc'[r] \in {"out", "register", "enrol", "start"} => read_index'[r] = 0
      <4>0. rpc[r] \in {"out", "register", "enrol", "start"} => read_index[r] = 0
        BY DEF CopyInv
      <4>1. CASE LockRegistry(r) \/ StoreCursor(r) \/ StorePid(r) \/ RegistryFull(r)
        BY <4>0, <4>1, <2>t DEF LockRegistry, StoreCursor, StorePid, RegistryFull, Step, slotVars
      <4>2. CASE StartIndex(r) \/ TryLock(r)
        BY <4>2, <2>t DEF StartIndex, TryLock, Step, slotVars
      <4>3. CASE Resume(r) \/ Commit(r)
        BY <4>3, <2>t DEF Resume, Commit, Step, slotVars
      <4>4. CASE Detach(r) \/ KillReader(r)
        BY <4>4, <2>t DEF Detach, KillReader, Step, slotVars
      <4> QED
        BY <2>3, <4>1, <4>2, <4>3, <4>4 DEF Attachment
    <3> QED
      BY <3>1 DEF CopyInv
  <2>4. ASSUME NEW r \in Readers, Check(r) PROVE CopyInv'
    <3> DEFINE verdict == Verdict(SlotOf(read_index[r]), read_index[r])
    <3>1. rpc' = [rpc EXCEPT ![r] = verdict] /\ UNCHANGED <<seq, read_index, out>>
      BY <2>4 DEF Check, Step, slotVars
    <3>2. verdict \notin {"copyHi", "commit", "corrupt"}
      <4>1. ~(seq[SlotOf(read_index[r])] = read_index[r] + 1 /\ frame_len[SlotOf(read_index[r])] = 0)
        <5>1. read_index[r] \in Nat /\ SlotOf(read_index[r]) \in SlotIds
          BY <2>t, <2>i
        <5>2. seq[SlotOf(read_index[r])] # 0 => frame_len[SlotOf(read_index[r])] = 1
          BY <5>1, Zenon DEF SlotInv
        <5> QED
          BY <5>1, <5>2
      <4> QED
        BY Zenon, <4>1 DEF Verdict
    <3>3. verdict = "copyLo" => seq[SlotOf(read_index[r])] = read_index[r] + 1
      BY <2>t, <2>i DEF Verdict
    <3>4. verdict = "resume" => seq[SlotOf(read_index[r])] > read_index[r] + 1
      BY Zenon DEF Verdict
    <3>5. verdict \notin {"out", "register", "enrol", "start"}
      BY Zenon DEF Verdict
    <3> HIDE DEF verdict
    <3> QED
      BY <3>1, <3>2, <3>3, <3>4, <3>5, <2>t DEF CopyInv
  <2>5. ASSUME NEW r \in Readers, CopyOutLo(r) \/ CopyOutHi(r) PROVE CopyInv'
    <3>1. frame[SlotOf(read_index[r])] = [lo |-> read_index[r] + 1, hi |-> read_index[r] + 1]
      BY <2>5, <2>t, <2>i DEF CopyOutLo, CopyOutHi, Step, CopyInv, SlotInv
    <3>2. CASE CopyOutLo(r)
      BY <3>1, <3>2, <2>t DEF CopyOutLo, Step, CopyInv, slotVars, Halves
    <3>3. CASE CopyOutHi(r)
      BY <3>1, <3>3, <2>t DEF CopyOutHi, Step, CopyInv, slotVars, Halves
    <3> QED
      BY <2>5, <3>2, <3>3
  <2> QED
    BY <2>1, <2>2, <2>3, <2>4, <2>5 DEF Next, Publication, ReadStep, vars, slotVars,
       WaitForReaders, Publish, ScanPid, ScanCursor, ScanPassed, ScanBlocked, LockSlot, CopyInLo,
       CopyInHi, StoreLength, Advance, Deadline, KillWriter
<1> QED
  BY <1>1, <1>2, TypeCorrect, MutexInvariant, SlotInvariant, PTL DEF Spec

\* Every frame that Ring::read returns is the whole frame published at the
\* index it was asked for, and kCorrupt is never returned, for any ring, any
\* readers, either policy, and whoever is killed wherever.
THEOREM FramesAreWhole == Spec => []ReadsIntact
<1>1. TypeOK /\ CopyInv => ReadsIntact
  BY DEF TypeOK, ReaderTypes, Halves, CopyInv, ReadsIntact
<1> QED
  BY <1>1, TypeCorrect, CopyInvariant, PTL

-----------------------------------------------------------------------------
(* What the slots hold.                                                    *)

\* A sealed slot holds a frame of its own position, at most one turn old; the
\* last Slots - 1 frames are all there; at write_index.store() the new one is.
SeqInv ==
  /\ \A s \in SlotIds :
       seq[s] # 0 => /\ SlotOf(seq[s] - 1) = s
                     /\ seq[s] <= write_index + 1
                     /\ write_index < seq[s] + Slots
  /\ \A i \in 0 .. write_index - 1 : write_index - Slots < i => seq[SlotOf(i)] = i + 1
  /\ wpc = "advance" => seq[SlotOf(write_index)] = write_index + 1

\* publish() replaces only the frame a whole turn older than the one it writes.
LEMMA SeqInvariant == Spec => []SeqInv
<1>1. Init => SeqInv
  BY DEF Init, SeqInv
<1>2. TypeOK /\ SeqInv /\ [Next]_vars => SeqInv'
  <2> SUFFICES ASSUME TypeOK, SeqInv, [Next]_vars PROVE SeqInv'
    OBVIOUS
  <2>t. write_index \in Nat /\ seq \in [SlotIds -> Nat]
    BY DEF TypeOK, SlotTypes, WriterTypes
  <2>i. SlotOf(write_index) \in SlotIds
    BY SlotOfType, <2>t
  <2>a. \A i \in 0 .. write_index - 1 :
          write_index - Slots < i => SlotOf(i) \in SlotIds /\ SlotOf(i) # SlotOf(write_index)
    <3> TAKE i \in 0 .. write_index - 1
    <3>1. i \in Nat /\ i < write_index
      BY <2>t
    <3> QED
      BY <3>1, <2>t, SlotsApart, SlotOfType
  <2>1. CASE UNCHANGED <<seq, write_index>> /\ (wpc' = wpc \/ wpc' # "advance")
    BY <2>1 DEF SeqInv
  <2>2. CASE Invalidate
    <3>1. /\ seq' = [seq EXCEPT ![SlotOf(write_index)] = 0]
          /\ write_index' = write_index /\ wpc' # "advance"
      BY <2>2 DEF Invalidate, Goto
    <3>2. \A s \in SlotIds : seq'[s] = IF s = SlotOf(write_index) THEN 0 ELSE seq[s]
      BY <3>1, <2>t
    <3> QED
      BY <3>1, <3>2, <2>a DEF SeqInv
  <2>3. CASE Seal
    <3>1. /\ seq' = [seq EXCEPT ![SlotOf(write_index)] = write_index + 1]
          /\ write_index' = write_index
      BY <2>3 DEF Seal
    <3>2. \A s \in SlotIds : seq'[s] = IF s = SlotOf(write_index) THEN write_index + 1 ELSE seq[s]
      BY <3>1, <2>t
    <3>3. (write_index + 1) - 1 = write_index /\ write_index < (write_index + 1) + Slots
      BY <2>t
    <3> QED
      BY <3>1, <3>2, <3>3, <2>a, <2>i, <2>t DEF SeqInv
  <2>4. CASE Advance
    <3>1. /\ seq' = seq /\ write_index' = write_index + 1 /\ wpc' = "ready"
          /\ seq[SlotOf(write_index)] = write_index + 1
      BY <2>4 DEF Advance, Goto, slotVars, SeqInv
    <3>2. ASSUME NEW s \in SlotIds, seq[s] # 0 PROVE write_index + 1 < seq[s] + Slots
      <4> SUFFICES ASSUME seq[s] - 1 = write_index - Slots PROVE FALSE
        BY <3>2, <2>t DEF SeqInv
      <4>1. SlotOf(seq[s] - 1) = SlotOf(write_index)
        BY SlotOfTurn, <2>t
      <4> QED
        BY <4>1, <3>1, <3>2, <2>t DEF SeqInv
    <3> QED
      BY <3>1, <3>2, <2>t DEF SeqInv
  <2>5. ASSUME NEW r \in Readers,
               Attachment(r) \/ TryLock(r) \/ ReadStep(r) \/ Detach(r) \/ KillReader(r)
        PROVE  UNCHANGED <<slotVars, writerVars>>
    BY <2>5 DEF Attachment, LockRegistry, StoreCursor, StorePid, RegistryFull, StartIndex, TryLock,
       ReadStep, Check, Resume, CopyOutLo, CopyOutHi, Commit, Detach, KillReader
  <2>6. CASE WaitForReaders \/ Publish \/ ScanPid \/ ScanCursor \/ ScanPassed \/ ScanBlocked
             \/ Deadline \/ KillWriter \/ LockSlot \/ CopyInLo \/ CopyInHi \/ StoreLength
    BY <2>6, <2>1 DEF WaitForReaders, Publish, ScanPid, ScanCursor, ScanPassed, ScanBlocked,
       Deadline, KillWriter, LockSlot, CopyInLo, CopyInHi, StoreLength, Goto, slotVars
  <2> QED
    BY <2>1, <2>2, <2>3, <2>4, <2>5, <2>6 DEF Next, Publication, vars, slotVars, writerVars
<1> QED
  BY <1>1, <1>2, TypeCorrect, PTL DEF Spec

\* The last Slots - 1 published frames are intact in shared memory, also while
\* publish() is filling a slot and after the writer was killed in it.
THEOREM RecentFramesSurvive == Spec => []RecentFramesKept
<1>1. TypeOK /\ SlotInv /\ SeqInv => RecentFramesKept
  <2> SUFFICES ASSUME TypeOK, SlotInv, SeqInv,
                      NEW i \in 0 .. write_index - 1, write_index - Slots < i
               PROVE  /\ seq[SlotOf(i)] = i + 1
                      /\ frame_len[SlotOf(i)] = 1
                      /\ frame[SlotOf(i)] = [lo |-> i + 1, hi |-> i + 1]
    BY DEF RecentFramesKept
  <2>1. seq[SlotOf(i)] = i + 1 /\ i + 1 # 0
    BY DEF SeqInv, TypeOK, WriterTypes
  <2>2. SlotOf(i) \in SlotIds
    BY SlotOfType DEF TypeOK, WriterTypes
  <2> QED
    BY <2>1, <2>2 DEF SlotInv
<1> QED
  BY <1>1, TypeCorrect, SlotInvariant, SeqInvariant, PTL

\* The slot of a lapped reader was reused at least one turn later, so that
\* live_edge() is at least one turn ahead of the reader.
LEMMA LappedByATurn ==
  ASSUME TypeOK, CopyInv, SeqInv, NEW r \in Readers, rpc[r] = "resume"
  PROVE  /\ read_index[r] + Slots <= seq[SlotOf(read_index[r])] - 1
         /\ seq[SlotOf(read_index[r])] - 1 <= write_index
         /\ ResumeIndex >= read_index[r]
<1> DEFINE s == SlotOf(read_index[r])
<1>1. /\ read_index[r] \in Nat /\ write_index \in Nat /\ s \in SlotIds /\ seq[s] \in Nat
  BY SlotOfType DEF TypeOK, SlotTypes, WriterTypes, ReaderTypes
<1>2. seq[s] > read_index[r] + 1
  BY DEF CopyInv
<1>3. SlotOf(seq[s] - 1) = s /\ seq[s] <= write_index + 1
  BY <1>1, <1>2 DEF SeqInv
<1>4. seq[s] - 1 \in Nat /\ read_index[r] < seq[s] - 1 /\ SlotOf(seq[s] - 1) = SlotOf(read_index[r])
  BY <1>1, <1>2, <1>3
<1> HIDE DEF s
<1>5. read_index[r] + Slots <= seq[s] - 1
  BY <1>1, <1>4, SlotsApart
<1> QED
  BY <1>1, <1>3, <1>5 DEF s, ResumeIndex

\* A consumer never goes back: the index it reads never decreases while it is
\* attached, lapped or not.
THEOREM ReadersNeverGoBack == Spec => NeverRereads
<1>1. /\ TypeOK /\ CopyInv /\ SeqInv /\ [Next]_vars
      => [\A r \in Readers : rpc'[r] = "out" \/ read_index'[r] >= read_index[r]]_vars
  <2> SUFFICES ASSUME TypeOK, CopyInv, SeqInv, Next, NEW r \in Readers
               PROVE  rpc'[r] = "out" \/ read_index'[r] >= read_index[r]
    OBVIOUS
  <2>t. /\ rpc \in [Readers -> ReaderPcs] /\ read_index \in [Readers -> Nat] /\ write_index \in Nat
        /\ read_index[r] \in Nat
    BY DEF TypeOK, WriterTypes, ReaderTypes
  <2>1. CASE read_index' = read_index
    BY <2>1, <2>t
  <2>2. CASE \E q \in Readers : StartIndex(q)
    BY <2>2, <2>t DEF StartIndex, Step, CopyInv
  <2>3. CASE \E q \in Readers : Resume(q)
    <3>1. rpc[r] = "resume" => ResumeIndex >= read_index[r]
      BY LappedByATurn
    <3> QED
      BY <2>3, <2>t, <3>1 DEF Resume, Step
  <2>4. CASE \E q \in Readers : Commit(q)
    BY <2>4, <2>t DEF Commit
  <2>5. CASE \E q \in Readers : Detach(q)
    BY <2>5, <2>t DEF Detach
  <2> QED
    BY <2>1, <2>2, <2>3, <2>4, <2>5, Zenon DEF Next, Publication, Attachment, ReadStep, readerVars,
       WaitForReaders, Publish, ScanPid, ScanCursor, ScanPassed, ScanBlocked, LockSlot, Invalidate,
       CopyInLo, CopyInHi, StoreLength, Seal, Advance, Deadline, KillWriter, KillReader,
       LockRegistry, StoreCursor, StorePid, RegistryFull, TryLock, Check, CopyOutLo, CopyOutHi
<1> QED
  BY <1>1, TypeCorrect, CopyInvariant, SeqInvariant, PTL DEF Spec, NeverRereads

-----------------------------------------------------------------------------
(* The reader registry.                                                    *)

Attached == {"start", "read", "check", "resume", "copyLo", "copyHi", "commit", "corrupt"}

\* A reader that is registering holds the registry mutex, and its entry is still
\* free; an attached reader owns its entry, and an entry has one owner.
RegistryInv ==
  /\ \A r \in Readers :
       /\ rpc[r] \in {"register", "enrol"} => registry_mutex = r
       /\ rpc[r] = "enrol" => entry[r] \in Entries /\ pid[entry[r]] = None /\ cursor[entry[r]] = 0
       /\ rpc[r] \in Attached => entry[r] \in Entries /\ pid[entry[r]] = r
  /\ \A e \in Entries :
       pid[e] # None => entry[pid[e]] = e /\ rpc[pid[e]] \in Attached \cup {"dead"}

\* Two attaching readers never get the same entry, also when one of them is
\* killed while it holds the registry mutex.
LEMMA RegistryInvariant == Spec => []RegistryInv
<1>1. Init => RegistryInv
  BY DEF Init, RegistryInv, Attached
<1>2. TypeOK /\ RegistryInv /\ [Next]_vars => RegistryInv'
  <2> SUFFICES ASSUME TypeOK, RegistryInv, [Next]_vars PROVE RegistryInv'
    OBVIOUS
  <2>t. /\ rpc \in [Readers -> ReaderPcs]
        /\ entry \in [Readers -> 0 .. MaxReaders]
        /\ pid \in [Entries -> Readers \cup {None}]
        /\ cursor \in [Entries -> Nat]
        /\ read_index \in [Readers -> Nat]
    BY DEF TypeOK, RegistryTypes, ReaderTypes
  <2>1. CASE UNCHANGED <<registryVars, rpc, entry>>
    BY <2>1 DEF registryVars, RegistryInv
  <2>2. ASSUME NEW r \in Readers, LockRegistry(r) PROVE RegistryInv'
    <3>1. \A q \in Readers : rpc[q] \notin {"register", "enrol"}
      BY <2>2 DEF LockRegistry, Lockable, Killed, RegistryInv
    <3> QED
      BY <2>2, <3>1, <2>t DEF LockRegistry, Step, RegistryInv, Attached
  <2>3. ASSUME NEW r \in Readers, StoreCursor(r) PROVE RegistryInv'
    <3>1. PICK e \in Entries : /\ pid[e] = None
                              /\ entry' = [entry EXCEPT ![r] = e]
                              /\ cursor' = [cursor EXCEPT ![e] = 0]
      BY <2>3, Zenon DEF StoreCursor, FreeEntries
    <3>2. \A q \in Readers \ {r} : rpc[q] \notin {"register", "enrol"}
      BY <2>3 DEF StoreCursor, Step, RegistryInv
    <3>3. \A f \in Entries : pid[f] # r
      <4> TAKE f \in Entries
      <4>1. rpc[r] = "register"
        BY <2>3 DEF StoreCursor, Step
      <4>2. pid[f] = r => rpc[r] \in Attached \cup {"dead"}
        <5>1. r # None
          OBVIOUS
        <5>2. pid[f] # None => rpc[pid[f]] \in Attached \cup {"dead"}
          BY DEF RegistryInv
        <5> QED
          BY <5>1, <5>2
      <4> QED
        BY <4>1, <4>2 DEF Attached
    <3> QED
      BY <2>3, <3>1, <3>2, <3>3, <2>t DEF StoreCursor, Step, RegistryInv, Attached
  <2>4. ASSUME NEW r \in Readers, StorePid(r) PROVE RegistryInv'
    <3>1. \A q \in Readers \ {r} : rpc[q] \notin {"register", "enrol"}
      BY <2>4 DEF StorePid, Step, RegistryInv
    <3> QED
      BY <2>4, <3>1, <2>t DEF StorePid, Step, RegistryInv, Attached
  <2>5. ASSUME NEW r \in Readers, RegistryFull(r) PROVE RegistryInv'
    <3>1. \A q \in Readers \ {r} : rpc[q] \notin {"register", "enrol"}
      BY <2>5 DEF RegistryFull, Step, RegistryInv
    <3> QED
      BY <2>5, <3>1, <2>t DEF RegistryFull, Step, RegistryInv, Attached
  <2>6. ASSUME NEW r \in Readers,
               StartIndex(r) \/ TryLock(r) \/ Check(r) \/ Resume(r) \/ CopyOutLo(r) \/ CopyOutHi(r)
        PROVE  RegistryInv'
    <3>1. /\ rpc[r] \in Attached /\ rpc'[r] \in Attached \ {"start"}
          /\ \A q \in Readers \ {r} : rpc'[q] = rpc[q]
          /\ UNCHANGED <<registryVars, entry>>
      <4>1. Verdict(SlotOf(read_index[r]), read_index[r]) \in Attached \ {"start"}
        BY DEF Verdict, Attached
      <4> QED
        BY <2>6, <4>1, <2>t DEF StartIndex, TryLock, Check, Resume, CopyOutLo, CopyOutHi, Step, Attached
    <3> QED
      BY <3>1, <2>t DEF RegistryInv, registryVars, Attached
  <2>7. ASSUME NEW r \in Readers, Commit(r) PROVE RegistryInv'
    BY <2>7, <2>t DEF Commit, Step, RegistryInv, Attached
  <2>8. ASSUME NEW r \in Readers, Detach(r) PROVE RegistryInv'
    BY <2>8, <2>t DEF Detach, RegistryInv, Attached
  <2>9. ASSUME NEW r \in Readers, KillReader(r) PROVE RegistryInv'
    BY <2>9, <2>t DEF KillReader, registryVars, RegistryInv, Attached
  <2> QED
    BY <2>1, <2>2, <2>3, <2>4, <2>5, <2>6, <2>7, <2>8, <2>9, Zenon DEF Next, Publication, Attachment,
       ReadStep, vars, readerVars, WaitForReaders, Publish, ScanPid, ScanCursor, ScanPassed,
       ScanBlocked, LockSlot, Invalidate, CopyInLo, CopyInHi, StoreLength, Seal, Advance, Deadline,
       KillWriter
<1> QED
  BY <1>1, <1>2, TypeCorrect, PTL DEF Spec

-----------------------------------------------------------------------------
(* Backpressure.                                                           *)

\* The writer has decided to reuse the slot of write_index, or has done so.
Overwriting == \/ wpc \in {"lock"} \cup Filling
               \/ \E s \in SlotIds : seq[s] = write_index + 1

\* No established reader is further behind than the ring holds; a scan that is
\* under way has found every entry it has passed out of the way, or is blocked.
UnreadInv ==
  Backpressure =>
    /\ \A e \in Entries : Established(e) =>
         /\ write_index <= cursor[e] + Slots
         /\ Overwriting => write_index < cursor[e] + Slots
    /\ wpc \in {"scan", "load"} =>
         /\ write_index >= Slots
         /\ \A e \in Entries : e < scan.at /\ Established(e) =>
              scan.blocked \/ write_index < cursor[e] + Slots
    /\ wpc \notin {"scan", "load", "failed", "dead"} => scan.at = 1

\* The backpressure loop of publish() lets nothing pass that an established
\* reader has still to read.
LEMMA UnreadInvariant == Spec => []UnreadInv
<1>1. Init => UnreadInv
  BY DEF Init, UnreadInv, Established, FreshScan
<1>2. /\ TypeOK /\ TypeOK' /\ CopyInv /\ SeqInv /\ RegistryInv /\ UnreadInv /\ [Next]_vars
      => UnreadInv'
  <2> SUFFICES ASSUME TypeOK, TypeOK', CopyInv, SeqInv, RegistryInv, UnreadInv, [Next]_vars, Backpressure
               PROVE  UnreadInv'
    BY DEF UnreadInv
  <2>t. /\ write_index \in Nat
        /\ seq \in [SlotIds -> Nat]
        /\ rpc \in [Readers -> ReaderPcs]
        /\ entry \in [Readers -> 0 .. MaxReaders]
        /\ read_index \in [Readers -> Nat]
        /\ joined \in [Readers -> Nat]
        /\ pid \in [Entries -> Readers \cup {None}]
        /\ cursor \in [Entries -> Nat]
        /\ scan.at \in 1 .. MaxReaders + 1
    BY DEF TypeOK, SlotTypes, RegistryTypes, WriterTypes, ReaderTypes, Scans
  <2>e. ASSUME UNCHANGED <<pid, cursor, joined>>
        PROVE  \A e \in Entries : Established(e)' = Established(e)
    BY <2>e DEF Established
  <2>1. CASE UNCHANGED <<seq, pid, cursor, joined, writerVars>>
    BY <2>1, <2>e DEF writerVars, UnreadInv, Overwriting
  <2>2. CASE WaitForReaders \/ Deadline \/ KillWriter
    BY <2>2, <2>e DEF WaitForReaders, Deadline, KillWriter, Goto, slotVars, registryVars, readerVars,
       UnreadInv, Overwriting, Filling
  <2>3. CASE Publish
    <3>1. /\ wpc = "ready" /\ scan.at = 1 /\ UNCHANGED <<seq, write_index, pid, cursor, joined, scan>>
          /\ (wpc' = "scan" /\ write_index >= Slots) \/ (wpc' = "lock" /\ write_index < Slots)
      <4>1. CASE write_index >= Slots
        <5>1. wpc' = "scan"
          BY Zenon, <2>3, <4>1 DEF Publish, Goto
        <5>2. wpc = "ready" /\ UNCHANGED <<seq, write_index, pid, cursor, joined, scan>>
          BY <2>3 DEF Publish, Goto, slotVars, registryVars, readerVars
        <5>3. scan.at = 1
          BY <5>2 DEF UnreadInv
        <5> QED
          BY <4>1, <5>1, <5>2, <5>3
      <4>2. CASE ~(write_index >= Slots)
        <5>1. wpc' = "lock"
          BY Zenon, <2>3, <4>2 DEF Publish, Goto
        <5> QED
          BY <2>3, <4>2, <5>1, <2>t DEF Publish, Goto, slotVars, registryVars, readerVars, UnreadInv
      <4> QED
        BY <4>1, <4>2
    <3>2. CASE wpc' = "scan"
      <4>1. Overwriting' => Overwriting
        BY <3>1, <3>2 DEF Overwriting, Filling
      <4> QED
        BY <3>1, <3>2, <4>1, <2>e DEF UnreadInv, Entries
    <3>3. CASE wpc' = "lock"
      <4>1. \A e \in Entries : write_index < cursor[e] + Slots
        BY <3>1, <3>3, <2>t
      <4> QED
        BY <3>1, <3>3, <4>1, <2>e, <2>t DEF UnreadInv
    <3> QED
      BY <3>1, <3>2, <3>3
  <2>4. CASE ScanPid \/ ScanCursor
    <3>1. /\ wpc \in {"scan", "load"} /\ wpc' \in {"scan", "load"}
          /\ UNCHANGED <<seq, write_index, pid, cursor, joined>>
          /\ scan.at \in Entries
      BY <2>4 DEF ScanPid, ScanCursor, Goto, slotVars, registryVars, readerVars, TypeOK, WriterTypes
    <3>2. \/ scan'.at = scan.at /\ scan'.blocked = scan.blocked
          \/ scan'.at = scan.at + 1 /\ scan'.blocked = scan.blocked /\ pid[scan.at] = None
          \/ /\ scan'.at = scan.at + 1
             /\ scan'.blocked <=> scan.blocked \/ cursor[scan.at] <= write_index - Slots
      <4>1. CASE ScanPid /\ pid[scan.at] # None
        BY Zenon, <4>1 DEF ScanPid
      <4>2. CASE ScanPid /\ pid[scan.at] = None
        BY Zenon, <4>2 DEF ScanPid
      <4>3. CASE ScanCursor
        BY Zenon, <4>3 DEF ScanCursor
      <4> QED
        BY <2>4, <4>1, <4>2, <4>3
    <3>3. ASSUME NEW e \in Entries, e < scan'.at, Established(e), ~scan'.blocked
          PROVE  write_index < cursor[e] + Slots
      <4>1. CASE e < scan.at
        BY <4>1, <3>1, <3>2, <3>3 DEF UnreadInv
      <4>2. CASE e = scan.at
        BY <4>2, <3>1, <3>2, <3>3, <2>t DEF Established
      <4> QED
        BY <4>1, <4>2, <3>2, <3>3, <2>t, SMTT(30) DEF Entries
    <3>4. Overwriting' => Overwriting
      BY <3>1 DEF Overwriting, Filling
    <3> QED
      BY <3>1, <3>3, <3>4, <2>e DEF UnreadInv
  <2>6. CASE ScanPassed
    <3>1. /\ wpc = "scan" /\ wpc' = "lock" /\ scan'.at = 1
          /\ UNCHANGED <<write_index, pid, cursor, joined>>
          /\ scan.at = MaxReaders + 1 /\ ~scan.blocked
      BY <2>6, <2>t DEF ScanPassed, Goto, FreshScan, registryVars, readerVars, Entries
    <3>2. \A e \in Entries : Established(e) => write_index < cursor[e] + Slots
      BY <3>1 DEF UnreadInv, Entries
    <3> QED
      BY <3>1, <3>2, <2>e, <2>t DEF UnreadInv
  <2>7. CASE ScanBlocked
    BY <2>7, <2>e DEF ScanBlocked, Goto, slotVars, registryVars, readerVars, FreshScan, Entries,
       UnreadInv, Overwriting, Filling
  <2>8. CASE LockSlot \/ Invalidate \/ CopyInLo \/ CopyInHi \/ StoreLength \/ Seal
    <3>1. /\ Overwriting
          /\ wpc' \in Filling /\ UNCHANGED <<write_index, pid, cursor, joined, scan>>
      BY <2>8 DEF LockSlot, Invalidate, CopyInLo, CopyInHi, StoreLength, Seal, Goto, registryVars,
         readerVars, Overwriting, Filling
    <3>2. wpc \notin {"scan", "load", "failed", "dead"}
      BY <2>8 DEF LockSlot, Invalidate, CopyInLo, CopyInHi, StoreLength, Seal, Goto
    <3> QED
      BY <3>1, <3>2, <2>e DEF UnreadInv, Filling
  <2>9. CASE Advance
    <3>1. ~Overwriting'
      BY <2>9, <2>t DEF Advance, Goto, slotVars, Overwriting, Filling, SeqInv
    <3>2. Overwriting
      BY <2>9 DEF Advance, Goto, Overwriting, Filling
    <3> QED
      BY <2>9, <3>1, <3>2, <2>e, <2>t DEF Advance, Goto, registryVars, readerVars, UnreadInv
  <2>u. ASSUME UNCHANGED <<seq, writerVars>>,
               \A e \in Entries : Established(e)' =>
                 \/ Established(e) /\ cursor'[e] = cursor[e]
                 \/ write_index < cursor'[e] + Slots
        PROVE  UnreadInv'
    <3>1. Overwriting' = Overwriting
      BY <2>u DEF writerVars, Overwriting
    <3>2. \A e \in Entries : Established(e)' =>
            \/ Established(e) /\ cursor'[e] = cursor[e]
            \/ write_index < cursor'[e] + Slots /\ write_index <= cursor'[e] + Slots
      <4> SUFFICES ASSUME NEW e \in Entries, write_index < cursor'[e] + Slots
                   PROVE  write_index <= cursor'[e] + Slots
        BY <2>u
      <4>1. cursor'[e] \in Nat
        BY DEF TypeOK, RegistryTypes
      <4> QED
        BY <4>1, <2>t
    <3> QED
      BY <2>u, <3>1, <3>2 DEF writerVars, UnreadInv
  <2>10. ASSUME NEW r \in Readers, StoreCursor(r) PROVE UnreadInv'
    <3>1. PICK f \in Entries : pid[f] = None /\ cursor' = [cursor EXCEPT ![f] = 0]
      BY <2>10, Zenon DEF StoreCursor, FreeEntries
    <3>2. UNCHANGED <<seq, writerVars, pid, joined>>
      BY <2>10 DEF StoreCursor, slotVars
    <3>3. ASSUME NEW e \in Entries, Established(e)'
          PROVE  Established(e) /\ cursor'[e] = cursor[e]
      <4>1. Established(e) /\ e # f
        BY <3>1, <3>2, <3>3 DEF Established
      <4> QED
        BY <3>1, <4>1, <2>t
    <3> QED
      BY <2>u, <3>2, <3>3 DEF writerVars, UnreadInv
  <2>11. ASSUME NEW r \in Readers, StorePid(r) PROVE UnreadInv'
    <3>1. /\ UNCHANGED <<seq, writerVars, cursor>>
          /\ pid' = [pid EXCEPT ![entry[r]] = r]
          /\ joined' = [joined EXCEPT ![r] = write_index]
          /\ entry[r] \in Entries /\ cursor[entry[r]] = 0
          /\ \A e \in Entries : pid[e] # r
      BY <2>11 DEF StorePid, Step, slotVars, RegistryInv, Attached
    <3>2. ASSUME NEW e \in Entries, Established(e)'
          PROVE  \/ Established(e) /\ cursor'[e] = cursor[e]
                 \/ write_index < cursor'[e] + Slots
      <4>1. CASE e = entry[r]
        BY <4>1, <3>1, <3>2, <2>t DEF Established
      <4>2. CASE e # entry[r]
        BY <4>2, <3>1, <3>2, <2>t DEF Established
      <4> QED
        BY <4>1, <4>2
    <3> QED
      BY <3>1, <3>2, <2>u
  <2>12. ASSUME NEW r \in Readers, Commit(r) PROVE UnreadInv'
    <3> DEFINE s == SlotOf(read_index[r])
    <3>1. /\ UNCHANGED <<seq, writerVars, pid, joined>>
          /\ cursor' = [cursor EXCEPT ![entry[r]] = read_index[r] + 1]
          /\ rpc[r] = "commit"
      BY <2>12, Zenon DEF Commit, Step, slotVars
    <3>2. seq[s] = read_index[r] + 1 /\ s \in SlotIds
      BY <3>1, <2>t, SlotOfType DEF CopyInv
    <3>3. write_index < (read_index[r] + 1) + Slots
      <4> HIDE DEF s
      <4>1. seq[s] # 0
        BY <3>2, <2>t
      <4> QED
        BY <4>1, <3>2 DEF SeqInv
    <3>4. entry[r] \in Entries
      BY <3>1 DEF RegistryInv, Attached
    <3> QED
      BY <3>1, <3>3, <3>4, <2>u, <2>t DEF Established
  <2>13. ASSUME NEW r \in Readers, Detach(r) PROVE UnreadInv'
    <3>1. /\ UNCHANGED <<seq, writerVars, cursor>>
          /\ pid' = [pid EXCEPT ![entry[r]] = None]
          /\ joined' = [joined EXCEPT ![r] = 0]
          /\ entry[r] \in Entries
          /\ \A e \in Entries : pid[e] = r => e = entry[r]
      BY <2>13 DEF Detach, slotVars, RegistryInv, Attached
    <3> QED
      BY <3>1, <2>u, <2>t DEF Established
  <2> QED
    BY <2>1, <2>2, <2>3, <2>4, <2>6, <2>7, <2>8, <2>9, <2>10, <2>11, <2>12, <2>13
       DEF Next, Publication, Attachment, ReadStep, vars, slotVars, registryVars, readerVars,
       LockRegistry, RegistryFull, StartIndex, TryLock, Check, Resume, CopyOutLo, CopyOutHi, KillReader
<1> QED
  BY <1>1, <1>2, TypeCorrect, CopyInvariant, SeqInvariant, RegistryInvariant, PTL DEF Spec

\* With backpressure nothing is overwritten that an established reader, dead or
\* alive, has still to read, for any ring size and any number of readers.
THEOREM UnreadFramesSurvive == Spec => []UnreadFramesKept
<1>1. UnreadInv => UnreadFramesKept
  BY DEF UnreadInv, UnreadFramesKept, Overwriting
<1> QED
  BY <1>1, UnreadInvariant, PTL

\* A reader's cursor in shared memory is never ahead of the index it reads.
PositionInv ==
  \A r \in Readers :
    /\ rpc[r] \in {"read"} \cup Reading => cursor[entry[r]] <= read_index[r]
    /\ rpc[r] = "start" => cursor[entry[r]] = 0

\* cursor.store() happens before the consumer moves on, and a resume index is
\* never below the index that was lapped.
LEMMA PositionInvariant == Spec => []PositionInv
<1>1. Init => PositionInv
  BY DEF Init, PositionInv, Reading
<1>2. /\ TypeOK /\ CopyInv /\ SeqInv /\ RegistryInv /\ PositionInv /\ [Next]_vars
      => PositionInv'
  <2> SUFFICES ASSUME TypeOK, CopyInv, SeqInv, RegistryInv, PositionInv, [Next]_vars
               PROVE  PositionInv'
    OBVIOUS
  <2>t. /\ write_index \in Nat
        /\ rpc \in [Readers -> ReaderPcs]
        /\ entry \in [Readers -> 0 .. MaxReaders]
        /\ read_index \in [Readers -> Nat]
        /\ pid \in [Entries -> Readers \cup {None}]
        /\ cursor \in [Entries -> Nat]
    BY DEF TypeOK, RegistryTypes, WriterTypes, ReaderTypes
  <2>1. CASE UNCHANGED <<cursor, rpc, entry, read_index>>
    BY <2>1 DEF PositionInv
  <2>2. ASSUME NEW r \in Readers, LockRegistry(r) \/ RegistryFull(r) \/ KillReader(r) \/ Detach(r)
        PROVE  PositionInv'
    BY <2>2, <2>t DEF LockRegistry, RegistryFull, KillReader, Detach, registryVars, Step,
       PositionInv, Reading
  <2>3. ASSUME NEW r \in Readers, StoreCursor(r) PROVE PositionInv'
    <3>1. PICK f \in Entries : /\ pid[f] = None /\ cursor' = [cursor EXCEPT ![f] = 0]
                              /\ entry' = [entry EXCEPT ![r] = f]
      BY <2>3, Zenon DEF StoreCursor, FreeEntries
    <3>2. \A q \in Readers : rpc[q] \in Attached => entry[q] # f
      <4> TAKE q \in Readers
      <4>1. rpc[q] \in Attached => pid[entry[q]] = q
        BY DEF RegistryInv
      <4>2. pid[f] # q
        BY <3>1
      <4> QED
        BY <4>1, <4>2, Zenon
    <3> QED
      BY <2>3, <3>1, <3>2, <2>t DEF StoreCursor, Step, PositionInv, Reading, Attached
  <2>4. ASSUME NEW r \in Readers, StorePid(r) PROVE PositionInv'
    BY <2>4, <2>t DEF StorePid, Step, PositionInv, RegistryInv, Reading
  <2>5. ASSUME NEW r \in Readers, StartIndex(r) PROVE PositionInv'
    BY <2>5, <2>t DEF StartIndex, Step, registryVars, PositionInv, Reading
  <2>6. ASSUME NEW r \in Readers, TryLock(r) \/ Check(r) \/ CopyOutLo(r) \/ CopyOutHi(r)
        PROVE  PositionInv'
    <3>1. /\ UNCHANGED <<cursor, entry, read_index>>
          /\ \A q \in Readers \ {r} : rpc'[q] = rpc[q]
          /\ rpc[r] \in {"read"} \cup Reading /\ rpc'[r] # "start"
      <4>1. Verdict(SlotOf(read_index[r]), read_index[r]) # "start"
        BY Zenon DEF Verdict
      <4> QED
        BY <2>6, <4>1, <2>t DEF TryLock, Check, CopyOutLo, CopyOutHi, Step, registryVars, Reading
    <3> QED
      BY <3>1 DEF PositionInv
  <2>7. ASSUME NEW r \in Readers, Resume(r) PROVE PositionInv'
    <3>1. ResumeIndex >= read_index[r] /\ ResumeIndex \in Nat /\ entry[r] \in Entries
      BY <2>7, LappedByATurn, <2>t DEF Resume, Step, ResumeIndex, RegistryInv, Attached
    <3> HIDE DEF ResumeIndex
    <3> QED
      BY <2>7, <3>1, <2>t DEF Resume, Step, registryVars, PositionInv, Reading
  <2>8. ASSUME NEW r \in Readers, Commit(r) PROVE PositionInv'
    <3>1. /\ entry[r] \in Entries
          /\ \A q \in Readers \ {r} : rpc[q] \in Attached => entry[q] # entry[r]
      <4>1. rpc[r] \in Attached
        BY <2>8 DEF Commit, Step, Attached
      <4>2. entry[r] \in Entries /\ pid[entry[r]] = r
        BY <4>1 DEF RegistryInv
      <4>3. \A q \in Readers : rpc[q] \in Attached => pid[entry[q]] = q
        BY DEF RegistryInv
      <4> QED
        BY <4>2, <4>3
    <3> QED
      BY <2>8, <3>1, <2>t DEF Commit, Step, PositionInv, Reading, Attached
  <2> QED
    BY <2>1, <2>2, <2>3, <2>4, <2>5, <2>6, <2>7, <2>8, Zenon DEF Next, Publication, Attachment, ReadStep,
       vars, registryVars, readerVars, WaitForReaders, Publish, ScanPid, ScanCursor, ScanPassed,
       ScanBlocked, LockSlot, Invalidate, CopyInLo, CopyInHi, StoreLength, Seal, Advance, Deadline,
       KillWriter
<1> QED
  BY <1>1, <1>2, TypeCorrect, CopyInvariant, SeqInvariant, RegistryInvariant, PTL DEF Spec

\* With backpressure kLapped is reported only to a reader that attached after
\* the ring had wrapped and has not read anything yet.
THEOREM OnlyNewcomersAreLapped == Spec => []OnlyNewcomersLapped
<1>1. TypeOK /\ CopyInv /\ SeqInv /\ RegistryInv /\ UnreadInv /\ PositionInv => OnlyNewcomersLapped
  <2> SUFFICES ASSUME TypeOK, CopyInv, SeqInv, RegistryInv, UnreadInv, PositionInv, Backpressure,
                      NEW r \in Readers, rpc[r] = "resume", Established(entry[r])
               PROVE  FALSE
    BY DEF OnlyNewcomersLapped
  <2> DEFINE s == SlotOf(read_index[r])
             c == cursor[entry[r]]
  <2>1. entry[r] \in Entries /\ c <= read_index[r]
    BY DEF RegistryInv, PositionInv, Attached, Reading
  <2>2. write_index \in Nat /\ read_index[r] \in Nat /\ s \in SlotIds /\ seq[s] \in Nat /\ c \in Nat
    BY <2>1, SlotOfType DEF TypeOK, SlotTypes, WriterTypes, ReaderTypes, RegistryTypes
  <2>3. read_index[r] + Slots <= seq[s] - 1 /\ seq[s] - 1 <= write_index
    BY LappedByATurn, Zenon
  <2>4. write_index <= c + Slots /\ (seq[s] = write_index + 1 => write_index < c + Slots)
    BY <2>1, <2>2, Zenon DEF UnreadInv, Overwriting
  <2> HIDE DEF s, c
  <2> QED
    BY <2>1, <2>2, <2>3, <2>4
<1> QED
  BY <1>1, TypeCorrect, CopyInvariant, SeqInvariant, RegistryInvariant, UnreadInvariant,
     PositionInvariant, PTL

\* With backpressure a reader that has read something reads next what its cursor
\* says; one that has not, and started at 0, is at 0 or among the frames kept.
CaughtUpInv ==
  Backpressure =>
    \A r \in Readers : rpc[r] \in {"read"} \cup Reading =>
      /\ cursor[entry[r]] > 0 => read_index[r] = cursor[entry[r]]
      /\ cursor[entry[r]] = 0 /\ r \notin FromEdge =>
           read_index[r] = 0 \/ read_index[r] + Slots <= write_index

\* Only a resume index parts the index from the cursor, and with backpressure
\* kLapped is reported to newcomers only.
LEMMA CaughtUpInvariant == Spec => []CaughtUpInv
<1>1. Init => CaughtUpInv
  BY DEF Init, CaughtUpInv, Reading
<1>2. TypeOK /\ RegistryInv /\ PositionInv /\ OnlyNewcomersLapped /\ CaughtUpInv /\ [Next]_vars
      => CaughtUpInv'
  <2> SUFFICES ASSUME TypeOK, RegistryInv, PositionInv, OnlyNewcomersLapped, CaughtUpInv,
                      [Next]_vars, Backpressure
               PROVE  CaughtUpInv'
    BY Zenon DEF CaughtUpInv
  <2>t. /\ write_index \in Nat
        /\ rpc \in [Readers -> ReaderPcs]
        /\ entry \in [Readers -> 0 .. MaxReaders]
        /\ read_index \in [Readers -> Nat]
        /\ pid \in [Entries -> Readers \cup {None}]
        /\ cursor \in [Entries -> Nat]
    BY DEF TypeOK, RegistryTypes, WriterTypes, ReaderTypes
  <2>1. CASE UNCHANGED <<cursor, rpc, entry, read_index>> /\ write_index' \in {write_index, write_index + 1}
    BY <2>1, <2>t DEF CaughtUpInv
  <2>2. ASSUME NEW r \in Readers, LockRegistry(r) \/ RegistryFull(r) \/ KillReader(r) \/ Detach(r)
        PROVE  CaughtUpInv'
    BY <2>2, <2>t DEF LockRegistry, RegistryFull, KillReader, Detach, registryVars, writerVars, Step,
       CaughtUpInv, Reading
  <2>3. ASSUME NEW r \in Readers, StoreCursor(r) PROVE CaughtUpInv'
    <3>1. PICK f \in Entries : /\ pid[f] = None /\ cursor' = [cursor EXCEPT ![f] = 0]
                              /\ entry' = [entry EXCEPT ![r] = f]
      BY <2>3, Zenon DEF StoreCursor, FreeEntries
    <3>2. \A q \in Readers : rpc[q] \in Attached => entry[q] # f
      <4> TAKE q \in Readers
      <4>1. rpc[q] \in Attached => pid[entry[q]] = q
        BY DEF RegistryInv
      <4>2. pid[f] # q
        BY <3>1
      <4> QED
        BY <4>1, <4>2
    <3> QED
      BY <2>3, <3>1, <3>2, <2>t DEF StoreCursor, Step, writerVars, CaughtUpInv, Reading, Attached
  <2>4. ASSUME NEW r \in Readers, StorePid(r) PROVE CaughtUpInv'
    BY <2>4, <2>t DEF StorePid, Step, writerVars, CaughtUpInv, Reading
  <2>5. ASSUME NEW r \in Readers, StartIndex(r) PROVE CaughtUpInv'
    BY <2>5, <2>t DEF StartIndex, Step, registryVars, writerVars, PositionInv, CaughtUpInv, Reading
  <2>6. ASSUME NEW r \in Readers, TryLock(r) \/ Check(r) \/ CopyOutLo(r) \/ CopyOutHi(r)
        PROVE  CaughtUpInv'
    <3>1. /\ UNCHANGED <<cursor, entry, read_index, write_index>>
          /\ \A q \in Readers \ {r} : rpc'[q] = rpc[q]
          /\ rpc[r] \in {"read"} \cup Reading
      BY <2>6, <2>t DEF TryLock, Check, CopyOutLo, CopyOutHi, Step, registryVars, writerVars, Reading
    <3> QED
      BY <3>1 DEF CaughtUpInv
  <2>7. ASSUME NEW r \in Readers, Resume(r) PROVE CaughtUpInv'
    <3>1. entry[r] \in Entries /\ pid[entry[r]] = r /\ rpc[r] = "resume"
      BY <2>7 DEF Resume, Step, RegistryInv, Attached
    <3>2. cursor[entry[r]] = 0
      BY <2>t, <3>1 DEF OnlyNewcomersLapped, Established
    <3>3. ResumeIndex \in Nat /\ (ResumeIndex = 0 \/ ResumeIndex + Slots <= write_index)
      BY <2>t DEF ResumeIndex
    <3> HIDE DEF ResumeIndex
    <3> QED
      BY <2>7, <3>2, <3>3, <2>t DEF Resume, Step, registryVars, writerVars, CaughtUpInv, Reading
  <2>8. ASSUME NEW r \in Readers, Commit(r) PROVE CaughtUpInv'
    <3>1. /\ entry[r] \in Entries
          /\ \A q \in Readers \ {r} : rpc[q] \in Attached => entry[q] # entry[r]
      <4>1. rpc[r] \in Attached
        BY <2>8 DEF Commit, Step, Attached
      <4>2. entry[r] \in Entries /\ pid[entry[r]] = r
        BY <4>1 DEF RegistryInv
      <4>3. \A q \in Readers : rpc[q] \in Attached => pid[entry[q]] = q
        BY DEF RegistryInv
      <4> QED
        BY <4>2, <4>3, Zenon
    <3> QED
      BY <2>8, <3>1, <2>t DEF Commit, Step, writerVars, CaughtUpInv, Reading, Attached
  <2> QED
    BY <2>1, <2>2, <2>3, <2>4, <2>5, <2>6, <2>7, <2>8, Zenon DEF Next, Publication, Attachment, ReadStep,
       vars, registryVars, readerVars, writerVars, WaitForReaders, Publish, ScanPid, ScanCursor,
       ScanPassed, ScanBlocked, LockSlot, Invalidate, CopyInLo, CopyInHi, StoreLength, Seal, Advance,
       Deadline, KillWriter
<1> QED
  BY <1>1, <1>2, TypeCorrect, RegistryInvariant, PositionInvariant, OnlyNewcomersAreLapped, PTL
     DEF Spec

\* publish() held up by backpressure and a live reader that polls an empty slot
\* never wait for each other, except for a --from-edge reader before its first
\* read().
THEOREM WritersAndReadersNeverWaitForEachOther == Spec => []NoMutualWait
<1>1. TypeOK /\ RegistryInv /\ CaughtUpInv => NoMutualWait
  <2> SUFFICES ASSUME TypeOK, RegistryInv, CaughtUpInv, Backpressure,
                      NEW e \in Entries, pid[e] # None, MutualWait(e)
               PROVE  pid[e] \in FromEdge /\ cursor[e] = 0
    BY DEF NoMutualWait
  <2>1. PICK r \in Readers : r = pid[e]
    BY DEF TypeOK, RegistryTypes
  <2>2. entry[r] = e
    BY <2>1 DEF RegistryInv
  <2>3. cursor[e] \in Nat /\ write_index \in Nat /\ read_index[r] \in Nat
    BY <2>1 DEF TypeOK, RegistryTypes, WriterTypes, ReaderTypes
  <2>4. rpc[r] = "read" /\ cursor[e] <= write_index - Slots /\ read_index[r] >= write_index
    BY <2>1 DEF MutualWait
  <2>5. /\ cursor[e] > 0 => read_index[r] = cursor[e]
        /\ cursor[e] = 0 /\ r \notin FromEdge => read_index[r] = 0 \/ read_index[r] + Slots <= write_index
    BY <2>1, <2>2, <2>4 DEF CaughtUpInv
  <2> QED
    BY <2>1, <2>3, <2>4, <2>5
<1> QED
  BY <1>1, TypeCorrect, RegistryInvariant, CaughtUpInvariant, PTL
=============================================================================
