------------------------------- MODULE ShmRing -------------------------------
(***************************************************************************)
(* The shared-memory broadcast ring of harness/include/shm_ring.h: one     *)
(* writer process, readers that attach and detach at any time, a robust    *)
(* process-shared mutex per slot and one for the reader registry.          *)
(*                                                                         *)
(* Every store that another process can observe is a step of its own, in   *)
(* the order of the code, and a process may be killed between any two.  A  *)
(* store and the unlock that follows it at once are one step: a process    *)
(* killed between them leaves a mutex that the next locker recovers        *)
(* (EOWNERDEAD), which is a free mutex to everybody else.                  *)
(*                                                                         *)
(* A frame is two halves, each tagged with the index + 1 of the            *)
(* publication it belongs to; frame_len is 0 or a legal length (1).        *)
(***************************************************************************)
EXTENDS Integers, FiniteSets

CONSTANTS
  Slots,         \* slot_count, the ring's capacity
  MaxReaders,    \* kMaxReaders, the entries of the registry
  Readers,       \* reader processes (consumers, or a sender reading its input ring)
  FromEdge,      \* those started with --from-edge
  WaitReaders,   \* the producer's --wait-readers
  Backpressure,  \* Header::backpressure; FALSE is PULSEFANOUT_RING_POLICY=overwrite
  MaxIndex,      \* bound: how many frames the writer publishes
  Mortal,        \* bound: the processes that may be killed
  Leaving,       \* bound: the readers that may stop reading and detach
  Deadlines      \* whether the two-second deadlines may expire

Writer == "writer"
None == "none"

ASSUME RingAssumption ==
  /\ Slots \in Nat \ {0}
  /\ MaxReaders \in Nat \ {0}
  /\ MaxIndex \in Nat
  /\ WaitReaders \in Nat
  /\ FromEdge \subseteq Readers
  /\ Leaving \subseteq Readers
  /\ Mortal \subseteq Readers \cup {Writer}
  /\ Backpressure \in BOOLEAN
  /\ Deadlines \in BOOLEAN
  /\ Writer \notin Readers
  /\ None \notin Readers

VARIABLES
  seq,             \* Slot::seq
  frame_len,       \* Slot::frame_len
  frame,           \* Slot::frame
  mutex,           \* Slot::mutex: its owner, or None
  registry_mutex,  \* Header::registry_mutex: its owner, or None
  pid,             \* ReaderState::pid of each registry entry: a reader, or None (0)
  cursor,          \* ReaderState::cursor of each registry entry
  write_index,     \* Header::write_index
  wpc,             \* where the writer is
  scan,            \* locals of the backpressure loop: entry looked at, any, blocked
  rpc,             \* where each reader is
  entry,           \* Ring::reader_ of each reader; 0 when it has none
  read_index,      \* the index each reader reads next
  out,             \* the reader's copy of the frame
  joined           \* history: write_index when the reader registered

slotVars == <<seq, frame_len, frame>>
registryVars == <<registry_mutex, pid, cursor>>
writerVars == <<write_index, wpc, scan>>
readerVars == <<rpc, entry, read_index, out, joined>>
vars == <<slotVars, mutex, registryVars, writerVars, readerVars>>

SlotIds == 0 .. Slots - 1
Entries == 1 .. MaxReaders
SlotOf(i) == i % Slots
Halves == [lo : Nat, hi : Nat]
Scans == [at : 1 .. MaxReaders + 1, any : BOOLEAN, blocked : BOOLEAN]
FreshScan == [at |-> 1, any |-> FALSE, blocked |-> FALSE]

WriterPcs == {"wait", "ready", "scan", "load", "lock", "invalidate", "copyLo", "copyHi",
              "length", "seal", "advance", "failed", "dead"}
ReaderPcs == {"out", "register", "enrol", "start", "read", "check", "resume", "copyLo",
              "copyHi", "commit", "corrupt", "dead"}

\* The writer holds the mutex of the slot it is publishing to.
Filling == {"invalidate", "copyLo", "copyHi", "length", "seal", "advance"}

\* The reader holds the mutex of the slot it is reading.
Reading == {"check", "resume", "copyLo", "copyHi", "commit"}

Init ==
  /\ seq = [s \in SlotIds |-> 0]
  /\ frame_len = [s \in SlotIds |-> 0]
  /\ frame = [s \in SlotIds |-> [lo |-> 0, hi |-> 0]]
  /\ mutex = [s \in SlotIds |-> None]
  /\ registry_mutex = None
  /\ pid = [e \in Entries |-> None]
  /\ cursor = [e \in Entries |-> 0]
  /\ write_index = 0
  /\ wpc = "wait"
  /\ scan = FreshScan
  /\ rpc = [r \in Readers |-> "out"]
  /\ entry = [r \in Readers |-> 0]
  /\ read_index = [r \in Readers |-> 0]
  /\ out = [r \in Readers |-> [lo |-> 0, hi |-> 0]]
  /\ joined = [r \in Readers |-> 0]

-----------------------------------------------------------------------------
(* Robust mutexes.                                                         *)

Killed(p) == \/ p = Writer /\ wpc = "dead"
             \/ p \in Readers /\ rpc[p] = "dead"

\* Lock::Lock: trylock succeeds on a free mutex, and on one whose owner died
\* (EOWNERDEAD, made consistent again).
Lockable(owner) == owner = None \/ Killed(owner)

\* A process is killed: it keeps the mutexes it holds and its registry entry.
KillWriter ==
  /\ Writer \in Mortal
  /\ wpc \notin {"failed", "dead"}
  /\ wpc' = "dead"
  /\ UNCHANGED <<slotVars, mutex, registryVars, write_index, scan, readerVars>>

KillReader(r) ==
  /\ r \in Mortal
  /\ rpc[r] \notin {"out", "dead"}
  /\ rpc' = [rpc EXCEPT ![r] = "dead"]
  /\ UNCHANGED <<slotVars, mutex, registryVars, writerVars, entry, read_index, out, joined>>

-----------------------------------------------------------------------------
(* The writer: the producer's loop around Ring::publish.                   *)

Goto(from, to) == wpc = from /\ wpc' = to

\* Ring::reader_count.
reader_count == Cardinality({e \in Entries : pid[e] # None})

\* The producer waits for its readers before it publishes anything.
WaitForReaders ==
  /\ Goto("wait", "ready")
  /\ reader_count >= WaitReaders
  /\ UNCHANGED <<slotVars, mutex, registryVars, write_index, scan, readerVars>>

\* publish() is called: with backpressure, and once the ring has wrapped, the
\* readers' cursors are inspected first.
Publish ==
  /\ write_index < MaxIndex
  /\ Goto("ready", IF Backpressure /\ write_index >= Slots THEN "scan" ELSE "lock")
  /\ UNCHANGED <<slotVars, mutex, registryVars, write_index, scan, readerVars>>

\* One iteration over the registry, first half: pid.load().
ScanPid ==
  /\ scan.at \in Entries
  /\ Goto("scan", IF pid[scan.at] # None THEN "load" ELSE "scan")
  /\ scan' = IF pid[scan.at] # None
             THEN [at |-> scan.at, any |-> TRUE, blocked |-> scan.blocked]
             ELSE [at |-> scan.at + 1, any |-> scan.any, blocked |-> scan.blocked]
  /\ UNCHANGED <<slotVars, mutex, registryVars, write_index, readerVars>>

\* Mutant: the reader's next frame itself may be overwritten (< for <=).
ScanCursorOffByOne ==
  /\ Goto("load", "scan")
  /\ scan' = [at |-> scan.at + 1, any |-> scan.any,
              blocked |-> scan.blocked \/ cursor[scan.at] < write_index - Slots]
  /\ UNCHANGED <<slotVars, mutex, registryVars, write_index, readerVars>>

\* Mutant: the writer waits until a reader has drained the whole ring.
ScanCursorDrained ==
  /\ Goto("load", "scan")
  /\ scan' = [at |-> scan.at + 1, any |-> scan.any,
              blocked |-> scan.blocked \/ cursor[scan.at] <= write_index]
  /\ UNCHANGED <<slotVars, mutex, registryVars, write_index, readerVars>>

\* Second half: cursor.load(); the reader still needs the slot's old frame.
ScanCursor ==
  /\ Goto("load", "scan")
  /\ scan' = [at |-> scan.at + 1, any |-> scan.any,
              blocked |-> scan.blocked \/ cursor[scan.at] <= write_index - Slots]
  /\ UNCHANGED <<slotVars, mutex, registryVars, write_index, readerVars>>

\* Mutant: one reader that has moved on is enough.
ScanPassedAny ==
  /\ scan.at \notin Entries
  /\ scan.any
  /\ Goto("scan", "lock")
  /\ scan' = FreshScan
  /\ UNCHANGED <<slotVars, mutex, registryVars, write_index, readerVars>>

\* The registry has been scanned: go on, or sleep and scan again.
ScanPassed ==
  /\ scan.at \notin Entries
  /\ scan.any /\ ~scan.blocked
  /\ Goto("scan", "lock")
  /\ scan' = FreshScan
  /\ UNCHANGED <<slotVars, mutex, registryVars, write_index, readerVars>>

ScanBlocked ==
  /\ scan.at \notin Entries
  /\ ~scan.any \/ scan.blocked
  /\ Goto("scan", "scan")
  /\ scan' = FreshScan
  /\ UNCHANGED <<slotVars, mutex, registryVars, write_index, readerVars>>

\* A deadline expires and the producer fails: in the wait for readers, in the
\* backpressure loop, or in Lock on a slot that a live reader holds.
Deadline ==
  /\ Deadlines
  /\ \/ wpc = "wait" /\ reader_count < WaitReaders
     \/ wpc = "scan" /\ scan.at \notin Entries /\ (~scan.any \/ scan.blocked)
     \/ wpc = "lock" /\ ~Lockable(mutex[SlotOf(write_index)])
  /\ wpc' = "failed"
  /\ UNCHANGED <<slotVars, mutex, registryVars, write_index, scan, readerVars>>

\* Lock lock(slot.mutex).
LockSlot ==
  /\ Goto("lock", "invalidate")
  /\ Lockable(mutex[SlotOf(write_index)])
  /\ mutex' = [mutex EXCEPT ![SlotOf(write_index)] = Writer]
  /\ UNCHANGED <<slotVars, registryVars, write_index, scan, readerVars>>

\* Mutant: the slot is not invalidated before the copy.
InvalidateNothing ==
  /\ Goto("invalidate", "copyLo")
  /\ UNCHANGED <<slotVars, mutex, registryVars, write_index, scan, readerVars>>

\* slot.seq=0;slot.frame_len=0.
Invalidate ==
  /\ Goto("invalidate", "copyLo")
  /\ seq' = [seq EXCEPT ![SlotOf(write_index)] = 0]
  /\ frame_len' = [frame_len EXCEPT ![SlotOf(write_index)] = 0]
  /\ UNCHANGED <<frame, mutex, registryVars, write_index, scan, readerVars>>

\* memcpy(slot.frame,frame,len), in two parts.
CopyInLo ==
  /\ Goto("copyLo", "copyHi")
  /\ frame' = [frame EXCEPT ![SlotOf(write_index)] = [lo |-> write_index + 1, hi |-> @.hi]]
  /\ UNCHANGED <<seq, frame_len, mutex, registryVars, write_index, scan, readerVars>>

CopyInHi ==
  /\ Goto("copyHi", "length")
  /\ frame' = [frame EXCEPT ![SlotOf(write_index)] = [lo |-> @.lo, hi |-> write_index + 1]]
  /\ UNCHANGED <<seq, frame_len, mutex, registryVars, write_index, scan, readerVars>>

\* slot.frame_len=len.
StoreLength ==
  /\ Goto("length", "seal")
  /\ frame_len' = [frame_len EXCEPT ![SlotOf(write_index)] = 1]
  /\ UNCHANGED <<seq, frame, mutex, registryVars, write_index, scan, readerVars>>

\* Mutant: the sequence number is not the index plus one.
SealIndex ==
  /\ Goto("seal", "advance")
  /\ seq' = [seq EXCEPT ![SlotOf(write_index)] = write_index]
  /\ UNCHANGED <<frame_len, frame, mutex, registryVars, write_index, scan, readerVars>>

\* slot.seq=idx+1.
Seal ==
  /\ Goto("seal", "advance")
  /\ seq' = [seq EXCEPT ![SlotOf(write_index)] = write_index + 1]
  /\ UNCHANGED <<frame_len, frame, mutex, registryVars, write_index, scan, readerVars>>

\* write_index.store(idx+1), then ~Lock.
Advance ==
  /\ Goto("advance", "ready")
  /\ write_index' = write_index + 1
  /\ mutex' = [mutex EXCEPT ![SlotOf(write_index)] = None]
  /\ UNCHANGED <<slotVars, registryVars, scan, readerVars>>

-----------------------------------------------------------------------------
(* A reader: Ring::attach, Ring::read and ~Ring, in the consumer's loop.   *)

Step(r, from, to) == rpc[r] = from /\ rpc' = [rpc EXCEPT ![r] = to]

\* attach(): Lock lock(header_->registry_mutex).
LockRegistry(r) ==
  /\ Step(r, "out", "register")
  /\ Lockable(registry_mutex)
  /\ registry_mutex' = r
  /\ UNCHANGED <<slotVars, mutex, pid, cursor, writerVars, entry, read_index, out, joined>>

FreeEntries == {e \in Entries : pid[e] = None}

\* The first entry whose pid is 0 gets cursor 0, ...
StoreCursor(r) ==
  /\ Step(r, "register", "enrol")
  /\ \E e \in FreeEntries :
       /\ \A f \in FreeEntries : e <= f
       /\ entry' = [entry EXCEPT ![r] = e]
       /\ cursor' = [cursor EXCEPT ![e] = 0]
  /\ UNCHANGED <<slotVars, mutex, registry_mutex, pid, writerVars, read_index, out, joined>>

\* ... and then the reader's pid; ~Lock.
StorePid(r) ==
  /\ Step(r, "enrol", "start")
  /\ pid' = [pid EXCEPT ![entry[r]] = r]
  /\ registry_mutex' = None
  /\ joined' = [joined EXCEPT ![r] = write_index]
  /\ UNCHANGED <<slotVars, mutex, cursor, writerVars, entry, read_index, out>>

\* No entry is free: attach throws and the process ends.
RegistryFull(r) ==
  /\ Step(r, "register", "out")
  /\ FreeEntries = {}
  /\ registry_mutex' = None
  /\ UNCHANGED <<slotVars, mutex, pid, cursor, writerVars, entry, read_index, out, joined>>

\* The consumer starts at 0 or, with --from-edge, at live_edge().
StartIndex(r) ==
  /\ Step(r, "start", "read")
  /\ read_index' = [read_index EXCEPT ![r] = IF r \in FromEdge THEN write_index ELSE 0]
  /\ UNCHANGED <<slotVars, mutex, registryVars, writerVars, entry, out, joined>>

\* read(): trylock.  A busy mutex is reported as kEmpty and changes nothing.
TryLock(r) ==
  /\ Step(r, "read", "check")
  /\ Lockable(mutex[SlotOf(read_index[r])])
  /\ mutex' = [mutex EXCEPT ![SlotOf(read_index[r])] = r]
  /\ UNCHANGED <<slotVars, registryVars, writerVars, entry, read_index, out, joined>>

\* What read() finds in the slot, as the place where the reader goes on: kEmpty
\* ("read"), kLapped ("resume"), kCorrupt or a frame to copy.
Verdict(s, i) ==
  CASE seq[s] < i + 1 -> "read"
    [] seq[s] > i + 1 -> "resume"
    [] seq[s] = i + 1 /\ frame_len[s] = 0 -> "corrupt"
    [] OTHER -> "copyLo"

Check(r) ==
  LET s == SlotOf(read_index[r])
      verdict == Verdict(s, read_index[r])
  IN  /\ Step(r, "check", verdict)
      /\ mutex' = IF verdict \in Reading THEN mutex ELSE [mutex EXCEPT ![s] = None]
      /\ UNCHANGED <<slotVars, registryVars, writerVars, entry, read_index, out, joined>>

\* Mutant: a lapped reader starts over.
ResumeFromStart == 0

\* kLapped: go on with the oldest frame that live_edge() promises.
ResumeIndex == IF write_index > Slots THEN write_index - Slots ELSE 0

\* Mutant: a lapped reader forgets the resume index it was given.
ResumeIgnored(r) ==
  /\ Step(r, "resume", "read")
  /\ mutex' = [mutex EXCEPT ![SlotOf(read_index[r])] = None]
  /\ UNCHANGED <<slotVars, registryVars, writerVars, entry, read_index, out, joined>>

Resume(r) ==
  /\ Step(r, "resume", "read")
  /\ read_index' = [read_index EXCEPT ![r] = ResumeIndex]
  /\ mutex' = [mutex EXCEPT ![SlotOf(read_index[r])] = None]
  /\ UNCHANGED <<slotVars, registryVars, writerVars, entry, out, joined>>

\* memcpy(out,slot.frame,slot.frame_len), in two parts.
CopyOutLo(r) ==
  /\ Step(r, "copyLo", "copyHi")
  /\ out' = [out EXCEPT ![r] = [lo |-> frame[SlotOf(read_index[r])].lo, hi |-> @.hi]]
  /\ UNCHANGED <<slotVars, mutex, registryVars, writerVars, entry, read_index, joined>>

CopyOutHi(r) ==
  /\ Step(r, "copyHi", "commit")
  /\ out' = [out EXCEPT ![r] = [lo |-> @.lo, hi |-> frame[SlotOf(read_index[r])].hi]]
  /\ UNCHANGED <<slotVars, mutex, registryVars, writerVars, entry, read_index, joined>>

\* Mutant: the cursor is not stored.
CommitSilently(r) ==
  /\ Step(r, "commit", "read")
  /\ mutex' = [mutex EXCEPT ![SlotOf(read_index[r])] = None]
  /\ read_index' = [read_index EXCEPT ![r] = @ + 1]
  /\ UNCHANGED <<slotVars, registryVars, writerVars, entry, out, joined>>

\* cursor.store(index+1), ~Lock, kOk: the consumer takes the frame and moves on.
Commit(r) ==
  /\ Step(r, "commit", "read")
  /\ cursor' = [cursor EXCEPT ![entry[r]] = read_index[r] + 1]
  /\ mutex' = [mutex EXCEPT ![SlotOf(read_index[r])] = None]
  /\ read_index' = [read_index EXCEPT ![r] = @ + 1]
  /\ UNCHANGED <<slotVars, registry_mutex, pid, writerVars, entry, out, joined>>

\* The consumer's loop ends (count reached, idle, stopped, bad frame): ~Ring.
\* The process and its locals are gone; r stands for a new one from now on.
Detach(r) ==
  /\ r \in Leaving
  /\ rpc[r] \in {"read", "corrupt"}
  /\ rpc' = [rpc EXCEPT ![r] = "out"]
  /\ pid' = [pid EXCEPT ![entry[r]] = None]
  /\ entry' = [entry EXCEPT ![r] = 0]
  /\ read_index' = [read_index EXCEPT ![r] = 0]
  /\ out' = [out EXCEPT ![r] = [lo |-> 0, hi |-> 0]]
  /\ joined' = [joined EXCEPT ![r] = 0]
  /\ UNCHANGED <<slotVars, mutex, registry_mutex, cursor, writerVars>>

-----------------------------------------------------------------------------
Publication == \/ WaitForReaders \/ Publish
               \/ ScanPid \/ ScanCursor \/ ScanPassed \/ ScanBlocked
               \/ LockSlot \/ Invalidate \/ CopyInLo \/ CopyInHi
               \/ StoreLength \/ Seal \/ Advance

Attachment(r) == \/ LockRegistry(r) \/ StoreCursor(r) \/ StorePid(r)
                 \/ RegistryFull(r) \/ StartIndex(r)

ReadStep(r) == \/ Check(r) \/ Resume(r) \/ CopyOutLo(r) \/ CopyOutHi(r) \/ Commit(r)

Next ==
  \/ Publication \/ Deadline \/ KillWriter
  \/ \E r \in Readers :
       Attachment(r) \/ TryLock(r) \/ ReadStep(r) \/ Detach(r) \/ KillReader(r)

Spec == Init /\ [][Next]_vars

\* The processes run: the writer and every reader keep taking the steps they
\* can.  Both poll a slot's mutex with trylock while others hold it only for a
\* copy, so a process that finds it free again and again gets it: strong
\* fairness of LockSlot and TryLock.
Fairness ==
  /\ WF_vars(Publication) /\ SF_vars(LockSlot)
  /\ \A r \in Readers : /\ WF_vars(Attachment(r))
                        /\ WF_vars(ReadStep(r))
                        /\ SF_vars(TryLock(r))

FairSpec == Spec /\ Fairness
-----------------------------------------------------------------------------
(* Properties.                                                             *)

SlotTypes ==
  /\ seq \in [SlotIds -> Nat]
  /\ frame_len \in [SlotIds -> {0, 1}]
  /\ frame \in [SlotIds -> Halves]
  /\ mutex \in [SlotIds -> Readers \cup {Writer, None}]

RegistryTypes ==
  /\ registry_mutex \in Readers \cup {None}
  /\ pid \in [Entries -> Readers \cup {None}]
  /\ cursor \in [Entries -> Nat]

WriterTypes ==
  /\ write_index \in Nat
  /\ wpc \in WriterPcs
  /\ scan \in Scans
  /\ wpc = "load" => scan.at \in Entries

ReaderTypes ==
  /\ rpc \in [Readers -> ReaderPcs]
  /\ entry \in [Readers -> 0 .. MaxReaders]
  /\ read_index \in [Readers -> Nat]
  /\ out \in [Readers -> Halves]
  /\ joined \in [Readers -> Nat]

\* Every variable has its type; a reader's entry and the scan stay inside the
\* registry of kMaxReaders entries.
TypeOK == SlotTypes /\ RegistryTypes /\ WriterTypes /\ ReaderTypes

\* A frame that read() hands out is the whole frame published at that index,
\* never a mix of two publications and never corrupt, whichever process was
\* killed in the middle of a copy: publish() invalidates the slot before it
\* copies, and both sides hold the slot's robust mutex.
ReadsIntact ==
  \A r \in Readers :
    /\ rpc[r] = "commit" =>
         out[r] = [lo |-> read_index[r] + 1, hi |-> read_index[r] + 1]
    /\ rpc[r] # "corrupt"

\* The last Slots - 1 published frames are in their slots, sealed and whole,
\* whatever the writer is doing or was doing when it was killed.
RecentFramesKept ==
  \A i \in 0 .. write_index - 1 :
    write_index - Slots < i =>
      /\ seq[SlotOf(i)] = i + 1
      /\ frame_len[SlotOf(i)] = 1
      /\ frame[SlotOf(i)] = [lo |-> i + 1, hi |-> i + 1]

\* A registered reader that has read something, or that registered before the
\* ring wrapped.
Established(e) == /\ pid[e] # None
                  /\ cursor[e] > 0 \/ joined[pid[e]] < Slots

\* With backpressure the writer never reuses a slot whose frame an established
\* reader has still to read, even if that reader is dead: publish() waits for
\* every registered cursor to pass the old frame.
UnreadFramesKept ==
  Backpressure =>
    \A e \in Entries : Established(e) =>
      /\ write_index <= cursor[e] + Slots
      /\ wpc \in Filling => write_index < cursor[e] + Slots

\* With backpressure read() reports kLapped only to a reader that registered
\* after the ring had wrapped and has not read a frame yet.
OnlyNewcomersLapped ==
  Backpressure =>
    \A r \in Readers : rpc[r] = "resume" => ~Established(entry[r])

\* The writer is in the backpressure loop for the sake of a reader that is alive
\* and polls for a frame the writer has not published: only the writer's
\* two-second deadline ends this.
MutualWait(e) ==
  /\ wpc \in {"scan", "load"} /\ cursor[e] <= write_index - Slots
  /\ rpc[pid[e]] = "read" /\ read_index[pid[e]] >= write_index

\* publish() and a live reader never wait for each other, except that attach()
\* registers cursor 0 for a --from-edge reader, which holds the writer up until
\* the reader's first read() although it needs none of the old frames.
NoMutualWait ==
  Backpressure =>
    \A e \in Entries : pid[e] # None /\ MutualWait(e) => pid[e] \in FromEdge /\ cursor[e] = 0

\* A reader's index never moves back while it stays attached, so a consumer
\* never sees a publication twice: the resume index of read() is never below
\* the index that was lapped.
NeverRereads ==
  [][\A r \in Readers : rpc'[r] = "out" \/ read_index'[r] >= read_index[r]]_vars

\* A reader that read() reports as lapped gets past the index it was at: the
\* writer it raced against seals and advances.
LappedReaderMovesOn ==
  \A r \in Readers : \A i \in 0 .. MaxIndex - Slots - 1 :
    (rpc[r] = "resume" /\ read_index[r] = i) ~> (read_index[r] # i \/ rpc[r] \in {"out", "dead"})

\* publish() never waits for readers that are waiting for it: a writer held up
\* by backpressure is released by readers that are registered, alive and
\* reading, everything gets published, and every reader reads to the end.
EverythingRead ==
  <>[](write_index = MaxIndex /\ \A r \in Readers : read_index[r] = MaxIndex)

=============================================================================
