--------------------------- MODULE LifecycleProofs ---------------------------
(***************************************************************************)
(* Proofs about what outlives a process that is killed at any step.        *)
(*                                                                         *)
(* The segment, for any number of creators and readers: its name belongs   *)
(* to one creator, and a reader maps nothing that is half built.           *)
(*                                                                         *)
(* The group of services and its state file, for any group, any number of  *)
(* restarts, and signals, kills and requests at any step: groups do not    *)
(* overlap, the state file is never stale, and discovery answers only for  *)
(* groups that were complete.                                              *)
(***************************************************************************)
EXTENDS Segment, Supervisor, TLAPS

USE SegmentAssumption, SupervisorAssumption

----------------------------------------------------------------------------
(* The segment *)

\* How far a creator is tells how far its object is.
StageOf(c) ==
  /\ cpc[c] = "start" => stage[c] = "none"
  /\ cpc[c] \in {"created", "locked"} => stage[c] = "empty"
  /\ cpc[c] = "mapped" => stage[c] = "sized"
  /\ cpc[c] = "header" => stage[c] = "header"
  /\ cpc[c] \in {"attached", "ready", "done"} => stage[c] = "whole"

\* What a reader knows of the object it opened: it was created, nobody holds the
\* exclusive lock while it probes, and once mapped it is whole or abandoned.
Opened(r) ==
  /\ rpc[r] \in {"poll", "probe", "mapped", "attached"} =>
       fd[r] \in Creators /\ cpc[fd[r]] # "start"
  /\ rpc[r] = "probe" => cpc[fd[r]] \notin Locking
  /\ rpc[r] \in {"mapped", "attached"} =>
       stage[fd[r]] = "whole" \/ cpc[fd[r]] \in {"failed", "dead"}

SegmentInv ==
  /\ SegmentTypeOK
  /\ NameIsOwned
  /\ \A c \in Creators : StageOf(c)
  /\ \A r \in Readers : Opened(r)

\* The invariant holds before the first creator.
LEMMA SegmentInitInv == SegmentInit => SegmentInv
  BY DEF SegmentInit, SegmentInv, SegmentTypeOK, NameIsOwned, StageOf, Opened, Owning,
         Locking, CreatorPcs, ReaderPcs, Stages

\* A creator's steps keep what readers know of its object.
LEMMA CreatorKeeps ==
  ASSUME SegmentInv, NEW c \in Creators,
         \/ Setup(c) \/ SetupFails(c) \/ KillCreator(c)
         \/ \E status \in {"done", "failed"} : Unlink(c, status)
  PROVE  SegmentInv'
<1> USE DEF SegmentInv, SegmentTypeOK, CreatorPcs, Stages, Locking, Owning
<1>1. CASE Create(c)
  BY <1>1 DEF Create, CreatorStep, NameIsOwned, StageOf, Opened
<1>2. CASE NameTaken(c)
  BY <1>2 DEF NameTaken, CreatorStep, NameIsOwned, StageOf, Opened
<1>3. CASE LockEx(c)
  BY <1>3 DEF LockEx, Sharing, CreatorStep, NameIsOwned, StageOf, Opened
<1>4. CASE Truncate(c)
  BY <1>4 DEF Truncate, CreatorStep, NameIsOwned, StageOf, Opened
<1>5. CASE InitHeader(c)
  BY <1>5 DEF InitHeader, CreatorStep, NameIsOwned, StageOf, Opened
<1>6. CASE InitSlots(c)
  BY <1>6 DEF InitSlots, CreatorStep, NameIsOwned, StageOf, Opened
<1>7. CASE Ready(c)
  BY <1>7 DEF Ready, CreatorStep, NameIsOwned, StageOf, Opened
<1>8. CASE SetupFails(c)
  BY <1>8 DEF SetupFails, NameIsOwned, StageOf, Opened
<1>9. CASE KillCreator(c)
  BY <1>9 DEF KillCreator, NameIsOwned, StageOf, Opened
<1>10. ASSUME NEW status \in {"done", "failed"}, Unlink(c, status) PROVE SegmentInv'
  BY <1>10 DEF Unlink, CreatorStep, NameIsOwned, StageOf, Opened
<1> QED
  BY <1>1, <1>2, <1>3, <1>4, <1>5, <1>6, <1>7, <1>8, <1>9, <1>10 DEF Setup, Initialise

\* A reader's steps change only where it is and what it opened.
LEMMA ReaderKeeps ==
  ASSUME SegmentInv, NEW r \in Readers,
         \/ Opening(r) \/ KillReader(r)
         \/ \E status \in {"done", "failed"} : Detach(r, status)
  PROVE  SegmentInv'
<1> USE DEF SegmentInv, SegmentTypeOK, ReaderPcs
<1>1. CASE Open(r)
  BY <1>1 DEF Open, ReaderStep, NameIsOwned, StageOf, Opened, Owning, Locking
<1>2. CASE Probe(r)
  BY <1>2 DEF Probe, Excluded, ReaderStep, NameIsOwned, StageOf, Opened
<1>3. CASE ProbeEmpty(r)
  BY <1>3 DEF ProbeEmpty, ReaderStep, NameIsOwned, StageOf, Opened
<1>4. CASE SizeMismatch(r)
  BY <1>4 DEF SizeMismatch, ReaderStep, NameIsOwned, StageOf, Opened
<1>5. CASE Map(r)
  <2>1. stage[fd[r]] = "whole" \/ cpc[fd[r]] \in {"failed", "dead"}
    BY <1>5 DEF Map, ReaderStep, StageOf, Opened, Locking, Owning, CreatorPcs
  <2> QED
    BY <1>5, <2>1 DEF Map, ReaderStep, NameIsOwned, StageOf, Opened
<1>6. CASE Attach(r)
  BY <1>6 DEF Attach, ReaderStep, NameIsOwned, StageOf, Opened
<1>7. CASE AttachMismatch(r)
  BY <1>7 DEF AttachMismatch, ReaderStep, NameIsOwned, StageOf, Opened
<1>8. CASE OpenDeadline(r)
  BY <1>8 DEF OpenDeadline, NameIsOwned, StageOf, Opened
<1>9. CASE KillReader(r)
  BY <1>9 DEF KillReader, NameIsOwned, StageOf, Opened
<1>10. ASSUME NEW status \in {"done", "failed"}, Detach(r, status) PROVE SegmentInv'
  BY <1>10 DEF Detach, ReaderStep, NameIsOwned, StageOf, Opened
<1> QED
  BY <1>1, <1>2, <1>3, <1>4, <1>5, <1>6, <1>7, <1>8, <1>9, <1>10 DEF Opening, Mapping

\* The invariant holds in every reachable state.
THEOREM SegmentInvariant == SegmentSpec => []SegmentInv
<1>1. SegmentInv /\ [SegmentNext]_segmentVars => SegmentInv'
  <2> SUFFICES ASSUME SegmentInv, [SegmentNext]_segmentVars PROVE SegmentInv'
    OBVIOUS
  <2>1. CASE SegmentNext
    BY <2>1, CreatorKeeps, ReaderKeeps DEF SegmentNext
  <2>2. CASE UNCHANGED segmentVars
    BY <2>2 DEF segmentVars, SegmentInv, SegmentTypeOK, NameIsOwned, StageOf, Opened
  <2> QED
    BY <2>1, <2>2
<1> QED
  BY SegmentInitInv, <1>1, PTL DEF SegmentSpec

\* However many processes create, open, fail and are killed, in any order: a
\* creator removes no segment but its own, and only a killed one leaves a name.
THEOREM SegmentOwnership == SegmentSpec => []NameIsOwned
<1>1. SegmentInv => NameIsOwned
  BY DEF SegmentInv
<1> QED
  BY SegmentInvariant, <1>1, PTL

\* No reader attaches to a ring that its creator is still initialising.
THEOREM SegmentAttachment == SegmentSpec => []AttachedToWhole
<1>1. SegmentInv => AttachedToWhole
  BY DEF SegmentInv, Opened, AttachedToWhole
<1> QED
  BY SegmentInvariant, <1>1, PTL

----------------------------------------------------------------------------
(* The supervisor and the registry *)

Body == {"start", "append", "wait", "check", "publish", "watch"}
Starting == {"start", "append", "wait", "check", "publish"}
SupervisorPcs == Body \union {"terminate", "kill", "decide"} \union Exits

SupervisorTypeOK ==
  /\ pc \in SupervisorPcs /\ i \in Nat \ {0} /\ children \in 0 .. N
  /\ epoch \in Nat \ {0} /\ base \in 1 .. epoch /\ file \in 0 .. epoch
  /\ outcome \in {"return", "error", "interrupt"}
  /\ running \subseteq Nat \X (Nat \ {0})

\* Where the supervisor's loops are: the list children holds the services up to i,
\* or all of them.
Looping ==
  /\ pc = "start" => i =< N + 1 /\ children = i - 1
  /\ pc = "append" => i =< N /\ children = i - 1
  /\ pc = "wait" => children = i
  /\ pc \in {"check", "publish", "watch"} => children = N
  /\ pc \in {"check", "watch"} => i =< N
  /\ pc \in {"terminate", "kill"} => i =< children + 1
  /\ pc \in Body => outcome = "return"

\* What the state file says of the groups of this supervisor.
FileCurrent ==
  file >= base => file = epoch /\ pc \in {"watch", "terminate", "kill", "stopped", "killed"}

\* The processes of this group that may run.  A SIGTERM between Popen and append can
\* leave one that is not in children, but after it there is no further group.
MayRun(c) ==
  /\ pc \in Body \union {"terminate"} /\ outcome # "interrupt" =>
       c =< children \/ (pc = "append" /\ c = i)
  /\ pc = "kill" /\ outcome # "interrupt" => i =< c /\ c =< children
  /\ pc = "decide" => outcome = "interrupt"
  /\ pc \notin {"ok", "failed"}

\* The processes of this supervisor's earlier groups have ended.
GroupsApart == \A p \in running : p[1] < base \/ (p[1] = epoch /\ MayRun(p[2]))

\* What a request has seen of the group it found: nothing of that group is started
\* any more, what had ended is gone for good, and the services it has checked had not.
Answering ==
  dpc # "idle" =>
    /\ found \in 1 .. epoch /\ (found = epoch => pc \notin Starting)
    /\ ended \subseteq Services /\ \A c \in ended : <<found, c>> \notin running
    /\ checked \in 0 .. N /\ \A c \in 1 .. checked : c \notin ended
    /\ dpc = "check" => checked < N
    /\ dpc = "ok" => checked = N

SupervisorInv ==
  /\ SupervisorTypeOK /\ Looping /\ GroupsApart
  /\ FileCurrent /\ Answering

-----------------------------------------------------------------------------
\* The invariant holds when the first supervisor starts.
LEMMA SupervisorInit == Init => SupervisorInv
  BY DEF Init, SupervisorInv, SupervisorTypeOK, SupervisorPcs, Body, Exits, Looping, GroupsApart,
         FileCurrent, Answering

\* A step inside a group that starts no process and leaves the state file.
LEMMA GroupStepKeeps ==
  ASSUME SupervisorInv,
         UNCHANGED <<epoch, base, running, file, dpc, found, checked, ended>>,
         SupervisorTypeOK', Looping',
         \A c \in Nat : MayRun(c) => MayRun(c)',
         file >= base => pc' \in {"watch", "terminate", "kill", "stopped", "killed"},
         pc' \in Starting => pc \in Starting
  PROVE  SupervisorInv'
<1>1. GroupsApart'
  <2> SUFFICES ASSUME NEW p \in running
               PROVE  p[1] < base \/ (p[1] = epoch /\ MayRun(p[2])')
    BY DEF GroupsApart, MayRun
  <2>1. p[2] \in Nat
    BY DEF SupervisorInv, SupervisorTypeOK
  <2> QED
    BY <2>1 DEF SupervisorInv, GroupsApart
<1>2. FileCurrent' /\ Answering'
  BY DEF SupervisorInv, FileCurrent, Answering
<1> QED
  BY <1>1, <1>2 DEF SupervisorInv

\* The body of run() ends.
LEMMA FinallyKeeps ==
  ASSUME SupervisorInv, pc \in Body \ {"append"}, NEW how \in {"return", "error"}, Finally(how),
         UNCHANGED <<running, file, registryVars>>
  PROVE  SupervisorInv'
<1> USE DEF Finally, Goto, registryVars
<1>1. SupervisorTypeOK' /\ Looping'
  BY DEF SupervisorInv, SupervisorTypeOK, SupervisorPcs, Body, Exits, Looping
<1>2. \A c \in Nat : MayRun(c) => MayRun(c)'
  BY DEF SupervisorInv, MayRun, Looping, Body
<1> QED
  BY <1>1, <1>2, GroupStepKeeps DEF Starting

-----------------------------------------------------------------------------
(* Steps of the supervisor *)

\* Popen starts a process of a group that no request has found yet.
LEMMA SpawnKeeps ==
  ASSUME SupervisorInv, Spawn
  PROVE  SupervisorInv'
<1> USE DEF SupervisorInv
<1>1. /\ pc = "start" /\ i =< N /\ pc' = "append" /\ running' = running \union {<<epoch, i>>}
      /\ UNCHANGED <<i, children, epoch, base, outcome, file, dpc, found, checked, ended>>
  BY DEF Spawn, Goto, registryVars
<1>2. SupervisorTypeOK' /\ Looping'
  BY <1>1 DEF SupervisorTypeOK, SupervisorPcs, Body, Exits, Looping
<1>3. GroupsApart'
  <2> SUFFICES ASSUME NEW p \in running'
               PROVE  p[1] < base \/ (p[1] = epoch /\ MayRun(p[2])')
    BY <1>1 DEF GroupsApart, MayRun
  <2>1. CASE p = <<epoch, i>>
    BY <2>1, <1>1 DEF MayRun
  <2>2. CASE p \in running
    BY <2>2, <1>1 DEF GroupsApart, MayRun, Body
  <2> QED
    BY <1>1, <2>1, <2>2
<1>4. FileCurrent'
  BY <1>1 DEF FileCurrent
<1>5. Answering'
  <2> SUFFICES ASSUME dpc # "idle" PROVE Answering'
    BY <1>1 DEF Answering
  <2>1. found # epoch
    BY <1>1 DEF Answering, Starting
  <2>2. \A c \in ended : <<found, c>> \notin running'
    BY <1>1, <2>1 DEF Answering
  <2> QED
    BY <1>1, <2>1, <2>2 DEF Answering
<1> QED
  BY <1>2, <1>3, <1>4, <1>5

\* The steps of run() before its finally clause that start no process.
LEMMA BodyKeeps ==
  ASSUME SupervisorInv,
         SpawnFails \/ AppendChild \/ ServiceReady \/ ServiceNotReady \/ AllStarted
           \/ CheckStarted \/ Watch
  PROVE  SupervisorInv'
<1> USE DEF SupervisorInv
<1>1. CASE SpawnFails \/ ServiceNotReady
  BY <1>1, FinallyKeeps DEF SpawnFails, ServiceNotReady, Body, processVars
<1>2. CASE AppendChild
  <2>1. /\ pc = "append" /\ children' = i
        /\ (pc' = "wait" /\ i' = i) \/ (pc' = "start" /\ i' = i + 1)
        /\ UNCHANGED <<epoch, base, outcome, running, file, dpc, found, checked, ended>>
    BY <1>2 DEF AppendChild, Goto, processVars, registryVars
  <2>2. SupervisorTypeOK' /\ Looping'
    BY <2>1 DEF SupervisorTypeOK, SupervisorPcs, Body, Exits, Looping
  <2>3. \A c \in Nat : MayRun(c) => MayRun(c)'
    BY <2>1 DEF MayRun, SupervisorTypeOK, Looping, Body
  <2> QED
    BY <2>1, <2>2, <2>3, GroupStepKeeps DEF Starting, FileCurrent
<1>3. CASE ServiceReady
  <2>1. /\ pc = "wait" /\ pc' = "start" /\ i' = i + 1
        /\ UNCHANGED <<children, epoch, base, outcome, running, file, dpc, found, checked, ended>>
    BY <1>3 DEF ServiceReady, Goto, processVars, registryVars
  <2>2. SupervisorTypeOK' /\ Looping'
    BY <2>1 DEF SupervisorTypeOK, SupervisorPcs, Body, Exits, Looping
  <2>3. \A c \in Nat : MayRun(c) => MayRun(c)'
    BY <2>1 DEF MayRun, SupervisorTypeOK, Looping, Body
  <2> QED
    BY <2>1, <2>2, <2>3, GroupStepKeeps DEF Starting, FileCurrent
<1>4. CASE AllStarted
  <2>1. /\ pc = "start" /\ i = N + 1 /\ pc' = "check" /\ i' = 1
        /\ UNCHANGED <<children, epoch, base, outcome, running, file, dpc, found, checked, ended>>
    BY <1>4 DEF AllStarted, Goto, processVars, registryVars
  <2>2. SupervisorTypeOK' /\ Looping'
    BY <2>1 DEF SupervisorTypeOK, SupervisorPcs, Body, Exits, Looping
  <2>3. \A c \in Nat : MayRun(c) => MayRun(c)'
    BY <2>1 DEF MayRun, Body
  <2> QED
    BY <2>1, <2>2, <2>3, GroupStepKeeps DEF Starting, FileCurrent
<1>5. CASE CheckStarted /\ UNCHANGED children /\ i' = i + 1
  <2>1. /\ pc = "check" /\ pc' = (IF i = N THEN "publish" ELSE "check")
        /\ UNCHANGED <<children, epoch, base, outcome, running, file, dpc, found, checked, ended>>
    BY <1>5 DEF CheckStarted, ChildEnded, Finally, Goto, processVars, registryVars,
                SupervisorTypeOK
  <2>2. SupervisorTypeOK' /\ Looping'
    BY <1>5, <2>1 DEF SupervisorTypeOK, SupervisorPcs, Body, Exits, Looping
  <2>3. \A c \in Nat : MayRun(c) => MayRun(c)'
    BY <2>1 DEF MayRun, Body
  <2> QED
    BY <2>1, <2>2, <2>3, GroupStepKeeps DEF Starting, FileCurrent
<1>6. CASE Watch /\ UNCHANGED <<pc, children, epoch, base, outcome>> /\ i' = (i % N) + 1
  <2>1. pc = "watch" /\ UNCHANGED <<running, file, dpc, found, checked, ended>>
    BY <1>6 DEF Watch, processVars, registryVars
  <2>2. i' \in 1 .. N
    BY <1>6 DEF SupervisorTypeOK
  <2>3. SupervisorTypeOK' /\ Looping'
    BY <1>6, <2>1, <2>2 DEF SupervisorTypeOK, SupervisorPcs, Body, Exits, Looping
  <2>4. \A c \in Nat : MayRun(c) => MayRun(c)'
    BY <1>6, <2>1 DEF MayRun, Body
  <2> QED
    BY <1>6, <2>1, <2>3, <2>4, GroupStepKeeps DEF Starting, FileCurrent
<1>7. CASE (CheckStarted \/ Watch) /\ ChildEnded
  <2>1. \E how \in {"return", "error"} : Finally(how)
    BY <1>7 DEF ChildEnded
  <2> QED
    BY <1>7, <2>1, FinallyKeeps DEF CheckStarted, Watch, Body, processVars
<1> QED
  BY <1>1, <1>2, <1>3, <1>4, <1>5, <1>6, <1>7 DEF CheckStarted, Watch

\* The group is registered when all of it has been started.
LEMMA PublishKeeps ==
  ASSUME SupervisorInv, Publish
  PROVE  SupervisorInv'
<1> USE DEF SupervisorInv
<1>1. CASE Finally("error") /\ UNCHANGED file
  BY <1>1, FinallyKeeps DEF Publish, Body, processVars
<1>2. CASE file' = epoch /\ pc' = "watch" /\ i' = 1 /\ UNCHANGED <<children, epoch, base, outcome>>
  <2>1. pc = "publish" /\ UNCHANGED <<running, dpc, found, checked, ended>>
    BY DEF Publish, processVars, registryVars
  <2>2. SupervisorTypeOK' /\ Looping'
    BY <1>2, <2>1 DEF SupervisorTypeOK, SupervisorPcs, Body, Exits, Looping
  <2>3. GroupsApart'
    BY <1>2, <2>1 DEF GroupsApart, MayRun, Body
  <2>4. FileCurrent' /\ Answering'
    BY <1>2, <2>1 DEF FileCurrent, Answering, Starting
  <2> QED
    BY <2>2, <2>3, <2>4
<1> QED
  BY <1>1, <1>2 DEF Publish, Goto

\* The finally clause kills the children one after the other.
LEMMA KillKeeps ==
  ASSUME SupervisorInv, Kill
  PROVE  SupervisorInv'
<1> USE DEF SupervisorInv
<1>1. /\ pc = "kill" /\ i =< children /\ i' = i + 1 /\ running' = running \ ({epoch} \X {i})
      /\ UNCHANGED <<pc, children, epoch, base, outcome, file, dpc, found, checked, ended>>
  BY DEF Kill, KillIn, registryVars
<1>2. SupervisorTypeOK' /\ Looping'
  BY <1>1 DEF SupervisorTypeOK, SupervisorPcs, Body, Exits, Looping
<1>3. GroupsApart'
  <2> SUFFICES ASSUME NEW p \in running, p \notin {epoch} \X {i}, p[1] = epoch, ~(p[1] < base)
               PROVE  MayRun(p[2])'
    BY <1>1 DEF GroupsApart, MayRun
  <2>1. p \in Nat \X (Nat \ {0})
    BY DEF SupervisorTypeOK
  <2>2. p[2] # i /\ p[2] \in Nat
    BY <2>1
  <2>3. MayRun(p[2])
    BY DEF GroupsApart
  <2> QED
    BY <1>1, <2>2, <2>3 DEF MayRun, Body, SupervisorTypeOK
<1>4. FileCurrent' /\ Answering'
  BY <1>1 DEF FileCurrent, Answering
<1> QED
  BY <1>2, <1>3, <1>4

\* The steps of the finally clause that kill no process, and the end of main().
LEMMA FinallyStepKeeps ==
  ASSUME SupervisorInv, Terminate \/ Grace \/ UnlinkState \/ Leave
  PROVE  SupervisorInv'
<1> USE DEF SupervisorInv
<1>1. CASE Terminate
  <2>1. /\ pc = "terminate" /\ i =< children /\ i' = i + 1
        /\ UNCHANGED <<pc, children, epoch, base, outcome, running, file, dpc, found, checked, ended>>
    BY <1>1 DEF Terminate, processVars, registryVars
  <2>2. SupervisorTypeOK' /\ Looping'
    BY <2>1 DEF SupervisorTypeOK, SupervisorPcs, Body, Exits, Looping
  <2>3. \A c \in Nat : MayRun(c) => MayRun(c)'
    BY <2>1 DEF MayRun, Body
  <2> QED
    BY <2>1, <2>2, <2>3, GroupStepKeeps DEF Starting, FileCurrent
<1>2. CASE Grace
  <2>1. /\ pc = "terminate" /\ pc' = "kill" /\ i' = 1
        /\ UNCHANGED <<children, epoch, base, outcome, running, file, dpc, found, checked, ended>>
    BY <1>2 DEF Grace, Goto, processVars, registryVars
  <2>2. SupervisorTypeOK' /\ Looping'
    BY <2>1 DEF SupervisorTypeOK, SupervisorPcs, Body, Exits, Looping
  <2>3. GroupsApart'
    <3> SUFFICES ASSUME NEW p \in running, ~(p[1] < base)
                 PROVE  p[1] = epoch /\ MayRun(p[2])'
      BY <2>1 DEF GroupsApart, MayRun
    <3>1. p[2] \in Nat \ {0}
      BY DEF SupervisorTypeOK
    <3> QED
      BY <2>1, <3>1 DEF GroupsApart, MayRun, Body
  <2>4. FileCurrent' /\ Answering'
    BY <2>1 DEF FileCurrent, Answering, Starting
  <2> QED
    BY <2>2, <2>3, <2>4
<1>3. CASE UnlinkState
  <2>1. /\ pc = "kill" /\ i = children + 1 /\ pc' = "decide" /\ file' = IF file = epoch THEN 0 ELSE file
        /\ UNCHANGED <<i, children, epoch, base, outcome, running, dpc, found, checked, ended>>
    BY <1>3 DEF UnlinkState, Goto, processVars, registryVars
  <2>2. SupervisorTypeOK' /\ Looping'
    BY <2>1 DEF SupervisorTypeOK, SupervisorPcs, Body, Exits, Looping
  <2>3. GroupsApart'
    <3> SUFFICES ASSUME NEW p \in running, ~(p[1] < base)
                 PROVE  p[1] = epoch /\ MayRun(p[2])'
      BY <2>1 DEF GroupsApart, MayRun
    <3>1. p[2] \in Nat
      BY DEF SupervisorTypeOK
    <3> QED
      BY <2>1, <3>1 DEF GroupsApart, MayRun, SupervisorTypeOK, Body
  <2>4. FileCurrent' /\ Answering'
    BY <2>1 DEF FileCurrent, Answering, Starting, SupervisorTypeOK
  <2> QED
    BY <2>2, <2>3, <2>4
<1>4. CASE Leave
  <2>1. /\ pc = "decide" /\ pc' \in {"ok", "failed", "stopped"}
        /\ outcome = "interrupt" => pc' = "stopped"
        /\ UNCHANGED <<i, children, epoch, base, outcome, running, file, dpc, found, checked, ended>>
    BY <1>4 DEF Leave, Goto, processVars, registryVars, SupervisorTypeOK
  <2>2. SupervisorTypeOK' /\ Looping'
    BY <2>1 DEF SupervisorTypeOK, SupervisorPcs, Body, Exits, Looping
  <2>3. \A c \in Nat : MayRun(c) => MayRun(c)'
    BY <2>1 DEF MayRun, Body
  <2> QED
    BY <2>1, <2>2, <2>3, GroupStepKeeps DEF Starting, FileCurrent
<1> QED
  BY <1>1, <1>2, <1>3, <1>4

\* A new group, of this supervisor or of the next one.
LEMMA NewGroupKeeps ==
  ASSUME SupervisorInv, Restart \/ Relaunch
  PROVE  SupervisorInv'
<1> USE DEF SupervisorInv
<1>1. /\ epoch' = epoch + 1 /\ pc' = "start" /\ i' = 1 /\ children' = 0 /\ outcome' = "return"
      /\ \/ pc = "decide" /\ outcome = "error" /\ base' = base
         \/ base' = epoch + 1
      /\ UNCHANGED <<running, file, dpc, found, checked, ended>>
  BY DEF Restart, Relaunch, NewGroup, Goto, processVars, registryVars
<1>2. SupervisorTypeOK' /\ Looping'
  BY <1>1 DEF SupervisorTypeOK, SupervisorPcs, Body, Exits, Looping
<1>3. GroupsApart'
  <2> SUFFICES ASSUME NEW p \in running PROVE p[1] < base'
    BY <1>1 DEF GroupsApart
  <2>1. p[1] \in Nat
    BY DEF SupervisorTypeOK
  <2> QED
    BY <1>1, <2>1 DEF GroupsApart, MayRun, SupervisorTypeOK
<1>4. FileCurrent'
  BY <1>1 DEF FileCurrent, SupervisorTypeOK
<1>5. Answering'
  BY <1>1 DEF Answering, SupervisorTypeOK
<1> QED
  BY <1>2, <1>3, <1>4, <1>5

\* Signals.
LEMMA SignalKeeps ==
  ASSUME SupervisorInv, Sigterm \/ Sigkill
  PROVE  SupervisorInv'
<1> USE DEF SupervisorInv
<1>1. /\ UNCHANGED <<children, epoch, base, running, file, dpc, found, checked, ended>>
      /\ \/ pc \in Body /\ pc' = "terminate" /\ outcome' = "interrupt" /\ i' = 1
         \/ pc \in {"terminate", "kill", "decide"} /\ pc' = "stopped" /\ outcome' = "interrupt" /\ i' = i
         \/ pc' = "killed" /\ UNCHANGED <<i, outcome>>
  BY DEF Sigterm, Sigkill, Finally, Goto, processVars, registryVars, Body
<1>2. SupervisorTypeOK' /\ Looping'
  BY <1>1 DEF SupervisorTypeOK, SupervisorPcs, Body, Exits, Looping
<1>3. \A c \in Nat : MayRun(c) => MayRun(c)'
  BY <1>1 DEF MayRun, Body
<1>4. file >= base => pc' \in {"watch", "terminate", "kill", "stopped", "killed"}
  BY <1>1
<1> QED
  BY <1>1, <1>2, <1>3, <1>4, GroupStepKeeps DEF Starting

-----------------------------------------------------------------------------
(* Services and requests *)

\* A service announces that it is ready or ends, and a pid is given away again.
LEMMA ServiceKeeps ==
  ASSUME SupervisorInv,
         \/ \E c \in Services : Announce(c)
         \/ \E p \in Processes : ServiceExits(p) \/ Recycle(p)
  PROVE  SupervisorInv'
<1> USE DEF SupervisorInv
<1>1. /\ UNCHANGED <<pc, i, children, epoch, base, outcome, file, dpc, found, checked, ended>>
      /\ running' \subseteq running
  BY Zenon DEF Announce, ServiceExits, Recycle, supervisorVars, processVars, registryVars
<1>2. SupervisorTypeOK' /\ Looping' /\ FileCurrent'
  BY <1>1 DEF SupervisorTypeOK, Looping, FileCurrent
<1>3. GroupsApart'
  BY <1>1 DEF GroupsApart, MayRun
<1>4. Answering'
  BY <1>1 DEF Answering
<1> QED
  BY <1>2, <1>3, <1>4

\* The steps of a request to the discovery service.
LEMMA RequestKeeps ==
  ASSUME SupervisorInv, Request \/ CheckService \/ Answered
  PROVE  SupervisorInv'
<1> USE DEF SupervisorInv
<1>1. UNCHANGED <<pc, i, children, epoch, base, outcome, running, file>>
  BY DEF Request, CheckService, Answered, supervisorVars, processVars
<1>2. SupervisorTypeOK' /\ Looping' /\ FileCurrent' /\ GroupsApart'
  BY <1>1 DEF SupervisorTypeOK, Looping, FileCurrent, GroupsApart, MayRun
<1>3. CASE Request
  <2>1. /\ dpc' = "check" /\ found' = file /\ file # 0 /\ checked' = 0 /\ ended' \subseteq Services
        /\ \A c \in ended' : <<file, c>> \notin running
    BY <1>3 DEF Request, HasEnded
  <2>2. file = epoch => pc \notin Starting
    BY DEF FileCurrent, SupervisorTypeOK, Starting
  <2> QED
    BY <1>1, <1>2, <2>1, <2>2 DEF Answering, SupervisorTypeOK
<1>4. CASE dpc' = "idle"
  BY <1>2, <1>4 DEF Answering
<1>5. CASE CheckService /\ Valid(<<found, checked + 1>>)
  <2>1. /\ dpc = "check" /\ checked' = checked + 1 /\ <<found, checked + 1>> \in running
        /\ dpc' = (IF checked + 1 = N THEN "ok" ELSE "check") /\ UNCHANGED <<found, ended>>
    BY <1>5 DEF CheckService, Valid
  <2>2. checked + 1 \notin ended
    BY <2>1 DEF Answering
  <2>3. \A c \in 1 .. checked + 1 : c \notin ended
    BY <2>1, <2>2 DEF Answering
  <2> QED
    BY <1>1, <1>2, <2>1, <2>3 DEF Answering
<1> QED
  BY <1>3, <1>4, <1>5 DEF CheckService, Answered, EndRequest

-----------------------------------------------------------------------------
(* Theorems *)

\* The invariant holds in every state.
LEMMA SupervisorInvariance == Spec => []SupervisorInv
<1>1. ASSUME SupervisorInv, [Next]_vars
      PROVE  SupervisorInv'
  <2>1. CASE Supervise
    BY <1>1, <2>1, SpawnKeeps, BodyKeeps, PublishKeeps, KillKeeps, FinallyStepKeeps, NewGroupKeeps
       DEF Supervise
  <2>2. CASE Relaunch \/ Sigterm \/ Sigkill
    BY <1>1, <2>2, NewGroupKeeps, SignalKeeps
  <2>3. CASE \/ \E c \in Services : Announce(c)
             \/ \E p \in Processes : ServiceExits(p) \/ Recycle(p)
    BY <1>1, <2>3, ServiceKeeps
  <2>4. CASE Request \/ CheckService \/ Answered
    BY <1>1, <2>4, RequestKeeps
  <2>5. CASE UNCHANGED vars
    <3> USE <1>1, <2>5 DEF SupervisorInv, vars, supervisorVars, processVars, registryVars
    <3>1. SupervisorTypeOK' /\ Looping' /\ FileCurrent' /\ Answering'
      BY DEF SupervisorTypeOK, Looping, FileCurrent, Answering
    <3>2. GroupsApart'
      BY DEF GroupsApart, MayRun
    <3> QED
      BY <3>1, <3>2
  <2> QED
    BY <1>1, <2>1, <2>2, <2>3, <2>4, <2>5 DEF Next
<1>2. SupervisorInv /\ [Next]_vars => SupervisorInv'
  BY <1>1
<1> QED
  BY SupervisorInit, <1>2, PTL DEF Spec

\* Groups never overlap and none is left behind by a supervisor that returns or gives
\* up, for any number of services and restarts and with signals at every step.
THEOREM GroupsNeverOverlap == Spec => []NoneLeftBehind
<1>1. SupervisorInv => NoneLeftBehind
  BY DEF SupervisorInv, GroupsApart, MayRun, NoneLeftBehind
<1> QED
  BY <1>1, SupervisorInvariance, PTL

\* What the state file says of a group under watch, and what signals it takes for a
\* file to be left behind.
FileHistory ==
  /\ signals \in Nat /\ kills \in Nat
  /\ pc = "watch" => file = epoch
  /\ file # 0 /\ (file < base \/ pc \in {"stopped", "killed"}) => signals + kills > 0

\* Without signals every file is removed by the group that wrote it.
LEMMA FileHistoryKept ==
  ASSUME SupervisorInv, FileHistory, [Next]_vars
  PROVE  FileHistory'
<1> USE DEF SupervisorInv, FileHistory
<1>1. CASE Sigterm \/ Sigkill
  BY <1>1 DEF Sigterm, Sigkill, Finally, Goto
<1>2. CASE Restart \/ Relaunch
  <2>1. /\ pc \in Exits \union {"decide"} /\ pc' = "start" /\ base' \in {base, epoch + 1}
        /\ (pc \in Exits \/ base' = base) /\ UNCHANGED <<file, signals, kills>>
    BY <1>2 DEF Restart, Relaunch, NewGroup, Goto, faultVars
  <2> QED
    BY <2>1 DEF FileCurrent, SupervisorTypeOK, Exits
<1>3. CASE Publish \/ UnlinkState \/ Leave
  <2>1. UNCHANGED <<epoch, base, signals, kills>>
    BY <1>3 DEF Publish, UnlinkState, Leave, Finally, faultVars
  <2>2. CASE Publish
    BY <2>1, <2>2 DEF Publish, Finally, Goto, SupervisorTypeOK
  <2>3. CASE UnlinkState
    BY <2>1, <2>3 DEF UnlinkState, Goto, FileCurrent, SupervisorTypeOK
  <2>4. CASE Leave
    BY <2>1, <2>4 DEF Leave, Goto, FileCurrent, SupervisorTypeOK
  <2> QED
    BY <1>3, <2>2, <2>3, <2>4
<1>4. CASE Watch
  BY <1>4 DEF Watch, ChildEnded, Finally, Goto, faultVars
<1>5. CASE \/ Spawn \/ SpawnFails \/ AppendChild \/ ServiceReady \/ ServiceNotReady
           \/ AllStarted \/ CheckStarted \/ Terminate \/ Grace \/ Kill
  <2>1. /\ UNCHANGED <<file, epoch, base, signals, kills>>
        /\ pc' \notin {"watch", "stopped", "killed"}
    BY <1>5 DEF Spawn, SpawnFails, AppendChild, ServiceReady, ServiceNotReady, AllStarted,
                CheckStarted, ChildEnded, Terminate, Grace, Kill, KillIn, Finally, Goto, faultVars
  <2> QED
    BY <2>1
<1>6. CASE \/ \E c \in Services : Announce(c)
           \/ \E p \in Processes : ServiceExits(p) \/ Recycle(p)
           \/ Request \/ CheckService \/ Answered \/ UNCHANGED vars
  <2>1. UNCHANGED <<pc, file, epoch, base, signals, kills>>
    BY <1>6, Zenon DEF Announce, ServiceExits, Recycle, Request, CheckService, Answered, vars,
                supervisorVars, faultVars
  <2> QED
    BY <2>1
<1> QED
  BY <1>1, <1>2, <1>3, <1>4, <1>5, <1>6 DEF Next, Supervise

\* The state file names the watched group and none that this supervisor has ended or
\* is starting, and without signals no supervisor leaves one to the next.
THEOREM RegistrationNeverStale == Spec => []RegistrationCurrent
<1>1. Init => FileHistory
  BY DEF Init, FileHistory
<1>2. SupervisorInv /\ FileHistory /\ [Next]_vars => FileHistory'
  BY FileHistoryKept
<1>3. SupervisorInv /\ FileHistory => RegistrationCurrent
  BY DEF SupervisorInv, FileHistory, FileCurrent, RegistrationCurrent
<1> QED
  BY <1>1, <1>2, <1>3, SupervisorInvariance, PTL DEF Spec

\* Discovery answers 200 only for a group of which no service had ended when the
\* request came.
THEOREM DiscoveryIsFresh == Spec => []AnswersAreFresh
<1>1. SupervisorInv => AnswersAreFresh
  <2> SUFFICES ASSUME SupervisorInv, dpc = "ok" PROVE ended = {}
    BY DEF AnswersAreFresh
  <2>1. checked = N /\ ended \subseteq 1 .. N /\ \A c \in 1 .. checked : c \notin ended
    BY DEF SupervisorInv, Answering, Services
  <2> QED
    BY <2>1
<1> QED
  BY <1>1, SupervisorInvariance, PTL

=============================================================================
