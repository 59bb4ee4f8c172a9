------------------------------- MODULE Fanout -------------------------------
(***************************************************************************)
(* The sender's fan-out to several destinations (class Fanout of           *)
(* harness/src/sender.cpp): the main thread copies every batch into one    *)
(* bounded queue per destination, one worker thread per destination sends  *)
(* the queued batches, finish() drains and joins the workers, and the      *)
(* destructor stops them when the sender gives up.                         *)
(*                                                                         *)
(* Every critical section of a destination's mutex is one action; sending  *)
(* happens outside of it.  The condition variable is explicit: a worker    *)
(* that finds nothing to do sleeps until it is notified (or spuriously     *)
(* woken), so a missing notification would leave it asleep.                *)
(***************************************************************************)
EXTENDS Totals

CONSTANTS
  Targets,       \* number of destinations; they are visited in order
  QueueBytes,    \* --queue-bytes
  Faulty,        \* destinations whose sends may fail
  Hanging        \* destinations whose sends may never return

ASSUME FanoutAssumption ==
  /\ Targets \in Nat \ {0} /\ QueueBytes \in Nat
  /\ Faulty \subseteq 1 .. Targets /\ Hanging \subseteq 1 .. Targets

Dest == 1 .. Targets

VARIABLES
  batches,       \* the batches flushed so far, in order (history): their number of
                 \* frames, their bytes and their members
  mpc, at,       \* main thread: where it is, and at which destination
  queue,         \* per destination: numbers of the queued batches
  bytes, done, failed, rejected,   \* the other fields of DestinationState
  wpc, work,     \* its worker: where it is, and the batch it took
  sent           \* batches it sent completely, in order (history)

stateVars == <<queue, bytes, done, failed, rejected>>
vars == <<batches, mpc, at, stateVars, wpc, work, sent>>

All(value) == [d \in Dest |-> value]

\* The fan-out with its workers started, or without any.
Start(worker) ==
  /\ batches = <<>> /\ mpc = "run" /\ at = 1
  /\ queue = All(<<>>) /\ bytes = All(0)
  /\ done = All(FALSE) /\ failed = All(FALSE) /\ rejected = All(0)
  /\ wpc = All(worker) /\ work = All(0) /\ sent = All(<<>>)

\* The batch that enqueue hands to one destination after the other.
NewBatch == batches[Len(batches)]

\* Frames and bytes of a sequence of batches.
Frames(numbers) == Tally([i \in DOMAIN numbers |-> batches[numbers[i]].frames])
Bytes(numbers) == Tally([i \in DOMAIN numbers |-> batches[numbers[i]].bytes])

\* notify_one: the destination's worker is the only one that waits.
Notified(d) == [wpc EXCEPT ![d] = IF @ = "asleep" THEN "check" ELSE @]

\* The main thread goes on with the next destination, or after the last one
\* continues elsewhere.
NextTarget(then) ==
  IF at < Targets THEN at' = at + 1 /\ mpc' = mpc
                  ELSE at' = 1 /\ mpc' = then

----------------------------------------------------------------------------
(* Main thread *)

\* A destination that failed before only counts what it misses.
EnqueueFailed ==
  /\ mpc = "enqueue" /\ failed[at]
  /\ rejected' = [rejected EXCEPT ![at] = @ + NewBatch.frames]
  /\ NextTarget("run")
  /\ UNCHANGED <<batches, queue, bytes, done, failed, wpc, work, sent>>

Fits == bytes[at] + NewBatch.bytes =< QueueBytes

\* Mutant of EnqueueFull: the queued batches are dropped without being counted.
EnqueueFullUncounted ==
  /\ mpc = "enqueue" /\ ~failed[at] /\ ~Fits
  /\ failed' = [failed EXCEPT ![at] = TRUE]
  /\ rejected' = [rejected EXCEPT ![at] = @ + NewBatch.frames]
  /\ queue' = [queue EXCEPT ![at] = <<>>]
  /\ bytes' = [bytes EXCEPT ![at] = 0]
  /\ wpc' = Notified(at)
  /\ NextTarget("run")
  /\ UNCHANGED <<batches, done, work, sent>>

\* Mutant of EnqueueFull: only the new batch is rejected and the destination
\* stays in use.
EnqueueFullSkips ==
  /\ mpc = "enqueue" /\ ~failed[at] /\ ~Fits
  /\ rejected' = [rejected EXCEPT ![at] = @ + NewBatch.frames]
  /\ wpc' = Notified(at)
  /\ NextTarget("run")
  /\ UNCHANGED <<batches, queue, bytes, done, failed, work, sent>>

\* A queue that would overflow isolates its destination.
EnqueueFull ==
  /\ mpc = "enqueue" /\ ~failed[at] /\ ~Fits
  /\ failed' = [failed EXCEPT ![at] = TRUE]
  /\ rejected' = [rejected EXCEPT ![at] = @ + NewBatch.frames + Frames(queue[at])]
  /\ queue' = [queue EXCEPT ![at] = <<>>]
  /\ bytes' = [bytes EXCEPT ![at] = 0]
  /\ wpc' = Notified(at)
  /\ NextTarget("run")
  /\ UNCHANGED <<batches, done, work, sent>>

\* Mutant of EnqueueFits: the worker is not notified.
EnqueueFitsSilently ==
  /\ mpc = "enqueue" /\ ~failed[at] /\ Fits
  /\ queue' = [queue EXCEPT ![at] = Append(@, Len(batches))]
  /\ bytes' = [bytes EXCEPT ![at] = @ + NewBatch.bytes]
  /\ NextTarget("run")
  /\ UNCHANGED <<batches, done, failed, rejected, wpc, work, sent>>

EnqueueFits ==
  /\ mpc = "enqueue" /\ ~failed[at] /\ Fits
  /\ queue' = [queue EXCEPT ![at] = Append(@, Len(batches))]
  /\ bytes' = [bytes EXCEPT ![at] = @ + NewBatch.bytes]
  /\ wpc' = Notified(at)
  /\ NextTarget("run")
  /\ UNCHANGED <<batches, done, failed, rejected, work, sent>>

\* Mutant of MarkDone: the worker is not notified.
MarkDoneSilently ==
  /\ mpc = "mark"
  /\ done' = [done EXCEPT ![at] = TRUE]
  /\ NextTarget("join")
  /\ UNCHANGED <<batches, queue, bytes, failed, rejected, wpc, work, sent>>

\* finish(): first every destination is told, ...
MarkDone ==
  /\ mpc = "mark"
  /\ done' = [done EXCEPT ![at] = TRUE]
  /\ wpc' = Notified(at)
  /\ NextTarget("join")
  /\ UNCHANGED <<batches, queue, bytes, failed, rejected, work, sent>>

\* ... then every worker is joined, and the exit status is known.
Join ==
  /\ mpc = "join" /\ wpc[at] = "exited"
  /\ NextTarget(IF \E d \in Dest : failed[d] THEN "bad" ELSE "ok")
  /\ UNCHANGED <<batches, stateVars, wpc, work, sent>>

\* ~Fanout stops one worker ...
Destroy ==
  /\ mpc = "destroy"
  /\ done' = [done EXCEPT ![at] = TRUE]
  /\ failed' = [failed EXCEPT ![at] = TRUE]
  /\ queue' = [queue EXCEPT ![at] = <<>>]
  /\ wpc' = Notified(at)
  /\ mpc' = "reap"
  /\ UNCHANGED <<batches, at, bytes, rejected, work, sent>>

\* ... and joins it before it goes on to the next.
Reap ==
  /\ mpc = "reap" /\ wpc[at] = "exited"
  /\ IF at < Targets THEN at' = at + 1 /\ mpc' = "destroy"
                     ELSE at' = 1 /\ mpc' = "closed"
  /\ UNCHANGED <<batches, stateVars, wpc, work, sent>>

----------------------------------------------------------------------------
(* A destination's worker *)

Ready(d) == done[d] \/ failed[d] \/ queue[d] # <<>>

\* The wait's predicate is false: sleep, releasing the mutex.
Sleep(d) ==
  /\ wpc[d] = "check" /\ ~Ready(d)
  /\ wpc' = [wpc EXCEPT ![d] = "asleep"]
  /\ UNCHANGED <<batches, mpc, at, stateVars, work, sent>>

SpuriousWakeup(d) ==
  /\ wpc[d] = "asleep"
  /\ wpc' = [wpc EXCEPT ![d] = "check"]
  /\ UNCHANGED <<batches, mpc, at, stateVars, work, sent>>

Over(d) == failed[d] \/ (done[d] /\ queue[d] = <<>>)

Exit(d) ==
  /\ wpc[d] = "check" /\ Over(d)
  /\ wpc' = [wpc EXCEPT ![d] = "exited"]
  /\ UNCHANGED <<batches, mpc, at, stateVars, work, sent>>

Take(d) ==
  /\ wpc[d] = "check" /\ Ready(d) /\ ~Over(d)
  /\ work' = [work EXCEPT ![d] = Head(queue[d])]
  /\ queue' = [queue EXCEPT ![d] = Tail(@)]
  /\ bytes' = [bytes EXCEPT ![d] = @ - batches[Head(queue[d])].bytes]
  /\ wpc' = [wpc EXCEPT ![d] = "send"]
  /\ UNCHANGED <<batches, mpc, at, done, failed, rejected, sent>>

\* flush_batch_direct sent the whole batch.
SendOk(d) ==
  /\ wpc[d] = "send"
  /\ sent' = [sent EXCEPT ![d] = Append(@, work[d])]
  /\ wpc' = [wpc EXCEPT ![d] = "check"]
  /\ UNCHANGED <<batches, mpc, at, stateVars, work>>

\* It failed, perhaps after some of the frames: the destination is given up.
SendFails(d) ==
  /\ wpc[d] = "send" /\ d \in Faulty
  /\ failed' = [failed EXCEPT ![d] = TRUE]
  /\ rejected' = [rejected EXCEPT ![d] = @ + batches[work[d]].frames + Frames(queue[d])]
  /\ queue' = [queue EXCEPT ![d] = <<>>]
  /\ bytes' = [bytes EXCEPT ![d] = 0]
  /\ wpc' = [wpc EXCEPT ![d] = "exited"]
  /\ UNCHANGED <<batches, mpc, at, done, work, sent>>

----------------------------------------------------------------------------
Enqueue == EnqueueFailed \/ EnqueueFull \/ EnqueueFits
Completing == MarkDone \/ Join \/ Destroy \/ Reap
WorkerStep(d) == Sleep(d) \/ Exit(d) \/ Take(d)
Transfer(d) == SendOk(d) \/ SendFails(d)

----------------------------------------------------------------------------
(* Properties *)

Destroying == mpc \in {"destroy", "reap", "closed"}

\* The batches that enqueue has presented to destination d.
Presented(d) ==
  IF mpc = "enqueue" /\ d >= at THEN Len(batches) - 1 ELSE Len(batches)

\* Nothing is lost unaccounted: whatever overflows or fails in whichever
\* order, every frame presented to a destination was sent in a complete
\* batch, is queued, is being sent, or is in the rejected counter that
\* finish() reports (enqueue and the worker both add to it).  And the byte
\* account that bounds a queue is the size of what is queued, so the queue never
\* holds more than --queue-bytes (two threads update it).
Accounted ==
  Destroying \/
    \A d \in Dest :
      /\ Frames([n \in 1 .. Presented(d) |-> n]) =
           Frames(sent[d]) + Frames(queue[d]) + rejected[d]
             + (IF wpc[d] = "send" THEN batches[work[d]].frames ELSE 0)
      /\ bytes[d] = Bytes(queue[d]) /\ bytes[d] =< QueueBytes

\* A destination gets the batches in order and without a gap up to the point
\* where it is isolated; nothing follows a rejected batch.
SentInOrder == \A d \in Dest : \A i \in DOMAIN sent[d] : sent[d][i] = i

=============================================================================
