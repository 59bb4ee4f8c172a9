----------------------------- MODULE SenderLoop ------------------------------
(***************************************************************************)
(* The sender's main loop (run() of harness/src/sender.cpp) on top of its  *)
(* fan-out: it reads frames from the ring, passes them through the test    *)
(* impairment, gathers them into batches and flushes these, to its only    *)
(* destination itself (flush_batch_direct) or to the queues of the         *)
(* fan-out.  In echo mode it also collects what the destination echoes.    *)
(*                                                                         *)
(* A frame is its index in the ring.  Time is a choice: which held-back    *)
(* datagrams are due, and whether a timeout has passed.  Error correction  *)
(* is off (module Fec has it).                                             *)
(***************************************************************************)
EXTENDS Fanout, FiniteSets, Functions

CONSTANTS
  Counts,        \* values of --count
  BatchSize,     \* --batch-size
  Slots,         \* --slots of the ring
  PendingLimit,  \* the limit of the impairment queue (65536)
  MaxFrames      \* bound: frames that the producer publishes

ASSUME SenderAssumption ==
  /\ Counts \subseteq Nat /\ MaxFrames \in Nat
  /\ {BatchSize, Slots, PendingLimit} \subseteq Nat \ {0}

VARIABLES
  opts,          \* the configuration
  write_index,   \* the ring: frames published
  read_index,
  skipped,       \* the frames of skipped_messages
  batch,         \* datagrams of the open batch
  pending,       \* datagrams held back, in the order in which they fall due
  outgoing,      \* datagrams on their way to queue_or_flush
  dropped,       \* datagrams dropped by the impairment
  echoed,        \* datagrams that came back and were published
  lpc            \* where the loop is; it waits while mpc is not "run"

loopVars == <<opts, write_index, read_index, skipped, batch, pending, outgoing, dropped,
              echoed, lpc>>
senderVars == <<vars, loopVars>>
workerVars == <<at, stateVars, wpc, work, sent>>

\* What parse_args accepts: echo wants one destination and no impairment.
Options ==
  {o \in [fan : BOOLEAN, impaired : BOOLEAN, echo : BOOLEAN, count : Counts] :
     o.echo => ~o.fan /\ ~o.impaired}

SenderInit ==
  /\ opts \in Options
  /\ Start(IF opts.fan THEN "check" ELSE "exited")
  /\ write_index = 0 /\ read_index = 0 /\ skipped = {}
  /\ batch = <<>> /\ pending = <<>> /\ outgoing = <<>>
  /\ dropped = {} /\ echoed = {} /\ lpc = "top"

plain_fast_path == ~opts.impaired /\ ~opts.echo

\* The counter sent of run().
Taken == read_index - Cardinality(skipped)
CountMet == opts.count # 0 /\ Taken >= opts.count

\* The datagrams that left the loop, in order.
Flushed == Joined([n \in DOMAIN batches |-> batches[n].members])

----------------------------------------------------------------------------
(* The ring *)

Publish ==
  /\ write_index < MaxFrames
  /\ write_index' = write_index + 1
  /\ UNCHANGED <<vars, opts, read_index, skipped, batch, pending, outgoing, dropped, echoed, lpc>>

\* The results of read().
Lapped == write_index > read_index + Slots
Available == write_index > read_index /\ ~Lapped

\* kLapped: the frames up to the oldest one kept are skipped.
Resume ==
  /\ skipped' = skipped \cup (read_index .. write_index - Slots - 1)
  /\ read_index' = write_index - Slots

----------------------------------------------------------------------------
(* Flushing *)

\* The datagrams of a mixed feed differ in size.
SizeOf(frame) == IF frame % 3 = 2 THEN 1 ELSE 2

\* flush_batch, before the loop goes on at next: nothing to do, over to the
\* fan-out, sent at once, or given up because the only destination fails.
FlushBatch(datagrams, next) ==
  \/ /\ datagrams = <<>>
     /\ batch' = <<>> /\ lpc' = next /\ UNCHANGED <<batches, mpc>>
  \/ /\ datagrams # <<>>
     /\ batches' = Append(batches,
          [frames |-> Len(datagrams), members |-> datagrams,
           bytes |-> Tally([i \in DOMAIN datagrams |-> SizeOf(datagrams[i])])])
     /\ mpc' = IF opts.fan THEN "enqueue" ELSE "run"
     /\ batch' = <<>>
     /\ lpc' = next
  \/ /\ datagrams # <<>> /\ ~opts.fan
     /\ mpc' = "closed"
     /\ batch' = datagrams
     /\ UNCHANGED <<batches, lpc>>

At(place) == mpc = "run" /\ lpc = place

\* queue_or_flush of the next datagram on its way.
QueueOrFlush ==
  /\ mpc = "run" /\ outgoing # <<>>
  /\ outgoing' = Tail(outgoing)
  /\ LET queued == Append(batch, Head(outgoing))
     IN  IF Len(queued) >= BatchSize
         THEN FlushBatch(queued, lpc)
         ELSE batch' = queued /\ UNCHANGED <<batches, mpc, lpc>>
  /\ UNCHANGED <<workerVars, opts, write_index, read_index, skipped, pending, dropped, echoed>>

\* flush_pending: what is due, in order; due(n) are the first n.
Due(n) == SubSeq(pending, 1, n)
Rest(n) == SubSeq(pending, n + 1, Len(pending))

----------------------------------------------------------------------------
(* The loop *)

\* drain_echo reads what has come back by now, which need not be everything
\* that was sent: the network may lose or delay it, but does not double it.
DrainEcho ==
  \E arrived \in SUBSET (Range(Flushed) \ echoed) :
    /\ opts.echo \/ arrived = {}
    /\ echoed' = echoed \cup arrived

\* Mutant: an impaired run leaves the held-back datagrams.
LoopEndsAtOnce ==
  /\ At("top") \/ At("stop")
  /\ lpc' = "final"
  /\ UNCHANGED <<vars, opts, write_index, read_index, skipped, batch, pending, outgoing, dropped, echoed>>

\* The count is met, a signal asked to stop or the idle timeout has passed:
\* everything held back is due.
LoopEnds ==
  /\ At("top") \/ At("stop")
  /\ lpc' = "final" /\ outgoing' = pending /\ pending' = <<>>
  /\ UNCHANGED <<vars, opts, write_index, read_index, skipped, batch, dropped, echoed>>

\* Another round; --batch-timeout-us may have passed for the open batch.
LoopGoesOn ==
  /\ At("top") /\ ~CountMet
  /\ DrainEcho
  /\ \/ FlushBatch(batch, "read")
     \/ lpc' = "read" /\ UNCHANGED <<batches, mpc, batch>>
  /\ UNCHANGED <<workerVars, opts, write_index, read_index, skipped, pending, outgoing, dropped>>

\* The fast path reads into the batch ...
FastRead ==
  /\ At("read") /\ plain_fast_path
  /\ Len(batch) < BatchSize /\ ~CountMet /\ Available
  /\ batch' = Append(batch, read_index)
  /\ read_index' = read_index + 1
  /\ UNCHANGED <<vars, opts, write_index, skipped, pending, outgoing, dropped, echoed, lpc>>

FastOver == Len(batch) >= BatchSize \/ CountMet \/ ~Available

FastResume ==
  IF Len(batch) < BatchSize /\ ~CountMet /\ Lapped THEN Resume
                                                   ELSE UNCHANGED <<skipped, read_index>>

\* ... and flushes what it read.
FastFlush ==
  /\ At("read") /\ plain_fast_path /\ FastOver /\ batch # <<>>
  /\ FastResume
  /\ FlushBatch(batch, "top")
  /\ UNCHANGED <<workerVars, opts, write_index, pending, outgoing, dropped, echoed>>

\* It read nothing: idle_wait, and the idle timeout may have passed, also right
\* after it was lapped.
FastIdle(next) ==
  /\ At("read") /\ plain_fast_path /\ FastOver /\ batch = <<>>
  /\ FastResume
  /\ lpc' = next
  /\ UNCHANGED <<vars, opts, write_index, batch, pending, outgoing, dropped, echoed>>

\* Mutant: a datagram that is held back is sent as well.
EmitTwice(n) ==
  /\ outgoing' = Due(n) \o <<read_index>>
  /\ pending' = IF opts.impaired THEN Append(Rest(n), read_index) ELSE Rest(n)
  /\ UNCHANGED dropped

\* emit_datagram, with the first n of the held-back datagrams due: the datagram is
\* dropped, held back, or queued, after which further ones may have fallen due.
Emit(n) ==
  \/ /\ opts.impaired
     /\ dropped' = dropped \cup {read_index}
     /\ outgoing' = Due(n) /\ pending' = Rest(n)
  \/ /\ opts.impaired /\ Len(Rest(n)) < PendingLimit
     /\ pending' = Append(Rest(n), read_index)
     /\ outgoing' = Due(n)
     /\ UNCHANGED dropped
  \/ \E m \in n .. Len(pending) :
       /\ outgoing' = Due(n) \o <<read_index>> \o SubSeq(pending, n + 1, m)
       /\ pending' = Rest(m)
       /\ UNCHANGED dropped

\* The slow path reads one frame and emits it.
SlowRead ==
  /\ At("read") /\ ~plain_fast_path /\ Available
  /\ \E n \in 0 .. Len(pending) : Emit(n)
  /\ read_index' = read_index + 1
  /\ lpc' = "emit"
  /\ UNCHANGED <<vars, opts, write_index, skipped, batch, echoed>>

\* The impairment queue is full: the sender gives up after what is due.
SlowOverflow ==
  /\ At("read") /\ opts.impaired /\ Available
  /\ \E n \in 0 .. Len(pending) :
       /\ Len(Rest(n)) >= PendingLimit
       /\ outgoing' = Due(n) /\ pending' = Rest(n)
  /\ lpc' = "overflow"
  /\ UNCHANGED <<vars, opts, write_index, read_index, skipped, batch, dropped, echoed>>

Emitted ==
  /\ At("emit") /\ outgoing = <<>>
  /\ lpc' = "top"
  /\ UNCHANGED <<vars, opts, write_index, read_index, skipped, batch, pending, outgoing, dropped, echoed>>

SlowLapped ==
  /\ At("read") /\ ~plain_fast_path /\ Lapped
  /\ Resume
  /\ lpc' = "top"
  /\ UNCHANGED <<vars, opts, write_index, batch, pending, outgoing, dropped, echoed>>

\* kEmpty: after idle_wait what is due is queued ...
SlowEmpty ==
  /\ At("read") /\ ~plain_fast_path /\ write_index = read_index
  /\ \E n \in 0 .. Len(pending) : outgoing' = Due(n) /\ pending' = Rest(n)
  /\ lpc' = "idle"
  /\ UNCHANGED <<vars, opts, write_index, read_index, skipped, batch, dropped, echoed>>

\* ... and the batch flushed; then the idle timeout may have passed.
SlowIdle(next) ==
  /\ At("idle") /\ outgoing = <<>>
  /\ FlushBatch(batch, next)
  /\ UNCHANGED <<workerVars, opts, write_index, read_index, skipped, pending, outgoing, dropped, echoed>>

\* idle_terminated.
IdleEnds == FastIdle("stop") \/ SlowIdle("stop")

----------------------------------------------------------------------------
(* The end *)

\* After the loop everything held back has been queued: the last flush.
FlushLast ==
  /\ At("final") /\ outgoing = <<>>
  /\ FlushBatch(batch, "wait")
  /\ UNCHANGED <<workerVars, opts, write_index, read_index, skipped, pending, outgoing, dropped, echoed>>

Awaited == opts.echo /\ Cardinality(echoed) < Len(Flushed)

EchoRound ==
  /\ At("wait") /\ Awaited
  /\ DrainEcho
  /\ UNCHANGED <<vars, opts, write_index, read_index, skipped, batch, pending, outgoing, dropped, lpc>>

\* The deadline is looked at after draining, even if everything is there now.
EchoDeadline ==
  /\ At("wait") /\ Awaited
  /\ DrainEcho
  /\ mpc' = "closed"
  /\ UNCHANGED <<batches, workerVars, opts, write_index, read_index, skipped, batch, pending, outgoing, dropped, lpc>>

\* Mutant: the echoes that are missing are not waited for.
AllSentUnawaited ==
  /\ At("wait")
  /\ mpc' = IF opts.fan THEN "mark" ELSE "ok"
  /\ UNCHANGED <<batches, workerVars, loopVars>>

\* With a fan-out, finish() is next.
AllSent ==
  /\ At("wait") /\ ~Awaited
  /\ mpc' = IF opts.fan THEN "mark" ELSE "ok"
  /\ UNCHANGED <<batches, workerVars, loopVars>>

\* The sender gives up (close_sockets, return 1): a corrupt or invalid frame, the
\* impairment queue, or drain_echo that fails to receive, decode or publish.
GiveUp ==
  /\ mpc = "run" /\ outgoing = <<>>
  /\ lpc \in {"read", "overflow"} \/ (opts.echo /\ lpc \in {"top", "wait"})
  /\ mpc' = IF opts.fan THEN "destroy" ELSE "closed"
  /\ UNCHANGED <<batches, workerVars, loopVars>>

----------------------------------------------------------------------------
LoopStep ==
  \/ QueueOrFlush \/ LoopEnds \/ LoopGoesOn \/ FastRead \/ FastFlush \/ FastIdle("top")
  \/ SlowRead \/ SlowOverflow \/ Emitted \/ SlowLapped \/ SlowEmpty \/ SlowIdle("top")
  \/ IdleEnds \/ FlushLast \/ EchoRound \/ EchoDeadline \/ AllSent \/ GiveUp

FanoutStep ==
  /\ \/ Enqueue \/ Completing
     \/ \E d \in Dest : WorkerStep(d) \/ SpuriousWakeup(d) \/ Transfer(d)
  /\ UNCHANGED loopVars

SenderNext == Publish \/ LoopStep \/ FanoutStep

\* As for the fan-out, and: the loop keeps running, and the idle timeout and the
\* echo deadline pass when nothing more comes in.
SenderFairness ==
  /\ WF_senderVars(LoopStep) /\ SF_senderVars(IdleEnds) /\ WF_senderVars(EchoDeadline)
  /\ WF_senderVars(Enqueue /\ UNCHANGED loopVars)
  /\ WF_senderVars(Completing /\ UNCHANGED loopVars)
  /\ \A d \in Dest : WF_senderVars(WorkerStep(d) /\ UNCHANGED loopVars)
  /\ \A d \in Dest \ Hanging : WF_senderVars(Transfer(d) /\ UNCHANGED loopVars)

SenderSpec == SenderInit /\ [][SenderNext]_senderVars /\ SenderFairness

Ended == mpc \in {"ok", "bad", "closed"}

\* What run() returns.
ExitCode == IF mpc # "ok" \/ (opts.count # 0 /\ Taken < opts.count) THEN 1 ELSE 0

----------------------------------------------------------------------------
(* Properties *)

\* Whatever is dropped, held back, released late or lapped, and wherever the loop
\* is between two flushes, every frame below read_index is in one place and only
\* once: it left the loop, is in the batch (so it is wrapped once), on its way,
\* held back, dropped or skipped.  Without impairment frames leave in order.
OnePlace ==
  LET inside == Flushed \o batch \o outgoing \o pending
  IN  /\ Range(inside) \cup dropped \cup skipped = 0 .. read_index - 1
      /\ Len(inside) + Cardinality(dropped) + Cardinality(skipped) = read_index
      /\ opts.impaired \/ \A i, j \in DOMAIN inside : i < j => inside[i] < inside[j]

\* The exit status: 0 only if every frame taken from the ring was sent to every
\* destination or dropped on purpose, the count was reached and every echo came
\* back; a sender that blames a destination has frames rejected there.  And the
\* sockets are closed only after every worker has ended.  Of echoes it holds as
\* long as the network repeats none (DrainEcho): the sender counts datagrams.
ExitIsTrue ==
  /\ Ended /\ ExitCode = 0 =>
       /\ batch = <<>> /\ pending = <<>> /\ outgoing = <<>>
       /\ opts.fan => \A d \in Dest : Len(sent[d]) = Len(batches)
       /\ opts.count # 0 => Taken = opts.count
       /\ opts.echo => echoed = Range(Flushed)
  /\ mpc = "bad" => \E d \in Dest : rejected[d] > 0
  /\ Ended => \A d \in Dest : wpc[d] = "exited"

\* No frame that the loop flushes is lost unaccounted on its way through enqueue
\* and the workers, and no queue exceeds --queue-bytes (see Accounted).
FanoutAccounted == opts.fan => Accounted

\* Isolation: whatever hangs or fails elsewhere, a destination that does not hang
\* is sent every batch that the loop flushes, unless it fails itself.
FanoutProgress ==
  \A d \in Dest \ Hanging : \A k \in 1 .. MaxFrames :
    (opts.fan /\ Len(batches) >= k) ~> (Len(sent[d]) >= k \/ failed[d])

\* Nothing stays behind: a frame that was taken leaves the loop, or the sender
\* gives up, whatever is held back and however the batches fill.
FramesLeave ==
  \A i \in 0 .. MaxFrames - 1 :
    read_index > i ~> \/ i \in Range(Flushed) \cup dropped \cup skipped
                      \/ mpc \in {"destroy", "reap", "closed"}

\* When the producer stops, the sender ends: on its idle timeout, its count, its
\* echo deadline or an error, unless a worker hangs in a send.
SenderEnds == <>(Ended \/ \E d \in Hanging : wpc[d] = "send")
=============================================================================
