# TLA+ models of PulseFanout

This directory holds TLA+ specifications of the parts of PulseFanout whose
correctness depends on interleavings, crashes, lost or repeated messages and
arithmetic at the edges; TLC configurations that check them on small instances;
and TLAPS proofs of the most important safety properties for every instance.
`PROJECT.json` maps every definition to the source lines it stands for, and
lists the runs, the mutants that show each property can fail, the hazards and
the theorems.

## The system and its parts

```
producer -> ring -> sender -> (UDP | stream -> durable relay ~ TLS ~ durable relay -> stream) -> receiver -> ring -> consumers
```

| Part | Source | Module | State |
|---|---|---|---|
| Shared-memory ring | `shm_ring.h`, loops of `producer.cpp`, `consumer.cpp` | `ShmRing` | modelled, proved |
| Shared-memory segment | `shm_segment.h` | `Segment` | modelled, proved |
| Duplicate window | `dedupe_window.h` | `DedupeWindow`, `DeliverOnce` | modelled, proved |
| Sender main loop | `run` in `sender.cpp` | `SenderLoop` (error correction in `Fec`) | modelled, proved |
| Fan-out to destinations | class `Fanout` of `sender.cpp` | `Fanout` (sums in `Totals`), composed in `SenderLoop` | modelled, proved |
| Receiver, streams, stream framing | `receiver.cpp`, `multiplex.h`, `stream_transport.h` | `Receiver`, composed in `Pipeline` | modelled |
| Consumer | `consumer.cpp` | `ShmRing` (reading), `Pipeline` (validation, report) | modelled |
| Durable relays | `durable_relay.py` | `DurableRelay`, `FifoAtLeastOnce`; delivery also in `Pipeline` | modelled, proved |
| Supervisor and discovery | `supervise_services.py`, `discovery.py` | `Supervisor` | modelled, proved |
| Forward error correction | `fec.h`, FEC path of `sender.cpp` | `Fec`, `GaussJordan` | partly (no statistics) |
| Formats | `wire.h`, `message.h` | `Wire` | partly (sizes, kinds, keys; not the fields' values) |
| Metrics | `metrics.h`, `samples.h` | `Pipeline` | partly (drops; no percentiles) |
| Producer | `producer.cpp` | `ShmRing` | partly (no data generation, no pacing) |
| Plain TLS relay, test drivers, utilities | `tls_relay.py`, `run_pipeline.py`, `smoke_test.sh`, `util.h` | - | not modelled, see the end |

## Modules and how they correspond to the code

**ShmRing.** One writer, readers that attach, detach and die. Every store that
another process can see is a step of its own, in program order, so a process can
be killed between any two. Between live processes the mutexes and atomics give
that order. After a death it is an assumption: `seq`, `frame_len` and the frame
are plain fields, whose stores the language lets a compiler rearrange; the code
g++ generates for `publish()` with `-std=c++17 -O2`, the Makefile's flags, keeps
them in program order, and the model takes it so. `publish()` is the scan of the
registry (`ScanPid`, `ScanCursor`, `ScanPassed`, `ScanBlocked`, `Deadline`) and
then `LockSlot`, `Invalidate`, the copy in two halves, `StoreLength`, `Seal`,
`Advance`; `read()` is `TryLock`, `Check`, `Resume` or the copy and `Commit`;
`attach()` is `LockRegistry`, `StoreCursor`, `StorePid`, `StartIndex`. A robust
mutex whose owner died can be locked. A frame is two halves tagged with the
publication they belong to, so a torn frame is visible as two different tags.

**DedupeWindow** is `dedupe::Window::observe()`, one call per step, with the
loops of `slide_to` and `advance_contiguous` given by their result and the sum
`base_seq_ + size_` taken modulo the width of the counter. **DeliverOnce** is
the abstract promise: a number is fresh at most once, and is refused only if it
was delivered, precedes the first one or is a window behind the newest.

**DurableRelay** has the sending relay's two threads, the receiving relay's two
threads, both SQLite tables, the TLS connection with requests and
acknowledgements in flight, and the C++ receiver that publishes and answers.
Each `Store` operation is one transaction under a mutex and is one step. The
databases survive a crash, all else is lost; requests left in the buffers of a
closed connection may still be processed. **FifoAtLeastOnce** is the abstract
channel: in order, nothing invented, a repetition only of the latest frame.

**Fanout** has the main thread, one worker per destination, the bounded queues
and an explicit condition variable, so that a missing notification leaves a
worker asleep. Critical sections are steps; a send happens outside of them and
may succeed, fail or hang. Its counters of frames and bytes, and the datagrams a
batch consists of, are put together with **Totals**.

**SenderLoop** is `run()` of the sender on top of `Fanout`: it extends that
module and feeds it. Every round is `LoopGoesOn` (the echo is drained, the
batch's timeout may have passed), then the fast path (`FastRead`, `FastResume`,
`FastFlush`, `FastIdle`) or the slow one (`SlowRead`, `Emitted`, `SlowLapped`,
`SlowEmpty`, `SlowIdle`) with `emit_datagram` and its impairment queue, until
`LoopEnds`, `FlushLast`, the wait for echoes and `AllSent`, which hands over to
`finish()`. A datagram on its way through `queue_or_flush` is in `outgoing`, so
that a flush in the middle of an emission, and its failure, are seen.

**Segment** is the life of one name: `shm_open`, the lock, `ftruncate`, the
header and the mutexes of `attach()`, `ready()`, `unlink()` and `~Segment`, one
system call per step, by any number of creators and readers, each of which may
be killed or time out anywhere.

**Wire** computes the sizes of messages in their native and packed forms from
their fields, and has the sender's stamp, `encode`, `wrap`, `unwrap`, `decode`
and `validate_frame` by what they check and change.

**Receiver** extends `Segment` and `Wire`: set-up in the code's order (segment,
ring, socket, `ready()`, waiting for readers, accepting), `receive_frame` in two
parts, reconnection, UDP batches in any order, echo, one window per stream with
the limit on streams, publication under backpressure with its deadline, the
acknowledgement, and the two ends: the regular one, which gives up the segment's
name before the listener's path, and the early return, which does it the other
way round. The ring is reduced to what `ShmRing` shows of it: publications in
order, a cursor per registered reader, and a writer that waits for them. The
window is reduced to what `DedupeWindowProofs` proves of it. **Pipeline** adds
what feeds a receiver (the durable relay's `deliver()`, a sender without
acknowledgements, or a datagram network) and the consumers with their reports.

**Fec** composes the sender's generations, a network that is the set of
datagrams sent (any member may be delivered any number of times, or never) and
the decoder with its slots. Recovery is abstracted to its result, which
**GaussJordan** justifies: it is the arithmetic of GF(256), the parity bytes of
`Encoder::close` and the elimination of `try_recover`, one column per step. A
byte is the set of its one bits.

**Supervisor** has the supervisor's `run()` and `main()` step by step, the
services as processes that exit as they like, the state file, and a discovery
request that reads the file and then checks one process after the other. The
polls of the children after start-up (`CheckStarted`) and in the watch loop
(`Watch`) are one step per child, as others may end between two of them. In the
readiness loop the polls of one round are a single step (`ServiceReady`): a round
that finds no failed child can be placed at its first poll, and a round that
does not fails in the same way whichever child it met first. SIGTERM
raises an exception wherever the supervisor is, SIGKILL ends it there, and pids
of processes that were waited for can be reused.

## Runs

| Run | What it checks | Bounds |
|---|---|---|
| `ring_backpressure` | `ReadsIntact`: what `read()` returns is one whole frame. `RecentFramesKept`: the last `Slots - 1` published frames are in their slots. `UnreadFramesKept`: under backpressure no frame an established reader has still to read is overwritten. `OnlyNewcomersLapped`: only a reader that attached to a wrapped ring and has read nothing is lapped. `NoMutualWait`: writer and live reader wait for each other only on behalf of a `--from-edge` reader that has not read yet. | 2 slots, 4 frames (the ring wraps twice), 3 readers that compete for 2 entries: one comes and goes, one stays, one starts at the live edge and is mortal like the writer; deadlines |
| `ring_policies` | `NeverRereads`; `LappedReaderMovesOn`: under overwrite a lapped reader gets past the index it was lapped at; `EverythingRead`: backpressure never deadlocks, all is published and read. | 2 slots, no deaths. Overwrite: 5 frames, 2 readers that come and go and compete for one entry. Backpressure: 4 frames, 2 readers that stay, the producer waits for one |
| `ring_wedged` | violation of `LappedReaderMovesOn` | 3 frames, a mortal writer |
| `dedupe_window` | `WindowExact`, `AcceptedOnce`, `LossExact`, and `DeliversOnce`: refinement of `DeliverOnce`. | window of 3, counter of 10 values, 6 calls: the bitmap turns three times and the sum wraps |
| `relay` | `NoAckedLoss`; `SequenceKept`: rows enter the inbox once and in order; `DeliversInOrder`: refinement of `FifoAtLeastOnce`; `AckedIsDelivered`; `DrainEnds`. | 3 frames, spools of 2 rows (they fill), 1 connection error and 1 crash, kill or expired deadline anywhere |
| `relay_clean_exit` | violation of `CleanExitDrained` | no faults |
| `sender` | `FanoutAccounted`: frames add up at every destination and queues keep their limit. `SentInOrder`. `OnePlace`: a frame taken is in one place only. `ExitIsTrue`: status 0 means sent everywhere, counted and (on a network that repeats nothing) echoed. `FanoutProgress`: a healthy destination gets everything whatever the others do. `FramesLeave`: nothing taken stays behind. `SenderEnds`. | 1 or 2 destinations that may fail, one that may hang; 3 frames through a ring of 2, batches of 2, an impairment queue of 1, queues that overflow; counts 0 and 2; with and without impairment and echo |
| `fec` | `AnyKShardsSuffice`; `SlotsKeptApart`: no genuine shard refused and no frame made up. | generations of up to 3, 2 parity shards, 4 frames of 2 lengths, 2 slots: partial generations and take-overs of slots happen |
| `fec_algebra` | `ShardsSolveSystem`; `RecoversShards`: the elimination never meets a singular system and gives the missing bytes. | columns 0, 1, 6, 127; rows 0, 1, 2, 15; two byte values; up to 3 missing |
| `supervisor` | `NoneLeftBehind`: groups do not overlap, and a supervisor that returns or gives up leaves no service. `RegistrationCurrent`: the state file names the watched group, never an ended or incomplete one of this supervisor, and one of an earlier supervisor only after a signal. `AnswersAreFresh`: discovery answers only for a group of which nothing had ended. `ShutdownEnds`. | 2 services, 2 groups, 1 restart, 1 SIGTERM, 1 SIGKILL |
| `supervisor_sigterm` | violation of `ShutdownTerminatesChildren` | as above, no SIGKILL |
| `pipeline` | `AckedIsPublished`: the relay forgets a message only when it is in a ring. `PublishedOnce`: no ring holds a message twice, and each is what its producer built. `ReportExact`: drops are the numbers missing from each stream. `InStep`: the middle of a frame is never taken for a beginning. `NameIsOwned`, `PathIsOwned`: nobody removes another's segment or listener. `AttachedToWhole`: nobody uses a partial ring. `NobodyStuck`: every wait has a way out. | 2 receivers with the same names, of which one may be killed; a consumer that may be killed or have other `--slots`; 3 messages of 2 streams with a gap; a ring of 1, a window of 2, 2 connections; the settings plain stream, durable (one stream allowed), UDP with a repeated datagram, UDP without deduplication, UDP echo |

Deadlock checking is off where the instance ends by itself (the bounds on
frames, calls, connections or signals are used up, or every process has ended);
in `relay` it is on.

The bounds are those at which the cases at stake occur: a ring and a queue that
fill and wrap, a window that slides past a gap, a second owner of a name, a
second connection, a limit that is met. In `pipeline` a ring of one slot makes
publication wait for the consumer after the first message.

### What the violations show

* `ring_wedged`: `publish()` seals a slot before it stores `write_index`. A
  writer killed in between leaves a reader that is a whole turn behind at a slot
  that `read()` reports as lapped, with a resume index equal to the index asked
  for. The reader repeats that for ever and its idle timeout is not consulted on
  that path, although `docs/transport.md:96` says that robust mutex recovery
  keeps a dead owner from wedging a slot.
* `relay_clean_exit`: `transmit()` reads the outbox first and `ingress_done`
  second. If the last frame is stored and acknowledged, and ingress ends, in
  between, the thread leaves with the frame pending and the relay exits with
  status 0. Nothing is lost (a later `--replay-only` run sends it), but the exit
  status says that the drain was complete.
* `supervisor_sigterm`: the exception raised by SIGTERM can interrupt the
  `finally` clause itself, or fall between `Popen` and `children.append`; the
  supervisor then exits while a service runs that was never signalled.

### Observations without a violation

* A `--from-edge` consumer registers with cursor 0, so on a ring that has already
  wrapped the writer waits for it until the deadline, while it waits for a new
  frame. `NoMutualWait` states that this is the only such case.
* On the regular end the receiver gives up the segment's name before the path of
  its listener: a receiver started in between creates its segment, fails to bind
  and ends. `PathIsOwned` holds because `bind` refuses a path that exists. A
  killed receiver leaves both, and the next one fails until they are removed.
* A message refused for `--max-streams` is not answered at all, not even
  negatively. A durable relay repeats it, and nothing behind it is delivered,
  until the relay gives up.
* The first number that a window sees becomes its base. An earlier number that
  arrives later is acknowledged as too old although it was never published;
  in order, as the durable relay delivers, this does not happen, and
  `AckedIsPublished` holds.
* The echo deadline is looked at after draining: a sender can report a timeout
  although the last echo has just arrived.

## Fairness

* Ring: weak fairness of the writer's and of each reader's steps (processes that
  are not killed run), strong fairness of the two steps that poll a mutex with
  trylock, because others hold it only for one copy. Liveness is checked only
  without deaths and deadlines, and says nothing of a stopped process.
* Relay: weak fairness of the threads' steps and of starting a relay that ended
  again; errors and outages are bounded. Nothing forces the application to
  submit. Weak fairness of the network steps stands for TCP.
* Sender: weak fairness of the loop, of the workers and of sends, except at
  destinations that may hang: stream sends have a deadline and UDP sends do not
  wait for the peer. The idle timeout and the echo deadline pass when nothing
  more comes in; nothing forces the producer to publish or a count to be met.
* Supervisor: weak fairness of its own steps only; its waits are all bounded by
  deadlines. Services need not cooperate.
* Pipeline: none. Its progress is stated as `NobodyStuck`, that every process
  which has not ended has a step of its own; the liveness of the parts is checked
  in their own runs, on instances small enough for it.

## Proofs

Theorems hold for every value of the constants that satisfies the modules'
`ASSUME`s: at least one slot and one registry entry; a window of at least one
number and at most half the counter's range, and never the number 2^64-1; spools
of at least one row; at least one destination, and batches, rings and impairment
queues of at least one frame; 1 to 64 services, as `run()` demands. The other
constants (numbers of frames, readers, errors, crashes, signals, restarts, who
may fail, hang or be killed) are arbitrary.

`ShmRingProofs` (with `Residues`):

* `TypeCorrect`; `FramesAreWhole` (`ReadsIntact`); `RecentFramesSurvive`;
  `ReadersNeverGoBack` (`NeverRereads`); `UnreadFramesSurvive`;
  `OnlyNewcomersAreLapped`; `WritersAndReadersNeverWaitForEachOther`
  (`NoMutualWait`).
* None of these is inductive alone. The argument goes through `MutexInv` (who is
  inside a slot holds its mutex), `SlotInv` (a sealed slot is whole, a slot
  being written is not sealed), `CopyInv` (what a reader has copied so far is of
  the index it asked for), `SeqInv` (slots hold the latest publication of their
  residue class), `RegistryInv` (an entry has one owner), `UnreadInv` (no
  established reader is more than a turn behind, and a scan under way has
  cleared the entries it passed), `PositionInv` (a cursor is not ahead of its
  reader) and `CaughtUpInv` (a reader that has read has a cursor at its index).
  The residue facts come from `Residues`.

`DedupeWindowProofs`:

* `TypeCorrect`, `WindowIsExact`, `NothingAcceptedTwice`, `LossIsExact`, and
  `DeliversAtMostOnce`: the window implements `DeliverOnce`.
* The inductive invariant `WindowInv` says that the bitmap is exact for the
  numbers of the window, that nothing beyond it was accepted and that the base
  is a gap; the last part is what makes a slide and a contiguous advance compose.

`DurableRelayProofs`:

* `AckedFramesKept` (`NoAckedLoss`), `InboxInSequence` (`SequenceKept`), and
  `RelayRefinesChannel`: the pair implements `FifoAtLeastOnce`.
* `RelayInv`: ids are consecutive in both tables and the receiving relay is at
  most one row ahead of the outbox (`Numbered`); all copies in flight are of the
  first row, and only the latest one is answered (`Transmitting`, `Delivering`);
  and from the frame published latest over inbox and outbox to the one the
  application waits for, each frame follows or repeats the one before
  (`Chained`). The last part is what survives a crash of either relay.

`FanoutProofs`, `SenderProofs` and `SenderTheorems`:

* `SendsInOrder` (`SentInOrder`), `EveryFrameInOnePlace` (`OnePlace`),
  `ExitStatusIsTrue` (`ExitIsTrue`) and `EveryFrameAccounted`
  (`FanoutAccounted`), all of `SenderSpec`, the loop together with its workers.
* `FanInv` is the invariant of the fan-out for whatever batches it is given: what
  was sent, is in a worker's hands and waits in the queue is a run of consecutive
  batches (`InLine`), a worker leaves only when it may (`Leaving`), and the main
  thread's walks over the destinations have done what lies behind them
  (`Walking`). `SenderInv` adds the loop: where its hands are empty, that the
  count is not exceeded, and `OnePlace`. `Balanced` are the accounts of frames and
  bytes, kept by the steps of both threads.
* Sums and concatenations are computed element by element (`Totals`). What the
  lemmas need to know of them and of cardinalities is a hypothesis there
  (`SumFacts`, `DataFacts`), so that it stays out of the provers' way.
  `SenderTheorems` proves it: a set of natural numbers that is not empty has a
  least element (from the well-foundedness of `<`), hence induction over a set of
  numbers, hence the recursive functions in `Tally` and `Joined` exist and obey
  their equations. The theorems have no such hypothesis left.

`LifecycleProofs`, for any sets of creators, readers and mortal processes and any
group of services:

* `SegmentOwnership` (`NameIsOwned`) and `SegmentAttachment`
  (`AttachedToWhole`). `NameIsOwned` is inductive only together with the types
  and with `StageOf` (how far the object is, from the place of its creator).
  `AttachedToWhole` needs `Opened`: what a reader has opened was created, a reader
  holds the shared lock only while the creator does not hold the exclusive one,
  and therefore a mapped object is whole or its creator has ended early.
* `GroupsNeverOverlap` (`NoneLeftBehind`), `RegistrationNeverStale`
  (`RegistrationCurrent`) and `DiscoveryIsFresh` (`AnswersAreFresh`).
  `SupervisorInv` says which processes of the current group may run at each place
  of `run()` (`MayRun`), how far its loops are (`Looping`) and what a request
  under way has seen (`Answering`); `FileHistory` adds which signals it takes for
  a state file to be left behind.

Only model-checked:

* all liveness properties (reasoning under fairness is out of the prover's reach)
  and `NobodyStuck` (it uses `ENABLED`);
* `ShardsSolveSystem` and `RecoversShards`: `GaussJordan` is written with
  recursive operators, which the prover does not take, and over given bytes;
* `AnyKShardsSuffice` and `SlotsKeptApart` of `Fec`, and of `Pipeline`
  `AckedIsPublished`, `PublishedOnce`, `ReportExact`, `InStep` and `PathIsOwned`:
  not proved so far. `NameIsOwned` and `AttachedToWhole`, which the run `pipeline`
  checks in the composition, are proved of `Segment` alone.

## Abstractions

* Frames, rows and payloads are numbers; byte sizes matter only where a limit
  or a check does (`Fanout`, `Fec`, `Wire`). In `Wire` the fields that no code
  between producer and consumer looks at are one value.
* Clocks are replaced by the possibility of any deadline to expire.
* `DurableRelay` has one sending session and spools counted in rows; a full
  spool, and a refused accept, are those of the code. `Pipeline` has the
  delivering end of a relay again, with reconnection to real receivers; its
  restart is not repeated there.
* `transfer()` moves any number of bytes per call; `Pipeline` moves a frame's
  length and its body, each at once, and lets everything happen in between.
* The consumer's `--skip`, `--count` and limit of 256 streams end or delay
  its recording and are a choice in `Pipeline`.
* In echo mode the network may lose, delay and reorder, but not repeat: the
  sender counts echoes and would take a repeated one for a missing one. The echo
  clause of `ExitIsTrue`, and of the theorem about it, holds under this
  assumption only.
* `Wire` computes sizes from the fields because `decode` and `validate_frame`
  compare them: that no message is refused on its way (`PublishedOnce`) rests on
  them.
* The decoder's statistics are left out of `Fec`: no property is about them.
* A late shard of an older generation takes a slot from a newer one;
  `AnyKShardsSuffice` therefore counts shards since the slot was last taken.
* The number 2^64-1 is excluded from `DedupeWindow`, as stated there.

## Not modelled

* The plain TLS relay (`tls_relay.py`): a copy loop without state of its own that
  ends on the first error.
* Parsing of options, help texts, log lines and reports beyond the counts; the
  producer's random market data and pacing; percentiles, samples and the
  decoder's counters: nothing in the delivery of messages depends on them.
* Errors in the supervisor's configuration (`ValueError`, `KeyError`): they end it
  without a restart, before, in or right after the group's first complete start. The
  configuration is read once, so a group that was started once never meets them.
* `util.h`: clock, signal flag and sleeping, which are choices in the models.
* A `listen` that fails after `bind`, which would leave the path behind: it needs
  an exhausted kernel.
* The test drivers (`run_pipeline.py`, `smoke_test.sh`).
