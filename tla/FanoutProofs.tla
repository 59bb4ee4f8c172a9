---------------------------- MODULE FanoutProofs -----------------------------
(***************************************************************************)
(* Proofs about the sender's fan-out (module Fanout), for any number of    *)
(* destinations, any of which may fail or hang, any queue size, and        *)
(* whatever batches the sender's loop feeds it: batches stay in line, and  *)
(* every frame and every queued byte is accounted for.  Module             *)
(* SenderProofs completes the argument for the loop.                       *)
(***************************************************************************)
EXTENDS Fanout, TLAPS

----------------------------------------------------------------------------
(* What this module takes for granted of sums.  Module SenderTheorems       *)
(* proves it (lemma SumFactsHold) before it uses a lemma that assumes it.    *)

Upto(n) == [k \in 1 .. n |-> k]

SumFacts ==
  /\ \A n \in Nat : \A values \in [1 .. n -> Nat] : Tally(values) \in Nat
  /\ \A v : Total(v, <<>>) = 0
  /\ \A N \in Nat : \A v \in [1 .. N -> Nat] :
       /\ \A n \in Nat : \A x \in [1 .. n -> 1 .. N] :
            /\ Total(v, x) \in Nat
            /\ \A k \in 1 .. N : Total(v, Append(x, k)) = Total(v, x) + v[k]
       /\ \A x \in Seq(1 .. N) : x # <<>> => Total(v, x) = v[Head(x)] + Total(v, Tail(x))
       /\ \A n \in Nat, m \in 1 .. N : m = n + 1 =>
            Total(v, Upto(m)) = Total(v, Upto(n)) + v[m] /\ Total(v, Upto(n)) \in Nat

\* A sum of natural numbers is one, ...
LEMMA TallyNat ==
  ASSUME SumFacts, NEW n \in Nat, NEW values \in [1 .. n -> Nat]
  PROVE  Tally(values) \in Nat
BY Zenon DEF SumFacts

\* ... of numbered items too; ...
LEMMA SumType ==
  ASSUME SumFacts, NEW N \in Nat, NEW v \in [1 .. N -> Nat], NEW n \in Nat, NEW x \in [1 .. n -> 1 .. N]
  PROVE  Total(v, x) \in Nat
BY Zenon DEF SumFacts

\* ... no items add up to nothing; ...
LEMMA SumNone ==
  ASSUME SumFacts, NEW v
  PROVE  Total(v, <<>>) = 0
BY Zenon DEF SumFacts

\* ... the sums after Append, ...
LEMMA SumAppend ==
  ASSUME SumFacts, NEW N \in Nat, NEW v \in [1 .. N -> Nat], NEW n \in Nat, NEW x \in [1 .. n -> 1 .. N],
         NEW k \in 1 .. N
  PROVE  Total(v, Append(x, k)) = Total(v, x) + v[k]
BY ZenonT(40) DEF SumFacts

\* ... before Tail, ...
LEMMA SumTail ==
  ASSUME SumFacts, NEW N \in Nat, NEW v \in [1 .. N -> Nat], NEW x \in Seq(1 .. N), x # <<>>
  PROVE  Total(v, x) = v[Head(x)] + Total(v, Tail(x))
BY Zenon DEF SumFacts

\* ... and of the first m numbers.
LEMMA SumUpto ==
  ASSUME SumFacts, NEW N \in Nat, NEW v \in [1 .. N -> Nat], NEW n \in Nat, NEW m \in 1 .. N, m = n + 1
  PROVE  Total(v, Upto(m)) = Total(v, Upto(n)) + v[m] /\ Total(v, Upto(n)) \in Nat
BY ZenonT(40) DEF SumFacts

\* The elements of a sequence, ...
LEMMA ElementsOf ==
  ASSUME NEW S, NEW s \in Seq(S)
  PROVE  /\ Len(s) \in Nat /\ s \in [1 .. Len(s) -> S] /\ DOMAIN s = 1 .. Len(s)
         /\ \A i \in 1 .. Len(s) : s[i] \in S
OBVIOUS

\* ... the first one and the others.
LEMMA HeadAndTail ==
  ASSUME NEW S, NEW s \in Seq(S), s # <<>>
  PROVE  Head(s) \in S /\ Tail(s) \in Seq(S)
OBVIOUS

----------------------------------------------------------------------------
(* The inductive invariant of the fan-out *)

MainPlaces == {"run", "enqueue", "mark", "join", "ok", "bad", "destroy", "reap", "closed"}

FanoutTypeOK ==
  /\ batches \in Seq([frames : Nat \ {0}, members : Seq(Nat), bytes : Nat])
  /\ mpc \in MainPlaces /\ at \in Dest
  /\ queue \in [Dest -> Seq(Nat)] /\ bytes \in [Dest -> Int]
  /\ done \in [Dest -> BOOLEAN] /\ failed \in [Dest -> BOOLEAN] /\ rejected \in [Dest -> Nat]
  /\ wpc \in [Dest -> {"check", "asleep", "send", "exited"}]
  /\ work \in [Dest -> Nat] /\ sent \in [Dest -> Seq(Nat)]

\* Batches that destination d's worker has in its hands.
Sending(d) == IF wpc[d] = "send" THEN 1 ELSE 0

\* What was presented to destination d is sent, being sent or queued, in this
\* order and numbered without a gap, until the destination fails.
InLine(d) ==
  /\ \A i \in DOMAIN sent[d] : sent[d][i] = i
  /\ wpc[d] = "send" => work[d] = Len(sent[d]) + 1
  /\ \A i \in DOMAIN queue[d] : queue[d][i] = Len(sent[d]) + Sending(d) + i
  /\ Len(sent[d]) + Sending(d) + Len(queue[d]) =< Presented(d)
  /\ ~ failed[d] => Len(sent[d]) + Sending(d) + Len(queue[d]) = Presented(d)

\* A failed destination has an empty queue, and frames that it missed unless the
\* sender gave up; a worker leaves for a reason.
Leaving(d) ==
  /\ failed[d] => queue[d] = <<>>
  /\ failed[d] /\ ~ Destroying => rejected[d] > 0
  /\ wpc[d] = "exited" => failed[d] \/ (done[d] /\ queue[d] = <<>>)

\* The walks over the destinations that enqueue, finish and ~Fanout make.
Walking ==
  /\ mpc \in {"run", "ok", "bad", "closed"} => at = 1
  /\ mpc = "enqueue" => batches # <<>>
  /\ \A d \in Dest :
       /\ mpc \in {"run", "enqueue"} => ~ done[d]
       /\ mpc = "mark" => (done[d] <=> d < at)
       /\ mpc \in {"join", "ok", "bad"} => done[d]
       /\ mpc \in {"join", "destroy", "reap"} /\ d < at => wpc[d] = "exited"
       /\ mpc \in {"ok", "bad", "closed"} => wpc[d] = "exited"
       /\ mpc = "ok" => ~ failed[d]
  /\ mpc = "bad" => \E d \in Dest : failed[d]

\* The invariant of a fan-out in use.
FanInv == FanoutTypeOK /\ Walking /\ \A d \in Dest : InLine(d) /\ Leaving(d)

\* Its own steps.
FanStep ==
  \/ Enqueue \/ Completing
  \/ \E d \in Dest : WorkerStep(d) \/ SpuriousWakeup(d) \/ Transfer(d)

Batch == [frames : Nat \ {0}, members : Seq(Nat), bytes : Nat]

\* What the loop does to it: it goes on, ends or gives up, or hands over a batch.
Goes == batches' = batches /\ (mpc' = mpc \/ (mpc = "run" /\ mpc' \in {"mark", "destroy"}))
Gives == mpc = "run" /\ mpc' = "enqueue" /\ \E b \in Batch : batches' = Append(batches, b)
Fed == UNCHANGED <<at, stateVars, wpc, work, sent>> /\ (Goes \/ Gives)

----------------------------------------------------------------------------
(* Facts about the fan-out *)

\* The batches presented to a destination are a number of batches.
LEMMA PresentedType ==
  ASSUME FanoutTypeOK, Walking, NEW d \in Dest
  PROVE  Presented(d) \in Nat /\ Presented(d) =< Len(batches)
<1>1. Len(batches) \in Nat
  BY DEF FanoutTypeOK
<1>2. mpc = "enqueue" => Len(batches) - 1 \in Nat
  <2>1. SUFFICES ASSUME mpc = "enqueue" PROVE Len(batches) - 1 \in Nat
    OBVIOUS
  <2>2. batches # <<>>
    BY <2>1 DEF Walking
  <2>3. Len(batches) # 0
    BY <2>2 DEF FanoutTypeOK
  <2> QED BY <1>1, <2>3
<1> QED BY <1>1, <1>2 DEF Presented

\* A turn of enqueue presents the last batch to the destination where it is, and
\* nothing to the others.
LEMMA PresentedNext ==
  ASSUME FanoutTypeOK, mpc = "enqueue", NextTarget("run"), UNCHANGED batches, NEW d \in Dest
  PROVE  /\ d = at => Presented(d) = Len(batches) - 1 /\ Presented(d)' = Len(batches)
         /\ d # at => Presented(d)' = Presented(d)
<1>1. Targets \in Nat /\ at \in Nat /\ d \in Nat /\ d =< Targets /\ at =< Targets
  BY FanoutAssumption DEF FanoutTypeOK, Dest
<1>2. CASE at < Targets
  BY <1>1, <1>2 DEF NextTarget, Presented
<1>3. CASE ~ (at < Targets)
  BY <1>1, <1>3 DEF NextTarget, Presented
<1> QED BY <1>2, <1>3

\* A step that leaves a destination alone leaves its account in order.
LEMMA LineKept ==
  ASSUME FanoutTypeOK, NEW d \in Dest, InLine(d), Leaving(d),
         sent'[d] = sent[d], queue'[d] = queue[d], work'[d] = work[d],
         failed'[d] = failed[d], rejected'[d] = rejected[d], done[d] => done'[d],
         wpc'[d] = "send" <=> wpc[d] = "send", wpc'[d] = "exited" => wpc[d] = "exited",
         Presented(d)' = Presented(d), Destroying => Destroying'
  PROVE  InLine(d)' /\ Leaving(d)'
<1>1. Sending(d)' = Sending(d)
  BY DEF Sending
<1>2. InLine(d)'
  BY <1>1 DEF InLine
<1>3. Leaving(d)'
  BY DEF Leaving
<1> QED BY <1>2, <1>3

\* Notifying a worker wakes it up and does nothing else.
LEMMA NotifiedIs ==
  ASSUME FanoutTypeOK, NEW a \in Dest, wpc' = Notified(a)
  PROVE  /\ wpc' \in [Dest -> {"check", "asleep", "send", "exited"}]
         /\ \A d \in Dest : /\ wpc'[d] = "send" <=> wpc[d] = "send"
                            /\ wpc'[d] = "exited" <=> wpc[d] = "exited"
BY Zenon DEF FanoutTypeOK, Notified

\* The numbers in a destination's hands are numbers of batches.
LEMMA NumbersOfBatches ==
  ASSUME FanInv, NEW d \in Dest
  PROVE  /\ Len(batches) \in Nat /\ Len(sent[d]) \in Nat /\ Len(queue[d]) \in Nat
         /\ queue[d] \in [1 .. Len(queue[d]) -> 1 .. Len(batches)]
         /\ sent[d] \in [1 .. Len(sent[d]) -> 1 .. Len(batches)]
         /\ wpc[d] = "send" => work[d] \in 1 .. Len(batches)
<1>1. /\ Len(batches) \in Nat /\ Len(sent[d]) \in Nat /\ Len(queue[d]) \in Nat
      /\ DOMAIN queue[d] = 1 .. Len(queue[d]) /\ DOMAIN sent[d] = 1 .. Len(sent[d])
      /\ queue[d] \in Seq(Nat) /\ sent[d] \in Seq(Nat)
  BY DEF FanInv, FanoutTypeOK
<1>2. Presented(d) \in Nat /\ Presented(d) =< Len(batches) /\ InLine(d)
  BY PresentedType DEF FanInv
<1>3. Sending(d) \in {0, 1} /\ (wpc[d] = "send" => Sending(d) = 1)
  BY DEF Sending
<1>4. Len(sent[d]) + Sending(d) + Len(queue[d]) =< Len(batches)
  BY <1>1, <1>2, <1>3 DEF InLine
<1>5. ASSUME NEW i \in 1 .. Len(queue[d])
      PROVE  queue[d][i] \in 1 .. Len(batches)
  <2>1. queue[d][i] = Len(sent[d]) + Sending(d) + i
    BY <1>1, <1>2 DEF InLine
  <2>2. PICK a, q, n \in Nat : a = Len(sent[d]) /\ q = Len(queue[d]) /\ n = Len(batches)
    BY <1>1
  <2>3. i \in 1 .. q /\ queue[d][i] = a + Sending(d) + i /\ a + Sending(d) + q =< n
    BY <1>4, <2>1, <2>2
  <2> QED BY <1>3, <2>2, <2>3, SMTT(30)
<1>6. ASSUME NEW i \in 1 .. Len(sent[d])
      PROVE  sent[d][i] \in 1 .. Len(batches)
  <2>1. sent[d][i] = i
    BY <1>1, <1>2, Zenon DEF InLine
  <2> QED BY <1>1, <1>3, <1>4, <2>1
<1>7. ASSUME wpc[d] = "send"
      PROVE  work[d] \in 1 .. Len(batches)
  <2>1. work[d] = Len(sent[d]) + 1
    BY <1>2, <1>7 DEF InLine
  <2>2. Sending(d) = 1
    BY <1>3, <1>7
  <2>3. Len(sent[d]) + 1 + Len(queue[d]) =< Len(batches)
    BY <1>4, <2>2, Zenon
  <2>4. \A a, b, c \in Nat : a + 1 + b =< c => a + 1 \in 1 .. c
    OBVIOUS
  <2> QED BY <1>1, <2>1, <2>3, <2>4, Zenon
<1>8. queue[d] \in [1 .. Len(queue[d]) -> 1 .. Len(batches)]
  BY <1>1, <1>5
<1>9. sent[d] \in [1 .. Len(sent[d]) -> 1 .. Len(batches)]
  BY <1>1, <1>6
<1> QED BY <1>1, <1>7, <1>8, <1>9

\* A batch has a frame at least.
LEMMA BatchType ==
  ASSUME FanoutTypeOK, NEW k \in 1 .. Len(batches)
  PROVE  batches[k].frames \in Nat /\ batches[k].frames > 0 /\ batches[k].bytes \in Nat
<1>1. batches[k] \in [frames : Nat \ {0}, members : Seq(Nat), bytes : Nat]
  BY ElementsOf, Zenon DEF FanoutTypeOK
<1> QED BY <1>1

\* Frames and bytes of batches are natural numbers.
LEMMA FramesType ==
  ASSUME SumFacts, FanoutTypeOK, NEW n \in Nat, NEW numbers \in [1 .. n -> 1 .. Len(batches)]
  PROVE  Frames(numbers) \in Nat /\ Bytes(numbers) \in Nat
<1>1. \A k \in 1 .. Len(batches) : batches[k].frames \in Nat /\ batches[k].bytes \in Nat
  BY BatchType
<1>2. DOMAIN numbers = 1 .. n /\ \A i \in 1 .. n : numbers[i] \in 1 .. Len(batches)
  OBVIOUS
<1>3. [i \in DOMAIN numbers |-> batches[numbers[i]].frames] \in [1 .. n -> Nat]
  BY <1>1, <1>2
<1>4. [i \in DOMAIN numbers |-> batches[numbers[i]].bytes] \in [1 .. n -> Nat]
  BY <1>1, <1>2
<1> QED BY <1>3, <1>4, TallyNat, Zenon DEF Frames, Bytes

\* The batch that enqueue hands out.
LEMMA LastType ==
  ASSUME FanoutTypeOK, Walking, mpc = "enqueue"
  PROVE  /\ Len(batches) \in Nat /\ Len(batches) \in 1 .. Len(batches)
         /\ NewBatch = batches[Len(batches)]
         /\ NewBatch.frames \in Nat /\ NewBatch.frames > 0
         /\ NewBatch.bytes \in Nat
<1>1. batches # <<>> /\ Len(batches) \in Nat
  BY DEF Walking, FanoutTypeOK
<1>2. Len(batches) # 0
  BY <1>1 DEF FanoutTypeOK
<1>3. Len(batches) \in 1 .. Len(batches)
  BY <1>1, <1>2
<1> QED BY <1>1, <1>3, BatchType DEF NewBatch

----------------------------------------------------------------------------
(* Every step of the fan-out keeps the invariant *)

\* Without a fan-out there is nothing to do here; with one, every step of it keeps
\* the invariant.
LEMMA FanoutStepKeeps ==
  ASSUME SumFacts, FanInv, FanStep
  PROVE  FanInv'
\* Where a turn of enqueue leaves the main thread.
<1>EnqueueWalks.
      ASSUME FanoutTypeOK, Walking, mpc = "enqueue", NextTarget("run"),
             UNCHANGED <<batches, done>>, NEW a \in Dest, a = at
      PROVE  mpc' \in {"run", "enqueue"} /\ at' \in Dest /\ Walking' /\ ~ Destroying /\ ~ Destroying'
  <2> USE <1>EnqueueWalks
  <2>1. Targets \in Nat /\ at \in Nat /\ at \in 1 .. Targets /\ 1 \in Dest
    BY FanoutAssumption DEF FanoutTypeOK, Dest
  <2>2. mpc' \in {"run", "enqueue"} /\ (mpc' = "run" => at' = 1) /\ at' \in Dest
    BY <2>1 DEF NextTarget, Dest
  <2>3. ~ Destroying /\ ~ Destroying'
    BY <2>2 DEF Destroying
  <2>4. Walking'
    BY <2>2 DEF Walking
  <2> QED BY <2>2, <2>3, <2>4

<1>EnqueueFailed. ASSUME EnqueueFailed
      PROVE  FanInv'
  <2> USE <1>EnqueueFailed
  <2> USE DEF FanInv
  <2>0. FanoutTypeOK /\ Walking /\ mpc = "enqueue" /\ at \in Dest /\ failed[at]
        /\ NextTarget("run")
    BY DEF EnqueueFailed, FanoutTypeOK
  <2>1. NewBatch.frames \in Nat /\ Len(batches) \in Nat
    BY <2>0, LastType
  <2>2. mpc' \in {"run", "enqueue"} /\ at' \in Dest /\ Walking' /\ ~ Destroying /\ ~ Destroying'
    BY <2>0, <1>EnqueueWalks DEF EnqueueFailed
  <2>3. FanoutTypeOK'
    <3>1. rejected' \in [Dest -> Nat]
      BY <2>0, <2>1 DEF EnqueueFailed, FanoutTypeOK
    <3>2. mpc' \in MainPlaces
      BY <2>2 DEF MainPlaces
    <3> QED BY <2>2, <3>1, <3>2, Zenon DEF EnqueueFailed, FanoutTypeOK
  <2>4. ASSUME NEW d \in Dest, d # at
        PROVE  InLine(d)' /\ Leaving(d)'
    <3>1. rejected'[d] = rejected[d]
      BY <2>0, <2>4 DEF EnqueueFailed, FanoutTypeOK
    <3>2. Presented(d)' = Presented(d)
      BY <2>0, <2>4, PresentedNext DEF EnqueueFailed
    <3> QED BY <2>0, <2>2, <3>1, <3>2, LineKept DEF EnqueueFailed
  <2>5. ASSUME NEW d \in Dest, d = at
        PROVE  InLine(d)' /\ Leaving(d)'
    <3>1. rejected[d] \in Nat /\ rejected'[d] = rejected[d] + NewBatch.frames
      BY <2>0, <2>5 DEF EnqueueFailed, FanoutTypeOK
    <3>2. Presented(d) = Len(batches) - 1 /\ Presented(d)' = Len(batches)
      BY <2>0, <2>5, PresentedNext DEF EnqueueFailed
    <3>3. InLine(d) /\ Leaving(d) /\ failed[d] /\ UNCHANGED <<sent, queue, work, wpc, failed, done>>
      BY <2>0, <2>5 DEF EnqueueFailed
    <3>4. Sending(d)' = Sending(d) /\ Sending(d) \in {0, 1}
      BY <3>3 DEF Sending
    <3>5. Len(sent[d]) \in Nat /\ Len(queue[d]) \in Nat
      BY <2>5, NumbersOfBatches
    <3>6. InLine(d)'
      BY <2>1, <3>2, <3>3, <3>4, <3>5 DEF InLine
    <3>7. Leaving(d)'
      BY <2>1, <2>2, <3>1, <3>3 DEF Leaving
    <3> QED BY <3>6, <3>7
  <2>6. \A d \in Dest : InLine(d)' /\ Leaving(d)'
    BY <2>4, <2>5
  <2> QED BY <2>0, <2>2, <2>3, <2>6

<1>EnqueueFull. ASSUME EnqueueFull
      PROVE  FanInv'
  <2> USE <1>EnqueueFull
  <2> USE DEF FanInv
  <2>0. FanoutTypeOK /\ Walking /\ mpc = "enqueue" /\ at \in Dest /\ ~ failed[at]
        /\ NextTarget("run") /\ wpc' = Notified(at)
    BY DEF EnqueueFull, FanoutTypeOK
  <2>1. NewBatch.frames \in Nat /\ NewBatch.frames > 0 /\ Len(batches) \in Nat
    BY <2>0, LastType
  <2>2. mpc' \in {"run", "enqueue"} /\ at' \in Dest /\ Walking' /\ ~ Destroying /\ ~ Destroying'
    BY <2>0, <1>EnqueueWalks DEF EnqueueFull
  <2>a. Frames(queue[at]) \in Nat
    BY <2>0, NumbersOfBatches, FramesType, Zenon
  <2>b. /\ wpc' \in [Dest -> {"check", "asleep", "send", "exited"}]
        /\ \A d \in Dest : /\ wpc'[d] = "send" <=> wpc[d] = "send"
                           /\ wpc'[d] = "exited" <=> wpc[d] = "exited"
    BY <2>0, NotifiedIs
  <2>3. FanoutTypeOK'
    <3>1. rejected' \in [Dest -> Nat]
      BY <2>0, <2>1, <2>a DEF EnqueueFull, FanoutTypeOK
    <3>2. mpc' \in MainPlaces
      BY <2>2 DEF MainPlaces
    <3>3. failed' \in [Dest -> BOOLEAN] /\ bytes' \in [Dest -> Int]
      BY <2>0 DEF EnqueueFull, FanoutTypeOK
    <3>4. queue' \in [Dest -> Seq(Nat)]
      BY <2>0 DEF EnqueueFull, FanoutTypeOK
    <3> QED BY <2>2, <2>b, <3>1, <3>2, <3>3, <3>4, SMTT(30) DEF EnqueueFull, FanoutTypeOK
  <2>4. ASSUME NEW d \in Dest, d # at
        PROVE  InLine(d)' /\ Leaving(d)'
    <3>1. rejected'[d] = rejected[d] /\ queue'[d] = queue[d] /\ failed'[d] = failed[d]
      BY <2>0, <2>4 DEF EnqueueFull, FanoutTypeOK
    <3>2. Presented(d)' = Presented(d)
      BY <2>0, <2>4, PresentedNext DEF EnqueueFull
    <3> QED BY <2>0, <2>2, <2>b, <3>1, <3>2, LineKept, Zenon DEF EnqueueFull
  <2>5. ASSUME NEW d \in Dest, d = at
        PROVE  InLine(d)' /\ Leaving(d)'
    <3>1. /\ rejected[d] \in Nat
          /\ rejected'[d] = rejected[d] + NewBatch.frames + Frames(queue[d])
          /\ failed'[d] /\ queue'[d] = <<>>
      BY <2>0, <2>5 DEF EnqueueFull, FanoutTypeOK
    <3>2. Presented(d) = Len(batches) - 1 /\ Presented(d)' = Len(batches)
      BY <2>0, <2>5, PresentedNext DEF EnqueueFull
    <3>3. InLine(d) /\ Leaving(d) /\ UNCHANGED <<sent, work, done>>
      BY <2>0, <2>5 DEF EnqueueFull
    <3>4. Sending(d)' = Sending(d) /\ Sending(d) \in {0, 1}
      BY <2>b DEF Sending
    <3>5. Len(sent[d]) \in Nat /\ Len(queue[d]) \in Nat
      BY <2>5, NumbersOfBatches
    <3>6. InLine(d)'
      <4>1. DOMAIN queue'[d] = {} /\ Len(queue'[d]) = 0
        BY <3>1
      <4>2. Len(sent[d]) + Sending(d) =< Len(batches)
        BY <2>1, <3>2, <3>3, <3>4, <3>5 DEF InLine
      <4>3. wpc'[d] = "send" => work'[d] = Len(sent'[d]) + 1
        BY <2>b, <3>3 DEF InLine
      <4>4. \A i \in DOMAIN sent'[d] : sent'[d][i] = i
        BY <3>3 DEF InLine
      <4>5. Len(sent'[d]) + Sending(d)' + Len(queue'[d]) =< Presented(d)'
        BY <2>1, <3>2, <3>3, <3>4, <3>5, <4>1, <4>2
      <4> QED BY <3>1, <4>1, <4>3, <4>4, <4>5 DEF InLine
    <3>7. Leaving(d)'
      <4>1. rejected'[d] > 0
        BY <2>1, <2>5, <2>a, <3>1
      <4> QED BY <3>1, <4>1 DEF Leaving
    <3> QED BY <3>6, <3>7
  <2>6. \A d \in Dest : InLine(d)' /\ Leaving(d)'
    BY <2>4, <2>5
  <2> QED BY <2>0, <2>2, <2>3, <2>6

<1>EnqueueFits. ASSUME EnqueueFits
      PROVE  FanInv'
  <2> USE <1>EnqueueFits
  <2> USE DEF FanInv
  <2>0. FanoutTypeOK /\ Walking /\ mpc = "enqueue" /\ at \in Dest /\ ~ failed[at]
        /\ NextTarget("run") /\ wpc' = Notified(at)
    BY DEF EnqueueFits, FanoutTypeOK
  <2>1. NewBatch.bytes \in Nat /\ Len(batches) \in Nat
    BY <2>0, LastType
  <2>2. mpc' \in {"run", "enqueue"} /\ at' \in Dest /\ Walking' /\ ~ Destroying /\ ~ Destroying'
    BY <2>0, <1>EnqueueWalks DEF EnqueueFits
  <2>b. /\ wpc' \in [Dest -> {"check", "asleep", "send", "exited"}]
        /\ \A d \in Dest : /\ wpc'[d] = "send" <=> wpc[d] = "send"
                           /\ wpc'[d] = "exited" <=> wpc[d] = "exited"
    BY <2>0, NotifiedIs
  <2>3. FanoutTypeOK'
    <3>1. queue[at] \in Seq(Nat) /\ Append(queue[at], Len(batches)) \in Seq(Nat)
      BY <2>0, <2>1 DEF FanoutTypeOK
    <3>2. mpc' \in MainPlaces
      BY <2>2 DEF MainPlaces
    <3>3. bytes' \in [Dest -> Int]
      BY <2>0, <2>1 DEF EnqueueFits, FanoutTypeOK
    <3>4. queue' \in [Dest -> Seq(Nat)]
      BY <2>0, <3>1 DEF EnqueueFits, FanoutTypeOK
    <3> QED BY <2>2, <2>b, <3>2, <3>3, <3>4, Zenon DEF EnqueueFits, FanoutTypeOK
  <2>4. ASSUME NEW d \in Dest, d # at
        PROVE  InLine(d)' /\ Leaving(d)'
    <3>1. queue'[d] = queue[d]
      BY <2>0, <2>4 DEF EnqueueFits, FanoutTypeOK
    <3>2. Presented(d)' = Presented(d)
      BY <2>0, <2>4, PresentedNext DEF EnqueueFits
    <3> QED BY <2>0, <2>2, <2>b, <3>1, <3>2, LineKept, Zenon DEF EnqueueFits
  <2>5. ASSUME NEW d \in Dest, d = at
        PROVE  InLine(d)' /\ Leaving(d)'
    <3>1. queue'[d] = Append(queue[d], Len(batches)) /\ queue[d] \in Seq(Nat)
      BY <2>0, <2>5 DEF EnqueueFits, FanoutTypeOK
    <3>2. Presented(d) = Len(batches) - 1 /\ Presented(d)' = Len(batches)
      BY <2>0, <2>5, PresentedNext DEF EnqueueFits
    <3>3. InLine(d) /\ Leaving(d) /\ ~ failed[d] /\ UNCHANGED <<sent, work, done, failed, rejected>>
      BY <2>0, <2>5 DEF EnqueueFits
    <3>4. Sending(d)' = Sending(d) /\ Sending(d) \in {0, 1}
      BY <2>b DEF Sending
    <3>5. Len(sent[d]) \in Nat /\ Len(queue[d]) \in Nat
      BY <2>5, NumbersOfBatches
    <3>6. /\ Len(queue'[d]) = Len(queue[d]) + 1 /\ DOMAIN queue'[d] = 1 .. Len(queue[d]) + 1
          /\ DOMAIN queue[d] = 1 .. Len(queue[d])
          /\ queue'[d][Len(queue[d]) + 1] = Len(batches)
          /\ \A i \in 1 .. Len(queue[d]) : queue'[d][i] = queue[d][i]
      BY <2>1, <3>1, <3>5
    <3>7. Len(sent[d]) + Sending(d) + Len(queue[d]) = Len(batches) - 1
      BY <3>2, <3>3, Zenon DEF InLine
    <3>8. InLine(d)'
      <4>1. wpc'[d] = "send" => work'[d] = Len(sent'[d]) + 1
        BY <2>b, <3>3 DEF InLine
      <4>2. \A i \in DOMAIN sent'[d] : sent'[d][i] = i
        BY <3>3 DEF InLine
      <4>3. Len(sent'[d]) + Sending(d)' + Len(queue'[d]) = Presented(d)'
        <5>1. \A a, b, c, e \in Nat : a + b + c = e - 1 => a + b + (c + 1) = e
          OBVIOUS
        <5>2. Sending(d) \in Nat
          BY <3>4
        <5>3. Len(sent[d]) + Sending(d) + (Len(queue[d]) + 1) = Len(batches)
          BY <2>1, <3>5, <3>7, <5>1, <5>2, SMTT(60)
        <5> QED BY <3>2, <3>3, <3>4, <3>6, <5>3, Zenon
      <4>4. ASSUME NEW i \in DOMAIN queue'[d]
            PROVE  queue'[d][i] = Len(sent'[d]) + Sending(d)' + i
        <5>1. CASE i \in 1 .. Len(queue[d])
          <6>1. queue[d][i] = Len(sent[d]) + Sending(d) + i
            BY <3>3, <3>6, <5>1 DEF InLine
          <6> QED BY <3>3, <3>4, <3>6, <5>1, <6>1
        <5>2. CASE i = Len(queue[d]) + 1
          BY <3>2, <3>3, <3>6, <4>3, <5>2, Zenon
        <5> QED BY <3>5, <3>6, <5>1, <5>2
      <4>5. Len(sent'[d]) + Sending(d)' + Len(queue'[d]) =< Presented(d)'
        BY <2>1, <3>2, <4>3
      <4> QED BY <4>1, <4>2, <4>3, <4>4, <4>5 DEF InLine
    <3>9. Leaving(d)'
      <4>1. ~ done[d]
        BY <2>0, <2>5 DEF Walking
      <4>2. wpc[d] # "exited"
        BY <3>3, <4>1 DEF Leaving
      <4> QED BY <2>b, <3>3, <4>2 DEF Leaving
    <3> QED BY <3>8, <3>9
  <2>6. \A d \in Dest : InLine(d)' /\ Leaving(d)'
    BY <2>4, <2>5
  <2> QED BY <2>0, <2>2, <2>3, <2>6

\* Where a turn of finish or of ~Fanout leaves the main thread.
<1>WalksOn. ASSUME FanoutTypeOK, NEW then, NextTarget(then)
      PROVE  /\ at' \in Dest /\ at \in Dest
             /\ \/ at < Targets /\ at' = at + 1 /\ mpc' = mpc
                    /\ \A d \in Dest : d < at' <=> d < at \/ d = at
                \/ at = Targets /\ at' = 1 /\ mpc' = then
                    /\ \A d \in Dest : ~ (d < at') /\ (d < at \/ d = at)
  <2> USE <1>WalksOn
  <2>1. Targets \in Nat /\ at \in Nat /\ at \in 1 .. Targets /\ Dest = 1 .. Targets
    BY FanoutAssumption DEF FanoutTypeOK, Dest
  <2>2. CASE at < Targets
    BY <2>1, <2>2 DEF NextTarget
  <2>3. CASE ~ (at < Targets)
    BY <2>1, <2>3 DEF NextTarget
  <2> QED BY <2>2, <2>3

<1>MarkDone. ASSUME MarkDone
      PROVE  FanInv'
  <2> USE <1>MarkDone
  <2> USE DEF FanInv
  <2>0. FanoutTypeOK /\ Walking /\ mpc = "mark" /\ NextTarget("join") /\ wpc' = Notified(at)
        /\ at \in Dest
    BY DEF MarkDone, FanoutTypeOK
  <2>1. /\ wpc' \in [Dest -> {"check", "asleep", "send", "exited"}]
        /\ \A d \in Dest : /\ wpc'[d] = "send" <=> wpc[d] = "send"
                           /\ wpc'[d] = "exited" <=> wpc[d] = "exited"
    BY <2>0, NotifiedIs
  <2>2. /\ at' \in Dest
        /\ \/ mpc' = "mark" /\ \A d \in Dest : d < at' <=> d < at \/ d = at
           \/ mpc' = "join" /\ \A d \in Dest : ~ (d < at') /\ (d < at \/ d = at)
    BY <2>0, <1>WalksOn
  <2>3. done' \in [Dest -> BOOLEAN] /\ \A d \in Dest : done'[d] <=> done[d] \/ d = at
    BY <2>0 DEF MarkDone, FanoutTypeOK
  <2>4. FanoutTypeOK'
    <3>1. mpc' \in MainPlaces
      BY <2>2 DEF MainPlaces
    <3> QED BY <2>1, <2>2, <2>3, <3>1 DEF MarkDone, FanoutTypeOK
  <2>5. ASSUME NEW d \in Dest
        PROVE  InLine(d)' /\ Leaving(d)'
    <3>1. Presented(d)' = Presented(d) /\ (Destroying => Destroying')
      BY <2>0, <2>2 DEF MarkDone, Presented, Destroying
    <3> QED BY <2>0, <2>1, <2>3, <3>1, LineKept DEF MarkDone
  <2>6. Walking'
    <3>1. CASE mpc' = "mark" /\ \A d \in Dest : d < at' <=> d < at \/ d = at
      BY <2>0, <2>3, <3>1 DEF Walking
    <3>2. CASE mpc' = "join" /\ \A d \in Dest : ~ (d < at') /\ (d < at \/ d = at)
      BY <2>0, <2>3, <3>2 DEF Walking
    <3> QED BY <2>2, <3>1, <3>2
  <2> QED BY <2>0, <2>4, <2>5, <2>6

<1>Join. ASSUME Join
      PROVE  FanInv'
  <2> USE <1>Join
  <2> USE DEF FanInv
  <2>0. /\ FanoutTypeOK /\ Walking /\ mpc = "join" /\ at \in Dest /\ wpc[at] = "exited"
        /\ NextTarget(IF \E d \in Dest : failed[d] THEN "bad" ELSE "ok")
        /\ UNCHANGED <<batches, queue, bytes, done, failed, rejected, wpc, work, sent>>
    BY DEF Join, FanoutTypeOK, stateVars
  <2>2. /\ at' \in Dest
        /\ \/ mpc' = "join" /\ \A d \in Dest : d < at' <=> d < at \/ d = at
           \/ /\ mpc' = IF \E d \in Dest : failed[d] THEN "bad" ELSE "ok"
              /\ at' = 1 /\ \A d \in Dest : d < at \/ d = at
    BY <2>0, <1>WalksOn
  <2>4. FanoutTypeOK'
    <3>1. mpc' \in MainPlaces
      BY <2>2 DEF MainPlaces
    <3> QED BY <2>0, <2>2, <3>1, Zenon DEF FanoutTypeOK
  <2>5. ASSUME NEW d \in Dest
        PROVE  InLine(d)' /\ Leaving(d)'
    <3>1. Presented(d)' = Presented(d) /\ (Destroying => Destroying')
      BY <2>0, <2>2 DEF Presented, Destroying
    <3> QED BY <2>0, <3>1, LineKept, Zenon
  <2>6. Walking'
    <3>1. CASE mpc' = "join" /\ \A d \in Dest : d < at' <=> d < at \/ d = at
      BY <2>0, <3>1 DEF Walking
    <3>2. CASE /\ mpc' = IF \E d \in Dest : failed[d] THEN "bad" ELSE "ok"
               /\ at' = 1 /\ \A d \in Dest : d < at \/ d = at
      <4>1. \A d \in Dest : wpc[d] = "exited" /\ done[d]
        BY <2>0, <3>2 DEF Walking
      <4>2. CASE \E d \in Dest : failed[d]
        BY <2>0, <3>2, <4>1, <4>2 DEF Walking
      <4>3. CASE ~ \E d \in Dest : failed[d]
        BY <2>0, <3>2, <4>1, <4>3 DEF Walking
      <4> QED BY <4>2, <4>3
    <3> QED BY <2>2, <3>1, <3>2
  <2> QED BY <2>0, <2>4, <2>5, <2>6, Zenon

<1>Destroy. ASSUME Destroy
      PROVE  FanInv'
  <2> USE <1>Destroy
  <2> USE DEF FanInv
  <2>0. FanoutTypeOK /\ Walking /\ mpc = "destroy" /\ mpc' = "reap" /\ at' = at
        /\ wpc' = Notified(at) /\ at \in Dest
    BY DEF Destroy, FanoutTypeOK
  <2>1. /\ wpc' \in [Dest -> {"check", "asleep", "send", "exited"}]
        /\ \A d \in Dest : /\ wpc'[d] = "send" <=> wpc[d] = "send"
                           /\ wpc'[d] = "exited" <=> wpc[d] = "exited"
    BY <2>0, NotifiedIs
  <2>2. FanoutTypeOK'
    <3>1. done' \in [Dest -> BOOLEAN] /\ failed' \in [Dest -> BOOLEAN]
      BY <2>0 DEF Destroy, FanoutTypeOK
    <3>2. queue' \in [Dest -> Seq(Nat)]
      BY <2>0 DEF Destroy, FanoutTypeOK
    <3>3. mpc' \in MainPlaces
      BY <2>0 DEF MainPlaces
    <3> QED BY <2>0, <2>1, <3>1, <3>2, <3>3 DEF Destroy, FanoutTypeOK
  <2>3. \A d \in Dest : Presented(d)' = Presented(d) /\ Destroying'
    BY <2>0 DEF Destroy, Presented, Destroying
  <2>4. ASSUME NEW d \in Dest, d # at
        PROVE  InLine(d)' /\ Leaving(d)'
    <3>1. done'[d] = done[d] /\ failed'[d] = failed[d] /\ queue'[d] = queue[d]
      BY <2>0, <2>4 DEF Destroy, FanoutTypeOK
    <3> QED BY <2>0, <2>1, <2>3, <3>1, LineKept, Zenon DEF Destroy
  <2>5. ASSUME NEW d \in Dest, d = at
        PROVE  InLine(d)' /\ Leaving(d)'
    <3>1. failed'[d] /\ queue'[d] = <<>>
      BY <2>0, <2>5 DEF Destroy, FanoutTypeOK
    <3>2. InLine(d) /\ UNCHANGED <<sent, work>>
      BY <2>0, <2>5 DEF Destroy
    <3>3. Sending(d)' = Sending(d) /\ Sending(d) \in {0, 1}
      BY <2>1 DEF Sending
    <3>4. Len(sent[d]) \in Nat /\ Len(queue[d]) \in Nat
      BY <2>5, NumbersOfBatches
    <3>5. DOMAIN queue'[d] = {} /\ Len(queue'[d]) = 0
      BY <3>1
    <3>6. Presented(d) \in Nat
      BY <2>0, PresentedType
    <3>7. Len(sent'[d]) + Sending(d)' + Len(queue'[d]) =< Presented(d)'
      <4>1. Len(sent[d]) + Sending(d) + Len(queue[d]) =< Presented(d)
        BY <3>2 DEF InLine
      <4>2. \A a, b, c, e \in Nat : a + b + c =< e => a + b + 0 =< e
        OBVIOUS
      <4>3. Sending(d) \in Nat
        BY <3>3
      <4>4. Len(sent[d]) + Sending(d) + 0 =< Presented(d)
        BY <3>4, <3>6, <4>1, <4>2, <4>3
      <4> QED BY <2>3, <3>2, <3>3, <3>5, <4>4
    <3>8. InLine(d)'
      <4>1. wpc'[d] = "send" => work'[d] = Len(sent'[d]) + 1
        BY <2>1, <3>2 DEF InLine
      <4>2. \A i \in DOMAIN sent'[d] : sent'[d][i] = i
        BY <3>2 DEF InLine
      <4> QED BY <3>1, <3>5, <3>7, <4>1, <4>2 DEF InLine
    <3>9. Leaving(d)'
      BY <2>3, <3>1 DEF Leaving
    <3> QED BY <3>8, <3>9
  <2>6. Walking'
    BY <2>0, <2>1 DEF Walking
  <2>7. \A d \in Dest : InLine(d)' /\ Leaving(d)'
    BY <2>4, <2>5
  <2> QED BY <2>0, <2>2, <2>6, <2>7

<1>Reap. ASSUME Reap
      PROVE  FanInv'
  <2> USE <1>Reap
  <2> USE DEF FanInv
  <2>0. /\ FanoutTypeOK /\ Walking /\ mpc = "reap" /\ at \in Dest /\ wpc[at] = "exited"
        /\ UNCHANGED <<batches, queue, bytes, done, failed, rejected, wpc, work, sent>>
    BY DEF Reap, FanoutTypeOK, stateVars
  <2>1. /\ at' \in Dest
        /\ \/ mpc' = "destroy" /\ \A d \in Dest : d < at' <=> d < at \/ d = at
           \/ mpc' = "closed" /\ at' = 1 /\ \A d \in Dest : d < at \/ d = at
    <3>1. Targets \in Nat /\ at \in Nat /\ at \in 1 .. Targets /\ Dest = 1 .. Targets
      BY <2>0, FanoutAssumption DEF Dest
    <3>2. CASE at < Targets
      BY <3>1, <3>2 DEF Reap
    <3>3. CASE ~ (at < Targets)
      BY <3>1, <3>3 DEF Reap
    <3> QED BY <3>2, <3>3
  <2>2. FanoutTypeOK'
    <3>1. mpc' \in MainPlaces
      BY <2>1 DEF MainPlaces
    <3> QED BY <2>0, <2>1, <3>1 DEF FanoutTypeOK
  <2>3. ASSUME NEW d \in Dest
        PROVE  InLine(d)' /\ Leaving(d)'
    <3>1. Presented(d)' = Presented(d) /\ (Destroying => Destroying')
      BY <2>0, <2>1 DEF Presented, Destroying
    <3> QED BY <2>0, <3>1, LineKept, Zenon
  <2>4. Walking'
    BY <2>0, <2>1 DEF Walking
  <2> QED BY <2>0, <2>2, <2>3, <2>4

<1>WorkerWalks.
      ASSUME FanoutTypeOK, Walking, NEW d \in Dest, wpc[d] # "exited",
             UNCHANGED <<batches, mpc, at, done>>,
             \A e \in Dest : /\ wpc[e] = "exited" => wpc'[e] = "exited"
                             /\ failed[e] => failed'[e]
                             /\ e # d => failed'[e] = failed[e]
      PROVE  Walking'
  <2> USE <1>WorkerWalks
  <2>1. mpc \notin {"ok", "bad", "closed"}
    BY DEF Walking
  <2> QED BY <2>1 DEF Walking

\* A worker that only moves between waiting and looking, or leaves for a reason.
<1>WorkerMoves.
      ASSUME NEW a \in Dest,
             NEW place \in {"check", "asleep", "exited"}, wpc[a] \in {"check", "asleep"},
             wpc' = [wpc EXCEPT ![a] = place], place = "exited" => Over(a),
             UNCHANGED <<batches, mpc, at, stateVars, work, sent>>
      PROVE  FanInv'
  <2> USE <1>WorkerMoves
  <2> USE DEF FanInv
  <2>0. FanoutTypeOK /\ Walking
        /\ UNCHANGED <<batches, mpc, at, queue, bytes, done, failed, rejected, work, sent>>
    BY DEF FanoutTypeOK, stateVars
  <2>1. /\ wpc' \in [Dest -> {"check", "asleep", "send", "exited"}]
        /\ wpc'[a] = place
        /\ \A d \in Dest : d # a => wpc'[d] = wpc[d]
    BY <2>0 DEF FanoutTypeOK
  <2>2. FanoutTypeOK'
    BY <2>0, <2>1 DEF FanoutTypeOK
  <2>3. \A d \in Dest : Presented(d)' = Presented(d) /\ Destroying' = Destroying
    BY <2>0 DEF Presented, Destroying
  <2>4. ASSUME NEW d \in Dest, d # a
        PROVE  InLine(d)' /\ Leaving(d)'
    <3>1. /\ FanoutTypeOK /\ InLine(d) /\ Leaving(d)
          /\ sent'[d] = sent[d] /\ queue'[d] = queue[d] /\ work'[d] = work[d]
          /\ failed'[d] = failed[d] /\ rejected'[d] = rejected[d] /\ done'[d] = done[d]
          /\ wpc'[d] = wpc[d] /\ Presented(d)' = Presented(d) /\ Destroying' = Destroying
      BY <2>0, <2>1, <2>3, <2>4, Zenon
    <3> QED BY <3>1, LineKept, Zenon
  <2>5. InLine(a)' /\ Leaving(a)'
    <3>1. Sending(a)' = Sending(a)
      BY <2>1 DEF Sending
    <3>a. InLine(a) /\ (wpc'[a] = "send" => wpc[a] = "send")
      BY <2>0, <2>1
    <3>2. InLine(a)'
      BY <2>0, <2>3, <3>1, <3>a, Zenon DEF InLine
    <3>3. Leaving(a)'
      BY <2>0, <2>1, <2>3 DEF Leaving, Over
    <3> QED BY <3>2, <3>3
  <2>6. Walking'
    <3>1. \A e \in Dest : wpc[e] = "exited" => wpc'[e] = "exited"
      BY <2>1
    <3> QED BY <2>0, <3>1, <1>WorkerWalks
  <2>7. \A d \in Dest : InLine(d)' /\ Leaving(d)'
    BY <2>4, <2>5
  <2> QED BY <2>0, <2>2, <2>6, <2>7

<1>Take. ASSUME NEW a \in Dest, Take(a)
      PROVE  FanInv'
  <2> USE <1>Take
  <2> USE DEF FanInv
  <2>0. /\ FanoutTypeOK /\ Walking /\ wpc[a] = "check" /\ ~ failed[a] /\ queue[a] # <<>>
        /\ UNCHANGED <<batches, mpc, at, done, failed, rejected, sent>>
    BY Zenon DEF Take, Ready, Over, FanoutTypeOK
  <2>1. /\ wpc' \in [Dest -> {"check", "asleep", "send", "exited"}]
        /\ wpc'[a] = "send"
        /\ \A d \in Dest : d # a => wpc'[d] = wpc[d]
    BY <2>0, Zenon DEF Take, FanoutTypeOK
  <2>2. /\ queue[a] \in Seq(Nat) /\ Len(queue[a]) \in Nat /\ Len(queue[a]) # 0
        /\ Head(queue[a]) = queue[a][1] /\ Head(queue[a]) \in Nat
        /\ Tail(queue[a]) \in Seq(Nat) /\ Len(Tail(queue[a])) = Len(queue[a]) - 1
        /\ \A i \in 1 .. Len(Tail(queue[a])) : Tail(queue[a])[i] = queue[a][i + 1]
        /\ DOMAIN Tail(queue[a]) = 1 .. Len(Tail(queue[a]))
        /\ DOMAIN queue[a] = 1 .. Len(queue[a])
    <3>1. queue[a] \in Seq(Nat)
      BY <2>0 DEF FanoutTypeOK
    <3> QED BY <2>0, <3>1
  <2>3. queue' \in [Dest -> Seq(Nat)] /\ queue'[a] = Tail(queue[a])
        /\ \A d \in Dest : d # a => queue'[d] = queue[d]
    BY <2>0, <2>2, Zenon DEF Take, FanoutTypeOK
  <2>4. work' \in [Dest -> Nat] /\ work'[a] = queue[a][1]
        /\ \A d \in Dest : d # a => work'[d] = work[d]
    BY <2>0, <2>2, Zenon DEF Take, FanoutTypeOK
  <2>5. FanoutTypeOK'
    <3>1. 1 \in 1 .. Len(queue[a]) /\ queue[a][1] \in 1 .. Len(batches)
      BY <2>0, <2>2, NumbersOfBatches
    <3>2. batches[Head(queue[a])].bytes \in Nat
      BY <2>0, <2>2, <3>1, BatchType
    <3>3. bytes' \in [Dest -> Int]
      <4>1. bytes[a] - batches[Head(queue[a])].bytes \in Int
        <5>1. bytes[a] \in Int
          BY <2>0 DEF FanoutTypeOK
        <5>2. \A x \in Int, y \in Nat : x - y \in Int
          OBVIOUS
        <5> QED BY <3>2, <5>1, <5>2, Zenon
      <4> QED BY <2>0, <4>1, Zenon DEF Take, FanoutTypeOK
    <3> QED BY <2>0, <2>1, <2>3, <2>4, <3>3, Zenon DEF FanoutTypeOK
  <2>6. \A d \in Dest : Presented(d)' = Presented(d) /\ Destroying' = Destroying
    BY <2>0, Zenon DEF Presented, Destroying
  <2>7. ASSUME NEW d \in Dest, d # a
        PROVE  InLine(d)' /\ Leaving(d)'
    <3>1. /\ FanoutTypeOK /\ InLine(d) /\ Leaving(d)
          /\ sent'[d] = sent[d] /\ queue'[d] = queue[d] /\ work'[d] = work[d]
          /\ failed'[d] = failed[d] /\ rejected'[d] = rejected[d] /\ done'[d] = done[d]
          /\ wpc'[d] = wpc[d] /\ Presented(d)' = Presented(d) /\ Destroying' = Destroying
      BY <2>0, <2>1, <2>3, <2>4, <2>6, <2>7, Zenon
    <3> QED BY <3>1, LineKept, Zenon
  <2>8. InLine(a)' /\ Leaving(a)'
    <3>1. Sending(a) = 0 /\ Sending(a)' = 1
      BY <2>0, <2>1, Zenon DEF Sending
    <3>2. InLine(a) /\ Leaving(a) /\ Len(sent[a]) \in Nat /\ sent'[a] = sent[a]
      BY <2>0, NumbersOfBatches
    <3>3. ASSUME NEW i \in DOMAIN queue[a]
          PROVE  queue[a][i] = Len(sent[a]) + i
      <4>1. queue[a][i] = Len(sent[a]) + 0 + i
        BY <3>1, <3>2 DEF InLine
      <4> QED BY <3>2, <4>1
    <3>4. work'[a] = Len(sent'[a]) + 1
      <4>1. 1 \in DOMAIN queue[a]
        BY <2>2
      <4> QED BY <2>4, <3>2, <3>3, <4>1
    <3>5. ASSUME NEW i \in DOMAIN queue'[a]
          PROVE  queue'[a][i] = Len(sent'[a]) + Sending(a)' + i
      <4>1. i \in 1 .. Len(Tail(queue[a])) /\ i + 1 \in DOMAIN queue[a]
        <5>1. Len(queue[a]) \in Nat /\ i \in 1 .. Len(queue[a]) - 1
          BY <2>2, <2>3
        <5>2. \A n \in Nat : \A k \in 1 .. n - 1 : k + 1 \in 1 .. n
          OBVIOUS
        <5> QED BY <2>2, <2>3, <5>1, <5>2, Zenon
      <4>2. queue'[a][i] = Len(sent[a]) + (i + 1)
        BY <2>2, <2>3, <3>3, <4>1, Zenon
      <4>3. \A x \in Nat : x + (i + 1) = x + 1 + i
        BY <4>1
      <4> QED BY <3>1, <3>2, <4>2, <4>3
    <3>6. Len(sent'[a]) + Sending(a)' + Len(queue'[a]) = Presented(a)'
      <4>1. Len(sent[a]) + 0 + Len(queue[a]) = Presented(a)
        BY <2>0, <3>1, <3>2, Zenon DEF InLine
      <4>2. \A x, y \in Nat : x + 1 + (y - 1) = x + 0 + y
        OBVIOUS
      <4>3. Len(sent[a]) + 1 + (Len(queue[a]) - 1) = Presented(a)
        BY <2>2, <3>2, <4>1, <4>2, Zenon
      <4> QED BY <2>2, <2>3, <2>6, <3>1, <3>2, <4>3, Zenon
    <3>7. Presented(a)' \in Nat
      BY <2>0, <2>6, PresentedType, Zenon
    <3>8. InLine(a)'
      <4>1. \A i \in DOMAIN sent'[a] : sent'[a][i] = i
        BY <3>2 DEF InLine
      <4>2. Len(sent'[a]) + Sending(a)' + Len(queue'[a]) =< Presented(a)'
        BY <3>6, <3>7
      <4> QED BY <3>4, <3>5, <3>6, <4>1, <4>2, Zenon DEF InLine
    <3>9. Leaving(a)'
      BY <2>0, <2>1 DEF Leaving
    <3> QED BY <3>8, <3>9
  <2>9. Walking'
    <3>1. \A e \in Dest : wpc[e] = "exited" => wpc'[e] = "exited"
      BY <2>0, <2>1, Zenon
    <3> QED BY <2>0, <3>1, <1>WorkerWalks, Zenon
  <2>10. \A d \in Dest : InLine(d)' /\ Leaving(d)'
    BY <2>7, <2>8
  <2> QED BY <2>0, <2>5, <2>9, <2>10, Zenon

<1>SendOk. ASSUME NEW a \in Dest, SendOk(a)
      PROVE  FanInv'
  <2> USE <1>SendOk
  <2> USE DEF FanInv
  <2>0. /\ FanoutTypeOK /\ Walking /\ wpc[a] = "send"
        /\ UNCHANGED <<batches, mpc, at, queue, bytes, done, failed, rejected, work>>
    BY DEF SendOk, FanoutTypeOK, stateVars
  <2>1. /\ wpc' \in [Dest -> {"check", "asleep", "send", "exited"}]
        /\ wpc'[a] = "check"
        /\ \A d \in Dest : d # a => wpc'[d] = wpc[d]
    BY <2>0 DEF SendOk, FanoutTypeOK
  <2>2. sent[a] \in Seq(Nat) /\ work[a] \in Nat /\ Len(sent[a]) \in Nat
        /\ Append(sent[a], work[a]) \in Seq(Nat)
    <3>1. sent[a] \in Seq(Nat) /\ work[a] \in Nat
      BY <2>0, Zenon DEF FanoutTypeOK
    <3> QED BY <3>1
  <2>3. sent' \in [Dest -> Seq(Nat)] /\ sent'[a] = Append(sent[a], work[a])
        /\ \A d \in Dest : d # a => sent'[d] = sent[d]
    BY <2>0, <2>2 DEF SendOk, FanoutTypeOK
  <2>4. /\ Len(sent'[a]) = Len(sent[a]) + 1 /\ DOMAIN sent'[a] = 1 .. Len(sent[a]) + 1
        /\ sent'[a][Len(sent[a]) + 1] = work[a]
        /\ \A i \in 1 .. Len(sent[a]) : sent'[a][i] = sent[a][i]
        /\ DOMAIN sent[a] = 1 .. Len(sent[a])
    BY <2>2, <2>3
  <2>5. FanoutTypeOK'
    BY <2>0, <2>1, <2>3, SMTT(30) DEF FanoutTypeOK
  <2>6. \A d \in Dest : Presented(d)' = Presented(d) /\ Destroying' = Destroying
    BY <2>0 DEF Presented, Destroying
  <2>7. ASSUME NEW d \in Dest, d # a
        PROVE  InLine(d)' /\ Leaving(d)'
    <3>1. /\ FanoutTypeOK /\ InLine(d) /\ Leaving(d)
          /\ sent'[d] = sent[d] /\ queue'[d] = queue[d] /\ work'[d] = work[d]
          /\ failed'[d] = failed[d] /\ rejected'[d] = rejected[d] /\ done'[d] = done[d]
          /\ wpc'[d] = wpc[d] /\ Presented(d)' = Presented(d) /\ Destroying' = Destroying
      BY <2>0, <2>1, <2>3, <2>6, <2>7, Zenon
    <3> QED BY <3>1, LineKept, Zenon
  <2>8. InLine(a)' /\ Leaving(a)'
    <3>1. Sending(a) = 1 /\ Sending(a)' = 0
      BY <2>0, <2>1 DEF Sending
    <3>2. InLine(a) /\ Leaving(a) /\ work[a] = Len(sent[a]) + 1
      BY <2>0 DEF InLine
    <3>3. Len(sent'[a]) + Sending(a)' = Len(sent[a]) + Sending(a)
      BY <2>2, <2>4, <3>1
    <3>4. ASSUME NEW i \in DOMAIN sent'[a]
          PROVE  sent'[a][i] = i
      <4>1. CASE i \in 1 .. Len(sent[a])
        BY <2>4, <3>2, <4>1 DEF InLine
      <4>2. CASE i = Len(sent[a]) + 1
        BY <2>4, <3>2, <4>2
      <4> QED BY <2>2, <2>4, <4>1, <4>2
    <3>5. InLine(a)'
      BY <2>0, <2>1, <2>6, <3>2, <3>3, <3>4, Zenon DEF InLine
    <3>6. Leaving(a)'
      BY <2>0, <2>1, <2>6, <3>2, Zenon DEF Leaving
    <3> QED BY <3>5, <3>6
  <2>9. Walking'
    <3>1. \A e \in Dest : wpc[e] = "exited" => wpc'[e] = "exited"
      BY <2>0, <2>1
    <3> QED BY <2>0, <3>1, <1>WorkerWalks, Zenon
  <2>10. \A d \in Dest : InLine(d)' /\ Leaving(d)'
    BY <2>7, <2>8
  <2> QED BY <2>0, <2>5, <2>9, <2>10

<1>SendFails. ASSUME NEW a \in Dest, SendFails(a)
      PROVE  FanInv'
  <2> USE <1>SendFails
  <2> USE DEF FanInv
  <2>0. /\ FanoutTypeOK /\ Walking /\ wpc[a] = "send"
        /\ UNCHANGED <<batches, mpc, at, done, work, sent>>
    BY Zenon DEF SendFails, FanoutTypeOK
  <2>1. /\ wpc' \in [Dest -> {"check", "asleep", "send", "exited"}]
        /\ wpc'[a] = "exited"
        /\ \A d \in Dest : d # a => wpc'[d] = wpc[d]
    BY <2>0, Zenon DEF SendFails, FanoutTypeOK
  <2>2. /\ failed' \in [Dest -> BOOLEAN] /\ failed'[a] /\ bytes' \in [Dest -> Int]
        /\ \A d \in Dest : d # a => failed'[d] = failed[d]
    <3>1. failed' \in [Dest -> BOOLEAN] /\ failed'[a]
      BY <2>0, Zenon DEF SendFails, FanoutTypeOK
    <3>2. bytes' \in [Dest -> Int]
      <4>1. 0 \in Int
        OBVIOUS
      <4> QED BY <2>0, <4>1, Zenon DEF SendFails, FanoutTypeOK
    <3>3. \A d \in Dest : d # a => failed'[d] = failed[d]
      BY <2>0, Zenon DEF SendFails, FanoutTypeOK
    <3> QED BY <3>1, <3>2, <3>3
  <2>3. /\ queue' \in [Dest -> Seq(Nat)] /\ queue'[a] = <<>>
        /\ \A d \in Dest : d # a => queue'[d] = queue[d]
    BY <2>0 DEF SendFails, FanoutTypeOK
  <2>4. Frames(queue[a]) \in Nat /\ batches[work[a]].frames \in Nat /\ batches[work[a]].frames > 0
    BY <2>0, NumbersOfBatches, FramesType, BatchType, Zenon
  <2>5. /\ rejected' \in [Dest -> Nat] /\ rejected'[a] > 0
        /\ \A d \in Dest : d # a => rejected'[d] = rejected[d]
    <3>1. rejected[a] \in Nat /\ rejected'[a] = rejected[a] + batches[work[a]].frames + Frames(queue[a])
      BY <2>0, Zenon DEF SendFails, FanoutTypeOK
    <3>2. rejected'[a] \in Nat /\ rejected'[a] > 0
      BY <2>4, <3>1, SMTT(30)
    <3> QED BY <2>0, <3>2, Zenon DEF SendFails, FanoutTypeOK
  <2>6. FanoutTypeOK'
    BY <2>0, <2>1, <2>2, <2>3, <2>5, Zenon DEF FanoutTypeOK
  <2>7. \A d \in Dest : Presented(d)' = Presented(d) /\ Destroying' = Destroying
    BY <2>0 DEF Presented, Destroying
  <2>8. ASSUME NEW d \in Dest, d # a
        PROVE  InLine(d)' /\ Leaving(d)'
    <3>1. /\ FanoutTypeOK /\ InLine(d) /\ Leaving(d)
          /\ sent'[d] = sent[d] /\ queue'[d] = queue[d] /\ work'[d] = work[d]
          /\ failed'[d] = failed[d] /\ rejected'[d] = rejected[d] /\ done'[d] = done[d]
          /\ wpc'[d] = wpc[d] /\ Presented(d)' = Presented(d) /\ Destroying' = Destroying
      BY <2>0, <2>1, <2>2, <2>3, <2>5, <2>7, <2>8, Zenon
    <3> QED BY <3>1, LineKept, Zenon
  <2>9. InLine(a)' /\ Leaving(a)'
    <3>1. Sending(a) = 1 /\ Sending(a)' = 0
      BY <2>0, <2>1 DEF Sending
    <3>2. InLine(a) /\ Len(sent[a]) \in Nat /\ Len(queue[a]) \in Nat /\ Presented(a) \in Nat
      BY <2>0, NumbersOfBatches, PresentedType
    <3>3. DOMAIN queue'[a] = {} /\ Len(queue'[a]) = 0
      BY <2>3
    <3>4. Len(sent'[a]) + Sending(a)' + Len(queue'[a]) =< Presented(a)'
      <4>1. Len(sent[a]) + 1 + Len(queue[a]) =< Presented(a)
        BY <3>1, <3>2, Zenon DEF InLine
      <4>2. \A x, y, z \in Nat : x + 1 + y =< z => x + 0 + 0 =< z
        OBVIOUS
      <4>3. Len(sent[a]) + 0 + 0 =< Presented(a)
        BY <3>2, <4>1, <4>2, Zenon
      <4> QED BY <2>0, <2>7, <3>1, <3>3, <4>3
    <3>5. \A i \in DOMAIN sent'[a] : sent'[a][i] = i
      BY <2>0, <3>2, Zenon DEF InLine
    <3>6. InLine(a)'
      BY <2>1, <2>2, <3>3, <3>4, <3>5, Zenon DEF InLine
    <3>7. Leaving(a)'
      BY <2>2, <2>3, <2>5 DEF Leaving
    <3> QED BY <3>6, <3>7
  <2>10. Walking'
    <3>1. \A e \in Dest : /\ wpc[e] = "exited" => wpc'[e] = "exited"
                          /\ failed[e] => failed'[e]
                          /\ e # a => failed'[e] = failed[e]
      BY <2>0, <2>1, <2>2, Zenon
    <3> QED BY <2>0, <3>1, <1>WorkerWalks, Zenon
  <2>11. \A d \in Dest : InLine(d)' /\ Leaving(d)'
    BY <2>8, <2>9
  <2> QED BY <2>0, <2>6, <2>10, <2>11

<1>1. CASE Enqueue
  BY <1>1, <1>EnqueueFailed, <1>EnqueueFull, <1>EnqueueFits DEF Enqueue
<1>2. CASE Completing
  BY <1>2, <1>MarkDone, <1>Join, <1>Destroy, <1>Reap DEF Completing
<1>3. ASSUME NEW d \in Dest, WorkerStep(d) \/ SpuriousWakeup(d) \/ Transfer(d)
      PROVE  FanInv'
  <2>1. CASE Sleep(d)
    BY <2>1, <1>WorkerMoves, Zenon DEF Sleep
  <2>2. CASE Exit(d)
    BY <2>2, <1>WorkerMoves, Zenon DEF Exit
  <2>3. CASE SpuriousWakeup(d)
    BY <2>3, <1>WorkerMoves, Zenon DEF SpuriousWakeup
  <2>4. CASE Take(d)
    BY <2>4, <1>Take
  <2>5. CASE SendOk(d)
    BY <2>5, <1>SendOk
  <2>6. CASE SendFails(d)
    BY <2>6, <1>SendFails
  <2> QED BY <1>3, <2>1, <2>2, <2>3, <2>4, <2>5, <2>6 DEF WorkerStep, Transfer
<1> QED BY <1>1, <1>2, <1>3 DEF FanStep

----------------------------------------------------------------------------
(* What the loop does to the fan-out *)

\* What it hands over has not been presented to any destination yet.
LEMMA LoopPresents ==
  ASSUME FanInv, Fed
  PROVE  (Destroying => Destroying') /\ \A d \in Dest : Presented(d)' = Presented(d)
<1>0. /\ FanoutTypeOK /\ Len(batches) \in Nat /\ at' = at /\ (mpc = "run" => at = 1)
  BY DEF Fed, FanInv, FanoutTypeOK, Walking
<1>1. CASE Goes
  BY <1>0, <1>1 DEF Goes, Destroying, Presented
<1>2. CASE Gives
  <2>1. Len(batches') = Len(batches) + 1 /\ mpc = "run" /\ mpc' = "enqueue"
    BY <1>0, <1>2 DEF Gives, FanoutTypeOK, Batch
  <2>2. \A d \in Dest : d >= at'
    BY <1>0, <2>1, FanoutAssumption DEF Dest
  <2> QED BY <1>0, <2>1, <2>2 DEF Destroying, Presented
<1> QED BY <1>1, <1>2 DEF Fed

\* The invariant does not depend on what it hands over.
LEMMA LoopKeepsFan ==
  ASSUME FanInv, Fed
  PROVE  FanInv'
<1> USE DEF FanInv
<1>0. /\ UNCHANGED <<at, queue, bytes, done, failed, rejected, wpc, work, sent>>
      /\ FanoutTypeOK /\ Walking /\ (mpc = "run" => at = 1)
  BY DEF Fed, stateVars, Walking
<1>1. /\ Destroying => Destroying'
      /\ \A d \in Dest : Presented(d)' = Presented(d)
  BY LoopPresents
<1>2. \A d \in Dest : InLine(d)' /\ Leaving(d)'
  BY <1>0, <1>1, LineKept, Zenon
<1>3. CASE Goes
  <2>1. mpc' \in MainPlaces
    BY <1>0, <1>3 DEF Goes, FanoutTypeOK, MainPlaces
  <2>2. FanoutTypeOK'
    BY <1>0, <1>3, <2>1 DEF FanoutTypeOK, Goes
  <2>3. \A d \in Dest : ~ (d < 1)
    BY FanoutAssumption DEF Dest
  <2>4. Walking'
    <3>1. CASE mpc' = mpc
      BY <1>0, <1>3, <3>1, Zenon DEF Goes, Walking
    <3>2. CASE mpc = "run" /\ mpc' \in {"mark", "destroy"}
      BY <1>0, <2>3, <3>2, Zenon DEF Walking
    <3> QED BY <1>3, <3>1, <3>2 DEF Goes
  <2> QED BY <1>2, <2>2, <2>4
<1>4. CASE Gives
  <2>1. PICK b \in Batch : batches' = Append(batches, b)
    BY <1>4 DEF Gives
  <2>2. batches \in Seq(Batch)
    BY <1>0 DEF FanoutTypeOK, Batch
  <2>3. batches' \in Seq(Batch) /\ batches' # <<>>
    BY <2>1, <2>2
  <2>4. mpc = "run" /\ mpc' = "enqueue" /\ mpc' \in MainPlaces
    BY <1>4, Zenon DEF Gives, MainPlaces
  <2>5. FanoutTypeOK'
    BY <1>0, <2>3, <2>4, Zenon DEF FanoutTypeOK, Batch
  <2>6. Walking'
    BY <1>0, <2>3, <2>4 DEF Walking
  <2> QED BY <1>2, <2>5, <2>6
<1> QED BY <1>3, <1>4 DEF Fed

----------------------------------------------------------------------------
(* The accounts of the fan-out *)

\* Frames and bytes of the batches, by number.
FrameCounts == [k \in 1 .. Len(batches) |-> batches[k].frames]
ByteCounts == [k \in 1 .. Len(batches) |-> batches[k].bytes]

InHand(d) == IF wpc[d] = "send" THEN FrameCounts[work[d]] ELSE 0

\* The account of destination d: frames in, frames out; and the bytes queued.
Account(d) ==
  /\ Total(FrameCounts, Upto(Presented(d))) =
       Total(FrameCounts, sent[d]) + Total(FrameCounts, queue[d]) + rejected[d] + InHand(d)
  /\ bytes[d] = Total(ByteCounts, queue[d]) /\ bytes[d] =< QueueBytes

\* Accounted says that every account is balanced; a batch that is handed over changes
\* no account, and a step of the fan-out keeps all of them balanced.
LEMMA AccountsKept ==
  ASSUME SumFacts, FanInv
  PROVE  /\ Accounted <=> Destroying \/ \A d \in Dest : Account(d)
         /\ (Fed \/ FanStep) /\ (Destroying \/ \A d \in Dest : Account(d))
              => Destroying' \/ \A d \in Dest : Account(d)'
<1>CountsType. ASSUME FanoutTypeOK
      PROVE  /\ Len(batches) \in Nat
             /\ FrameCounts \in [1 .. Len(batches) -> Nat] /\ ByteCounts \in [1 .. Len(batches) -> Nat]
  <2> USE <1>CountsType
  <2>1. Len(batches) \in Nat
    BY DEF FanoutTypeOK
  <2>2. \A k \in 1 .. Len(batches) : batches[k].frames \in Nat /\ batches[k].bytes \in Nat
    BY BatchType
  <2> QED BY <2>1, <2>2 DEF FrameCounts, ByteCounts

\* The totals of a destination.
<1>AccountType. ASSUME NEW d \in Dest
      PROVE  /\ Presented(d) \in Nat /\ Presented(d) =< Len(batches) /\ rejected[d] \in Nat
             /\ Upto(Presented(d)) \in [1 .. Presented(d) -> 1 .. Len(batches)]
             /\ Total(FrameCounts, Upto(Presented(d))) \in Nat
             /\ Total(FrameCounts, sent[d]) \in Nat /\ Total(FrameCounts, queue[d]) \in Nat
             /\ Total(ByteCounts, queue[d]) \in Nat /\ InHand(d) \in Nat
  <2> USE <1>AccountType
  <2>1. FanoutTypeOK /\ Walking
    BY DEF FanInv
  <2>2. /\ Len(batches) \in Nat
        /\ FrameCounts \in [1 .. Len(batches) -> Nat] /\ ByteCounts \in [1 .. Len(batches) -> Nat]
    BY <2>1, <1>CountsType
  <2>3. Presented(d) \in Nat /\ Presented(d) =< Len(batches)
    BY <2>1, PresentedType
  <2>4. Upto(Presented(d)) \in [1 .. Presented(d) -> 1 .. Len(batches)]
    BY <2>2, <2>3 DEF Upto
  <2>5. /\ Len(sent[d]) \in Nat /\ Len(queue[d]) \in Nat
        /\ queue[d] \in [1 .. Len(queue[d]) -> 1 .. Len(batches)]
        /\ sent[d] \in [1 .. Len(sent[d]) -> 1 .. Len(batches)]
        /\ wpc[d] = "send" => work[d] \in 1 .. Len(batches)
    BY NumbersOfBatches
  <2>6. InHand(d) \in Nat
    BY <2>2, <2>5 DEF InHand
  <2>7. rejected[d] \in Nat
    BY <2>1 DEF FanoutTypeOK
  <2> QED BY <2>2, <2>3, <2>4, <2>5, <2>6, <2>7, SumType, Zenon

\* Frames and Bytes are totals.
<1>FramesAreTotals. ASSUME NEW d \in Dest
      PROVE  /\ Frames(sent[d]) = Total(FrameCounts, sent[d])
             /\ Frames(queue[d]) = Total(FrameCounts, queue[d])
             /\ Bytes(queue[d]) = Total(ByteCounts, queue[d])
             /\ Frames([n \in 1 .. Presented(d) |-> n]) = Total(FrameCounts, Upto(Presented(d)))
             /\ InHand(d) = IF wpc[d] = "send" THEN batches[work[d]].frames ELSE 0
  <2> USE <1>FramesAreTotals
  <2>1. \A n \in Nat : \A x \in [1 .. n -> 1 .. Len(batches)] :
          Frames(x) = Total(FrameCounts, x) /\ Bytes(x) = Total(ByteCounts, x)
    <3> TAKE n \in Nat
    <3> TAKE x \in [1 .. n -> 1 .. Len(batches)]
    <3>1. [i \in DOMAIN x |-> batches[x[i]].frames] = [i \in DOMAIN x |-> FrameCounts[x[i]]]
      BY DEF FrameCounts
    <3>2. [i \in DOMAIN x |-> batches[x[i]].bytes] = [i \in DOMAIN x |-> ByteCounts[x[i]]]
      BY DEF ByteCounts
    <3> QED BY <3>1, <3>2, Zenon DEF Frames, Bytes, Total
  <2>2. Presented(d) \in Nat /\ Upto(Presented(d)) \in [1 .. Presented(d) -> 1 .. Len(batches)]
    BY <1>AccountType, Zenon
  <2>3. /\ Len(sent[d]) \in Nat /\ Len(queue[d]) \in Nat
        /\ queue[d] \in [1 .. Len(queue[d]) -> 1 .. Len(batches)]
        /\ sent[d] \in [1 .. Len(sent[d]) -> 1 .. Len(batches)]
        /\ wpc[d] = "send" => work[d] \in 1 .. Len(batches)
    BY NumbersOfBatches
  <2>4. Frames([n \in 1 .. Presented(d) |-> n]) = Total(FrameCounts, Upto(Presented(d)))
    BY <2>1, <2>2 DEF Upto
  <2>5. Frames(sent[d]) = Total(FrameCounts, sent[d])
    BY <2>1, <2>3, Zenon
  <2>6. Frames(queue[d]) = Total(FrameCounts, queue[d]) /\ Bytes(queue[d]) = Total(ByteCounts, queue[d])
    BY <2>1, <2>3, Zenon
  <2>7. InHand(d) = IF wpc[d] = "send" THEN batches[work[d]].frames ELSE 0
    BY <2>3 DEF InHand, FrameCounts
  <2> QED BY <2>4, <2>5, <2>6, <2>7, Zenon

\* Accounted says that every account is balanced.
<1>AccountedIs. Accounted <=> Destroying \/ \A d \in Dest : Account(d)
  <2>1. ASSUME NEW d \in Dest
        PROVE  (/\ Frames([n \in 1 .. Presented(d) |-> n]) =
                     Frames(sent[d]) + Frames(queue[d]) + rejected[d]
                       + (IF wpc[d] = "send" THEN batches[work[d]].frames ELSE 0)
                /\ bytes[d] = Bytes(queue[d]) /\ bytes[d] =< QueueBytes) <=> Account(d)
    BY <1>FramesAreTotals, Zenon DEF Account
  <2> QED BY <2>1, Zenon DEF Accounted

\* A batch that is handed over changes no account.
<1>LoopKeepsAccounts.
      ASSUME Fed, Destroying \/ \A d \in Dest : Account(d)
      PROVE  Destroying' \/ \A d \in Dest : Account(d)'
  <2> USE <1>LoopKeepsAccounts
  <2>0. UNCHANGED <<at, queue, bytes, done, failed, rejected, wpc, work, sent>> /\ FanoutTypeOK
    BY DEF Fed, stateVars, FanInv
  <2>1. (Destroying => Destroying') /\ \A d \in Dest : Presented(d)' = Presented(d)
    BY LoopPresents
  <2>2. /\ Len(batches) \in Nat /\ FrameCounts \in [1 .. Len(batches) -> Nat]
        /\ ByteCounts \in [1 .. Len(batches) -> Nat]
    BY <2>0, <1>CountsType
  <2>3. /\ \A k \in 1 .. Len(batches) : FrameCounts'[k] = FrameCounts[k]
        /\ \A k \in 1 .. Len(batches) : ByteCounts'[k] = ByteCounts[k]
    <3>1. CASE Goes
      BY <3>1 DEF Goes, FrameCounts, ByteCounts
    <3>2. CASE Gives
      <4>1. PICK b \in Batch : batches' = Append(batches, b)
        BY <3>2 DEF Gives
      <4>2. batches \in Seq(Batch)
        BY <2>0 DEF FanoutTypeOK, Batch
      <4>3. Len(batches') = Len(batches) + 1 /\ \A k \in 1 .. Len(batches) : batches'[k] = batches[k]
        BY <4>1, <4>2
      <4>4. \A k \in 1 .. Len(batches) : k \in 1 .. Len(batches')
        BY <2>2, <4>3
      <4> QED BY <4>3, <4>4 DEF FrameCounts, ByteCounts
    <3> QED BY <3>1, <3>2 DEF Fed
  <2>a. \A n \in Nat : \A x \in [1 .. n -> 1 .. Len(batches)] :
          /\ Total(FrameCounts', x) = Total(FrameCounts, x)
          /\ Total(ByteCounts', x) = Total(ByteCounts, x)
    <3> TAKE n \in Nat
    <3> TAKE x \in [1 .. n -> 1 .. Len(batches)]
    <3>1. [i \in DOMAIN x |-> FrameCounts'[x[i]]] = [i \in DOMAIN x |-> FrameCounts[x[i]]]
      BY <2>3, Zenon
    <3>2. [i \in DOMAIN x |-> ByteCounts'[x[i]]] = [i \in DOMAIN x |-> ByteCounts[x[i]]]
      BY <2>3
    <3> QED BY <3>1, <3>2, Zenon DEF Total
  <2>4. ASSUME NEW d \in Dest, Account(d)
        PROVE  Account(d)'
    <3>1. Presented(d) \in Nat /\ Upto(Presented(d)) \in [1 .. Presented(d) -> 1 .. Len(batches)]
      BY <1>AccountType, Zenon
    <3>2. /\ Len(sent[d]) \in Nat /\ Len(queue[d]) \in Nat
          /\ queue[d] \in [1 .. Len(queue[d]) -> 1 .. Len(batches)]
          /\ sent[d] \in [1 .. Len(sent[d]) -> 1 .. Len(batches)]
          /\ wpc[d] = "send" => work[d] \in 1 .. Len(batches)
      BY NumbersOfBatches, Zenon
    <3>3. Total(FrameCounts', Upto(Presented(d))) = Total(FrameCounts, Upto(Presented(d)))
      BY <2>a, <3>1
    <3>4. /\ Total(FrameCounts', sent[d]) = Total(FrameCounts, sent[d])
          /\ Total(FrameCounts', queue[d]) = Total(FrameCounts, queue[d])
          /\ Total(ByteCounts', queue[d]) = Total(ByteCounts, queue[d])
      BY <2>a, <3>2, Zenon
    <3>5. InHand(d)' = InHand(d)
      BY <2>0, <2>3, <3>2 DEF InHand
    <3>6. Upto(Presented(d))' = Upto(Presented(d))
      BY <2>1 DEF Upto
    <3>7. Total(FrameCounts, Upto(Presented(d)))' = Total(FrameCounts, Upto(Presented(d)))
      <4>1. Total(FrameCounts, Upto(Presented(d)))' = Total(FrameCounts', Upto(Presented(d))')
        BY Zenon DEF Total
      <4> QED BY <3>3, <3>6, <4>1
    <3>8. /\ Total(FrameCounts, sent[d])' = Total(FrameCounts, sent[d])
          /\ Total(FrameCounts, queue[d])' = Total(FrameCounts, queue[d])
          /\ Total(ByteCounts, queue[d])' = Total(ByteCounts, queue[d])
      <4>1. /\ Total(FrameCounts, sent[d])' = Total(FrameCounts', sent'[d])
            /\ Total(FrameCounts, queue[d])' = Total(FrameCounts', queue'[d])
            /\ Total(ByteCounts, queue[d])' = Total(ByteCounts', queue'[d])
        BY Zenon DEF Total
      <4> QED BY <2>0, <3>4, <4>1, Zenon
    <3> QED BY <2>0, <2>4, <3>5, <3>7, <3>8, Zenon DEF Account
  <2> QED BY <2>1, <2>4

\* A step that leaves a destination alone leaves its account balanced.
<1>AccountKept.
      ASSUME NEW d \in Dest, Account(d), batches' = batches, Presented(d)' = Presented(d),
             sent'[d] = sent[d], queue'[d] = queue[d], rejected'[d] = rejected[d], bytes'[d] = bytes[d],
             wpc'[d] = "send" <=> wpc[d] = "send", work'[d] = work[d]
      PROVE  Account(d)'
  <2> USE <1>AccountKept
  <2>1. FrameCounts' = FrameCounts /\ ByteCounts' = ByteCounts
    BY Zenon DEF FrameCounts, ByteCounts
  <2>2. InHand(d)' = InHand(d)
    BY <2>1, Zenon DEF InHand
  <2>3. Total(FrameCounts, Upto(Presented(d)))' = Total(FrameCounts, Upto(Presented(d)))
    BY <2>1 DEF Total, Upto
  <2>4. /\ Total(FrameCounts, sent[d])' = Total(FrameCounts, sent[d])
        /\ Total(FrameCounts, queue[d])' = Total(FrameCounts, queue[d])
        /\ Total(ByteCounts, queue[d])' = Total(ByteCounts, queue[d])
    BY <2>1, Zenon DEF Total
  <2> QED BY <2>2, <2>3, <2>4, Zenon DEF Account

\* A turn of enqueue presents the frames of the last batch.
<1>TurnAdds.
      ASSUME mpc = "enqueue", NextTarget("run"), batches' = batches,
             NEW d \in Dest, d = at
      PROVE  /\ Len(batches) \in Nat /\ Len(batches) \in 1 .. Len(batches)
             /\ NewBatch.frames = FrameCounts[Len(batches)]
             /\ NewBatch.bytes = ByteCounts[Len(batches)]
             /\ NewBatch.frames \in Nat /\ NewBatch.bytes \in Nat
             /\ Total(FrameCounts, Upto(Presented(d)))' =
                  Total(FrameCounts, Upto(Presented(d))) + NewBatch.frames
  <2> USE <1>TurnAdds
  <2>1. FanoutTypeOK /\ Walking
    BY DEF FanInv
  <2>2. /\ Len(batches) \in Nat /\ Len(batches) \in 1 .. Len(batches)
        /\ NewBatch = batches[Len(batches)]
        /\ NewBatch.frames \in Nat /\ NewBatch.bytes \in Nat
    BY <2>1, LastType
  <2>3. NewBatch.frames = FrameCounts[Len(batches)] /\ NewBatch.bytes = ByteCounts[Len(batches)]
    BY <2>2 DEF FrameCounts, ByteCounts
  <2>4. Presented(d) = Len(batches) - 1 /\ Presented(d)' = Len(batches)
    BY <2>1, PresentedNext
  <2>5. FrameCounts \in [1 .. Len(batches) -> Nat] /\ FrameCounts' = FrameCounts
    BY <2>1, <1>CountsType DEF FrameCounts
  <2>6. Presented(d) \in Nat /\ Len(batches) = Presented(d) + 1
    BY <2>2, <2>4
  <2>7. Total(FrameCounts, Upto(Len(batches))) =
          Total(FrameCounts, Upto(Presented(d))) + FrameCounts[Len(batches)]
    BY <2>2, <2>5, <2>6, SumUpto
  <2>8. Total(FrameCounts, Upto(Presented(d)))' = Total(FrameCounts, Upto(Len(batches)))
    BY <2>4, <2>5 DEF Total, Upto
  <2> QED BY <2>2, <2>3, <2>7, <2>8, Zenon

<1>EnqueueFailed. ASSUME EnqueueFailed, NEW d \in Dest, Account(d)
      PROVE  Account(d)'
  <2> USE <1>EnqueueFailed
  <2>0. /\ FanoutTypeOK /\ mpc = "enqueue" /\ at \in Dest /\ NextTarget("run")
        /\ UNCHANGED <<batches, queue, bytes, wpc, work, sent>>
        /\ rejected' = [rejected EXCEPT ![at] = @ + NewBatch.frames]
    BY DEF FanInv, FanoutTypeOK, EnqueueFailed
  <2>1. CASE d # at
    <3>1. rejected'[d] = rejected[d] /\ Presented(d)' = Presented(d)
      BY <2>0, <2>1, PresentedNext DEF FanoutTypeOK
    <3> QED BY <2>0, <3>1, <1>AccountKept, Zenon
  <2>2. CASE d = at
    <3>1. /\ NewBatch.frames \in Nat
          /\ Total(FrameCounts, Upto(Presented(d)))' =
               Total(FrameCounts, Upto(Presented(d))) + NewBatch.frames
      BY <2>0, <2>2, <1>TurnAdds
    <3>2. rejected'[d] = rejected[d] + NewBatch.frames
      BY <2>0, <2>2 DEF FanoutTypeOK
    <3>3. FrameCounts' = FrameCounts /\ ByteCounts' = ByteCounts
      BY <2>0 DEF FrameCounts, ByteCounts
    <3>4. /\ Total(FrameCounts, sent[d])' = Total(FrameCounts, sent[d])
          /\ Total(FrameCounts, queue[d])' = Total(FrameCounts, queue[d])
          /\ Total(ByteCounts, queue[d])' = Total(ByteCounts, queue[d])
          /\ InHand(d)' = InHand(d)
      BY <2>0, <3>3, Zenon DEF Total, InHand
    <3>5. /\ rejected[d] \in Nat /\ Total(FrameCounts, Upto(Presented(d))) \in Nat
          /\ Total(FrameCounts, sent[d]) \in Nat /\ Total(FrameCounts, queue[d]) \in Nat
          /\ InHand(d) \in Nat
      BY <1>AccountType
    <3>6. Total(FrameCounts, Upto(Presented(d)))' =
            Total(FrameCounts, sent[d])' + Total(FrameCounts, queue[d])' + rejected'[d] + InHand(d)'
      <4>2. Total(FrameCounts, Upto(Presented(d))) =
              Total(FrameCounts, sent[d]) + Total(FrameCounts, queue[d]) + rejected[d] + InHand(d)
        BY Zenon DEF Account
      <4>3. (Total(FrameCounts, sent[d]) + Total(FrameCounts, queue[d]) + rejected[d] + InHand(d)) + NewBatch.frames =
            Total(FrameCounts, sent[d]) + Total(FrameCounts, queue[d]) +
              (rejected[d] + NewBatch.frames) + InHand(d)
        BY <3>1, <3>5
      <4> QED BY <3>1, <3>2, <3>4, <4>2, <4>3, Zenon
    <3>7. bytes'[d] = Total(ByteCounts, queue[d])' /\ bytes'[d] =< QueueBytes
      BY <2>0, <3>4, Zenon DEF Account
    <3> QED BY <3>6, <3>7, Zenon DEF Account
  <2> QED BY <2>1, <2>2

<1>EnqueueFull. ASSUME EnqueueFull, NEW d \in Dest, Account(d)
      PROVE  Account(d)'
  <2> USE <1>EnqueueFull
  <2>0. /\ FanoutTypeOK /\ mpc = "enqueue" /\ at \in Dest /\ NextTarget("run")
        /\ UNCHANGED <<batches, work, sent>> /\ wpc' = Notified(at)
        /\ rejected' = [rejected EXCEPT ![at] = @ + NewBatch.frames + Frames(queue[at])]
        /\ queue' = [queue EXCEPT ![at] = <<>>] /\ bytes' = [bytes EXCEPT ![at] = 0]
    BY DEF FanInv, FanoutTypeOK, EnqueueFull
  <2>a. wpc'[d] = "send" <=> wpc[d] = "send"
    BY <2>0, NotifiedIs
  <2>1. CASE d # at
    <3>1. /\ rejected'[d] = rejected[d] /\ Presented(d)' = Presented(d)
          /\ queue'[d] = queue[d] /\ bytes'[d] = bytes[d]
      BY <2>0, <2>1, PresentedNext, SMTT(30) DEF FanoutTypeOK
    <3> QED BY <2>0, <2>a, <3>1, <1>AccountKept, Zenon
  <2>2. CASE d = at
    <3>1. /\ NewBatch.frames \in Nat
          /\ Total(FrameCounts, Upto(Presented(d)))' =
               Total(FrameCounts, Upto(Presented(d))) + NewBatch.frames
      BY <2>0, <2>2, <1>TurnAdds
    <3>2. /\ rejected'[d] = rejected[d] + NewBatch.frames + Total(FrameCounts, queue[d])
          /\ queue'[d] = <<>> /\ bytes'[d] = 0
      <4>1. Frames(queue[d]) = Total(FrameCounts, queue[d])
        BY <1>FramesAreTotals, Zenon
      <4> QED BY <2>0, <2>2, <4>1 DEF FanoutTypeOK
    <3>3. FrameCounts' = FrameCounts /\ ByteCounts' = ByteCounts
      BY <2>0 DEF FrameCounts, ByteCounts
    <3>4. /\ Total(FrameCounts, sent[d])' = Total(FrameCounts, sent[d]) /\ InHand(d)' = InHand(d)
      BY <2>0, <2>a, <3>3, Zenon DEF Total, InHand
    <3>a. Total(FrameCounts, queue[d])' = 0 /\ Total(ByteCounts, queue[d])' = 0
      <4>1. /\ Total(FrameCounts, queue[d])' = Total(FrameCounts', queue'[d])
            /\ Total(ByteCounts, queue[d])' = Total(ByteCounts', queue'[d])
        BY DEF Total
      <4> QED BY <3>2, <4>1, SumNone
    <3>5. /\ rejected[d] \in Nat /\ Total(FrameCounts, Upto(Presented(d))) \in Nat
          /\ Total(FrameCounts, sent[d]) \in Nat /\ Total(FrameCounts, queue[d]) \in Nat
          /\ InHand(d) \in Nat
      BY <1>AccountType
    <3>6. Total(FrameCounts, Upto(Presented(d)))' =
            Total(FrameCounts, sent[d])' + Total(FrameCounts, queue[d])' + rejected'[d] + InHand(d)'
      <4>2. Total(FrameCounts, Upto(Presented(d))) =
              Total(FrameCounts, sent[d]) + Total(FrameCounts, queue[d]) + rejected[d] + InHand(d)
        BY Zenon DEF Account
      <4>3. (Total(FrameCounts, sent[d]) + Total(FrameCounts, queue[d]) + rejected[d] + InHand(d)) + NewBatch.frames =
            Total(FrameCounts, sent[d]) + 0 +
              (rejected[d] + NewBatch.frames + Total(FrameCounts, queue[d])) + InHand(d)
        BY <3>1, <3>5
      <4> QED BY <3>1, <3>2, <3>4, <3>a, <4>2, <4>3, Zenon
    <3>7. bytes'[d] = Total(ByteCounts, queue[d])' /\ bytes'[d] =< QueueBytes
      BY <3>2, <3>a, FanoutAssumption
    <3> QED BY <3>6, <3>7, Zenon DEF Account
  <2> QED BY <2>1, <2>2

<1>EnqueueFits. ASSUME EnqueueFits, NEW d \in Dest, Account(d)
      PROVE  Account(d)'
  <2> USE <1>EnqueueFits
  <2>0. /\ FanoutTypeOK /\ mpc = "enqueue" /\ at \in Dest /\ NextTarget("run") /\ Fits
        /\ UNCHANGED <<batches, work, sent, rejected>> /\ wpc' = Notified(at)
        /\ queue' = [queue EXCEPT ![at] = Append(@, Len(batches))]
        /\ bytes' = [bytes EXCEPT ![at] = @ + NewBatch.bytes]
    BY Zenon DEF FanInv, FanoutTypeOK, EnqueueFits
  <2>a. wpc'[d] = "send" <=> wpc[d] = "send"
    BY <2>0, NotifiedIs
  <2>1. CASE d # at
    <3>1. /\ Presented(d)' = Presented(d) /\ queue'[d] = queue[d] /\ bytes'[d] = bytes[d]
      BY <2>0, <2>1, PresentedNext DEF FanoutTypeOK
    <3> QED BY <2>0, <2>a, <3>1, <1>AccountKept, Zenon
  <2>2. CASE d = at
    <3>1. /\ Len(batches) \in Nat /\ Len(batches) \in 1 .. Len(batches)
          /\ NewBatch.frames = FrameCounts[Len(batches)]
          /\ NewBatch.bytes = ByteCounts[Len(batches)]
          /\ NewBatch.frames \in Nat /\ NewBatch.bytes \in Nat
          /\ Total(FrameCounts, Upto(Presented(d)))' =
               Total(FrameCounts, Upto(Presented(d))) + NewBatch.frames
      BY <2>0, <2>2, <1>TurnAdds
    <3>2. /\ queue'[d] = Append(queue[d], Len(batches)) /\ bytes'[d] = bytes[d] + NewBatch.bytes
          /\ bytes[d] + NewBatch.bytes =< QueueBytes
      BY <2>0, <2>2 DEF FanoutTypeOK, Fits
    <3>3. FrameCounts' = FrameCounts /\ ByteCounts' = ByteCounts
      BY <2>0 DEF FrameCounts, ByteCounts
    <3>4. /\ Total(FrameCounts, sent[d])' = Total(FrameCounts, sent[d]) /\ InHand(d)' = InHand(d)
      BY <2>0, <2>a, <3>3, Zenon DEF Total, InHand
    <3>a. /\ Total(FrameCounts, queue[d])' = Total(FrameCounts, queue[d]) + NewBatch.frames
          /\ Total(ByteCounts, queue[d])' = Total(ByteCounts, queue[d]) + NewBatch.bytes
      <4>1. /\ Total(FrameCounts, queue[d])' = Total(FrameCounts, queue'[d])
            /\ Total(ByteCounts, queue[d])' = Total(ByteCounts, queue'[d])
        BY <3>3 DEF Total
      <4>2. Len(queue[d]) \in Nat /\ queue[d] \in [1 .. Len(queue[d]) -> 1 .. Len(batches)]
        BY NumbersOfBatches
      <4>3. FrameCounts \in [1 .. Len(batches) -> Nat] /\ ByteCounts \in [1 .. Len(batches) -> Nat]
        BY <2>0, <1>CountsType
      <4>a. \A n \in Nat : \A x \in [1 .. n -> 1 .. Len(batches)] :
              Total(FrameCounts, Append(x, Len(batches))) = Total(FrameCounts, x) + FrameCounts[Len(batches)]
        BY <3>1, <4>3, SumAppend, Zenon
      <4>b. \A n \in Nat : \A x \in [1 .. n -> 1 .. Len(batches)] :
              Total(ByteCounts, Append(x, Len(batches))) = Total(ByteCounts, x) + ByteCounts[Len(batches)]
        BY <3>1, <4>3, SumAppend, Zenon
      <4>4. Total(FrameCounts, queue'[d]) = Total(FrameCounts, queue[d]) + FrameCounts[Len(batches)]
        BY <3>2, <4>2, <4>a, Zenon
      <4>5. Total(ByteCounts, queue'[d]) = Total(ByteCounts, queue[d]) + ByteCounts[Len(batches)]
        BY <3>2, <4>2, <4>b, Zenon
      <4> QED BY <3>1, <4>1, <4>4, <4>5, Zenon
    <3>5. /\ rejected[d] \in Nat /\ Total(FrameCounts, Upto(Presented(d))) \in Nat
          /\ Total(FrameCounts, sent[d]) \in Nat /\ Total(FrameCounts, queue[d]) \in Nat
          /\ InHand(d) \in Nat
      BY <1>AccountType
    <3>6. Total(FrameCounts, Upto(Presented(d)))' =
            Total(FrameCounts, sent[d])' + Total(FrameCounts, queue[d])' + rejected'[d] + InHand(d)'
      <4>2. Total(FrameCounts, Upto(Presented(d))) =
              Total(FrameCounts, sent[d]) + Total(FrameCounts, queue[d]) + rejected[d] + InHand(d)
        BY Zenon DEF Account
      <4>3. rejected'[d] = rejected[d]
        BY <2>0
      <4>4. /\ NewBatch.frames \in Nat
            /\ Total(FrameCounts, Upto(Presented(d)))' =
                 Total(FrameCounts, Upto(Presented(d))) + NewBatch.frames
            /\ Total(FrameCounts, queue[d])' = Total(FrameCounts, queue[d]) + NewBatch.frames
        BY <3>1, <3>a, Zenon
      <4>5. (Total(FrameCounts, sent[d]) + Total(FrameCounts, queue[d]) + rejected[d] + InHand(d)) + NewBatch.frames =
            Total(FrameCounts, sent[d]) + (Total(FrameCounts, queue[d]) + NewBatch.frames) +
              rejected[d] + InHand(d)
        BY <3>5, <4>4
      <4> QED BY <3>4, <4>2, <4>3, <4>4, <4>5, Zenon
    <3>7. bytes'[d] = Total(ByteCounts, queue[d])' /\ bytes'[d] =< QueueBytes
      BY <3>2, <3>a, Zenon DEF Account
    <3> QED BY <3>6, <3>7, Zenon DEF Account
  <2> QED BY <2>1, <2>2

<1>Take. ASSUME NEW a \in Dest, Take(a), NEW d \in Dest, Account(d)
      PROVE  Account(d)'
  <2> USE <1>Take
  <2>0. /\ FanoutTypeOK /\ wpc[a] = "check" /\ queue[a] # <<>>
        /\ UNCHANGED <<batches, mpc, at, rejected, sent>>
        /\ work' = [work EXCEPT ![a] = Head(queue[a])] /\ queue' = [queue EXCEPT ![a] = Tail(@)]
        /\ bytes' = [bytes EXCEPT ![a] = @ - batches[Head(queue[a])].bytes]
        /\ wpc' = [wpc EXCEPT ![a] = "send"]
    BY Zenon DEF FanInv, Take, Ready, Over
  <2>1. CASE d # a
    <3>1. /\ work'[d] = work[d] /\ queue'[d] = queue[d] /\ bytes'[d] = bytes[d] /\ wpc'[d] = wpc[d]
          /\ Presented(d)' = Presented(d)
      BY <2>0, <2>1, Zenon DEF FanoutTypeOK, Presented
    <3> QED BY <2>0, <3>1, <1>AccountKept, Zenon
  <2>2. CASE d = a
    <3>1. /\ work'[d] = Head(queue[d]) /\ queue'[d] = Tail(queue[d]) /\ wpc'[d] = "send"
          /\ bytes'[d] = bytes[d] - batches[Head(queue[d])].bytes /\ bytes[d] \in Int
      BY <2>0, <2>2, Zenon DEF FanoutTypeOK
    <3>3. /\ FrameCounts' = FrameCounts /\ ByteCounts' = ByteCounts /\ Presented(d)' = Presented(d)
          /\ Total(FrameCounts, Upto(Presented(d)))' = Total(FrameCounts, Upto(Presented(d)))
      BY <2>0 DEF FrameCounts, ByteCounts, Presented, Total, Upto
    <3>2. Head(queue[d]) \in 1 .. Len(batches) /\ queue[d] \in Seq(1 .. Len(batches))
      <4>1. Len(queue[d]) \in Nat /\ queue[d] \in [1 .. Len(queue[d]) -> 1 .. Len(batches)]
        BY NumbersOfBatches
      <4>2. queue[d] \in Seq(1 .. Len(batches))
        BY <4>1
      <4> QED BY <2>0, <2>2, <4>2
    <3>4. Len(batches) \in Nat /\ FrameCounts \in [1 .. Len(batches) -> Nat] /\ ByteCounts \in [1 .. Len(batches) -> Nat]
      BY <2>0, <1>CountsType
    <3>a. Total(FrameCounts, queue[d]) = FrameCounts[Head(queue[d])] + Total(FrameCounts, Tail(queue[d]))
      BY <2>0, <2>2, <3>2, <3>4, SumTail, Zenon
    <3>b. Total(ByteCounts, queue[d]) = ByteCounts[Head(queue[d])] + Total(ByteCounts, Tail(queue[d]))
      BY <2>0, <2>2, <3>2, <3>4, SumTail, Zenon
    <3>c. Total(FrameCounts, Tail(queue[d])) \in Nat /\ Total(ByteCounts, Tail(queue[d])) \in Nat
      <4>1. Tail(queue[d]) \in Seq(1 .. Len(batches))
        BY <2>0, <2>2, <3>2, HeadAndTail, Zenon
      <4>2. /\ Len(Tail(queue[d])) \in Nat
            /\ Tail(queue[d]) \in [1 .. Len(Tail(queue[d])) -> 1 .. Len(batches)]
        BY <4>1, ElementsOf, Zenon
      <4> QED BY <3>4, <4>2, SumType, Zenon
    <3>d. /\ Total(FrameCounts, sent[d])' = Total(FrameCounts, sent[d])
          /\ Total(FrameCounts, queue[d])' = Total(FrameCounts, Tail(queue[d]))
          /\ Total(ByteCounts, queue[d])' = Total(ByteCounts, Tail(queue[d]))
      <4>1. /\ Total(FrameCounts, sent[d])' = Total(FrameCounts', sent'[d])
            /\ Total(FrameCounts, queue[d])' = Total(FrameCounts', queue'[d])
            /\ Total(ByteCounts, queue[d])' = Total(ByteCounts', queue'[d])
        BY Zenon DEF Total
      <4>2. sent'[d] = sent[d]
        BY <2>0, Zenon
      <4> QED BY <3>1, <3>3, <4>1, <4>2, Zenon
    <3>e. InHand(d) = 0 /\ InHand(d)' = FrameCounts[Head(queue[d])] /\ FrameCounts[Head(queue[d])] \in Nat
      BY <2>0, <2>2, <3>1, <3>2, <3>3, <3>4, Zenon DEF InHand
    <3>5. /\ rejected[d] \in Nat /\ Total(FrameCounts, Upto(Presented(d))) \in Nat
          /\ Total(FrameCounts, sent[d]) \in Nat /\ Total(FrameCounts, queue[d]) \in Nat
          /\ InHand(d) \in Nat
      BY <1>AccountType, Zenon
    <3>6. Total(FrameCounts, Upto(Presented(d)))' =
            Total(FrameCounts, sent[d])' + Total(FrameCounts, queue[d])' + rejected'[d] + InHand(d)'
      <4>2. Total(FrameCounts, Upto(Presented(d))) =
              Total(FrameCounts, sent[d]) + Total(FrameCounts, queue[d]) + rejected[d] + InHand(d)
        BY Zenon DEF Account
      <4>3. rejected'[d] = rejected[d]
        BY <2>0
      <4>4. Total(FrameCounts, sent[d]) +
              (FrameCounts[Head(queue[d])] + Total(FrameCounts, Tail(queue[d]))) + rejected[d] + 0 =
            Total(FrameCounts, sent[d]) + Total(FrameCounts, Tail(queue[d])) + rejected[d] +
              FrameCounts[Head(queue[d])]
        BY <3>5, <3>c, <3>e
      <4> QED BY <3>3, <3>a, <3>d, <3>e, <4>2, <4>3, <4>4, Zenon
    <3>7. bytes'[d] = Total(ByteCounts, queue[d])' /\ bytes'[d] =< QueueBytes
      <4>1. batches[Head(queue[d])].bytes = ByteCounts[Head(queue[d])]
        BY <3>2 DEF ByteCounts
      <4>2. ByteCounts[Head(queue[d])] \in Nat
        BY <3>2, <3>4
      <4>3. bytes[d] = Total(ByteCounts, queue[d]) /\ bytes[d] =< QueueBytes /\ QueueBytes \in Nat
        BY FanoutAssumption DEF Account
      <4>4. PICK h, t, q \in Nat :
              h = ByteCounts[Head(queue[d])] /\ t = Total(ByteCounts, Tail(queue[d])) /\ q = QueueBytes
        BY <3>c, <4>2, <4>3, Zenon
      <4>5. (h + t) - h = t /\ (h + t =< q => t =< q)
        OBVIOUS
      <4>6. bytes'[d] = (h + t) - h /\ h + t =< q
        BY <3>1, <3>b, <4>1, <4>3, <4>4, Zenon
      <4> QED BY <3>d, <4>4, <4>5, <4>6, Zenon
    <3> QED BY <3>6, <3>7, Zenon DEF Account
  <2> QED BY <2>1, <2>2

<1>SendOk. ASSUME NEW a \in Dest, SendOk(a), NEW d \in Dest, Account(d)
      PROVE  Account(d)'
  <2> USE <1>SendOk
  <2>0. /\ FanoutTypeOK /\ wpc[a] = "send" /\ UNCHANGED <<batches, mpc, at, queue, bytes, rejected, work>>
        /\ sent' = [sent EXCEPT ![a] = Append(@, work[a])] /\ wpc' = [wpc EXCEPT ![a] = "check"]
    BY DEF FanInv, SendOk, stateVars
  <2>1. CASE d # a
    <3>1. sent'[d] = sent[d] /\ wpc'[d] = wpc[d] /\ Presented(d)' = Presented(d)
      BY <2>0, <2>1 DEF FanoutTypeOK, Presented
    <3> QED BY <2>0, <3>1, <1>AccountKept
  <2>2. CASE d = a
    <3>1. sent'[d] = Append(sent[d], work[d]) /\ wpc'[d] = "check" /\ wpc[d] = "send"
      BY <2>0, <2>2 DEF FanoutTypeOK
    <3>3. /\ FrameCounts' = FrameCounts /\ ByteCounts' = ByteCounts /\ Presented(d)' = Presented(d)
          /\ Total(FrameCounts, Upto(Presented(d)))' = Total(FrameCounts, Upto(Presented(d)))
      BY <2>0 DEF FrameCounts, ByteCounts, Presented, Total, Upto
    <3>2. /\ work[d] \in 1 .. Len(batches) /\ Len(sent[d]) \in Nat
          /\ sent[d] \in [1 .. Len(sent[d]) -> 1 .. Len(batches)]
      BY <3>1, NumbersOfBatches, Zenon
    <3>4. Len(batches) \in Nat /\ FrameCounts \in [1 .. Len(batches) -> Nat]
      BY <2>0, <1>CountsType
    <3>a. Total(FrameCounts, Append(sent[d], work[d])) = Total(FrameCounts, sent[d]) + FrameCounts[work[d]]
      <4>1. \A n \in Nat : \A x \in [1 .. n -> 1 .. Len(batches)] : \A k \in 1 .. Len(batches) :
              Total(FrameCounts, Append(x, k)) = Total(FrameCounts, x) + FrameCounts[k]
        BY <3>4, SumAppend, Zenon
      <4> QED BY <3>2, <4>1, Zenon
    <3>d. /\ Total(FrameCounts, sent[d])' = Total(FrameCounts, Append(sent[d], work[d]))
          /\ Total(FrameCounts, queue[d])' = Total(FrameCounts, queue[d])
          /\ Total(ByteCounts, queue[d])' = Total(ByteCounts, queue[d])
      <4>1. /\ Total(FrameCounts, sent[d])' = Total(FrameCounts', sent'[d])
            /\ Total(FrameCounts, queue[d])' = Total(FrameCounts', queue'[d])
            /\ Total(ByteCounts, queue[d])' = Total(ByteCounts', queue'[d])
        BY Zenon DEF Total
      <4> QED BY <2>0, <3>1, <3>3, <4>1, Zenon
    <3>e. InHand(d) = FrameCounts[work[d]] /\ InHand(d)' = 0
      BY <3>1 DEF InHand
    <3>5. /\ rejected[d] \in Nat /\ Total(FrameCounts, Upto(Presented(d))) \in Nat
          /\ Total(FrameCounts, sent[d]) \in Nat /\ Total(FrameCounts, queue[d]) \in Nat
          /\ InHand(d) \in Nat
      BY <1>AccountType
    <3>6. Total(FrameCounts, Upto(Presented(d)))' =
            Total(FrameCounts, sent[d])' + Total(FrameCounts, queue[d])' + rejected'[d] + InHand(d)'
      <4>2. Total(FrameCounts, Upto(Presented(d))) =
              Total(FrameCounts, sent[d]) + Total(FrameCounts, queue[d]) + rejected[d] + InHand(d)
        BY Zenon DEF Account
      <4>3. rejected'[d] = rejected[d]
        BY <2>0
      <4>4. Total(FrameCounts, sent[d]) + Total(FrameCounts, queue[d]) + rejected[d] + InHand(d) =
            (Total(FrameCounts, sent[d]) + InHand(d)) + Total(FrameCounts, queue[d]) + rejected[d] + 0
        BY <3>5
      <4> QED BY <3>3, <3>a, <3>d, <3>e, <4>2, <4>3, <4>4, Zenon
    <3>7. bytes'[d] = Total(ByteCounts, queue[d])' /\ bytes'[d] =< QueueBytes
      BY <2>0, <3>d, Zenon DEF Account
    <3> QED BY <3>6, <3>7, Zenon DEF Account
  <2> QED BY <2>1, <2>2

<1>SendFails. ASSUME NEW a \in Dest, SendFails(a), NEW d \in Dest, Account(d)
      PROVE  Account(d)'
  <2> USE <1>SendFails
  <2>0. /\ FanoutTypeOK /\ wpc[a] = "send" /\ UNCHANGED <<batches, mpc, at, work, sent>>
        /\ rejected' = [rejected EXCEPT ![a] = @ + batches[work[a]].frames + Frames(queue[a])]
        /\ queue' = [queue EXCEPT ![a] = <<>>] /\ bytes' = [bytes EXCEPT ![a] = 0]
        /\ wpc' = [wpc EXCEPT ![a] = "exited"]
    BY Zenon DEF FanInv, SendFails
  <2>1. CASE d # a
    <3>1. /\ rejected'[d] = rejected[d] /\ queue'[d] = queue[d] /\ bytes'[d] = bytes[d]
          /\ wpc'[d] = wpc[d] /\ Presented(d)' = Presented(d)
      BY <2>0, <2>1 DEF FanoutTypeOK, Presented
    <3> QED BY <2>0, <3>1, <1>AccountKept, Zenon
  <2>2. CASE d = a
    <3>1. /\ queue'[d] = <<>> /\ bytes'[d] = 0 /\ wpc'[d] = "exited" /\ wpc[d] = "send"
          /\ rejected'[d] = rejected[d] + InHand(d) + Total(FrameCounts, queue[d])
      <4>1. Frames(queue[d]) = Total(FrameCounts, queue[d]) /\ InHand(d) = batches[work[d]].frames
        BY <2>0, <2>2, <1>FramesAreTotals, Zenon
      <4> QED BY <2>0, <2>2, <4>1 DEF FanoutTypeOK
    <3>3. /\ FrameCounts' = FrameCounts /\ ByteCounts' = ByteCounts /\ Presented(d)' = Presented(d)
          /\ Total(FrameCounts, Upto(Presented(d)))' = Total(FrameCounts, Upto(Presented(d)))
      BY <2>0 DEF FrameCounts, ByteCounts, Presented, Total, Upto
    <3>d. /\ Total(FrameCounts, sent[d])' = Total(FrameCounts, sent[d]) /\ InHand(d)' = 0
      BY <2>0, <3>1, <3>3, Zenon DEF Total, InHand
    <3>a. Total(FrameCounts, queue[d])' = 0 /\ Total(ByteCounts, queue[d])' = 0
      <4>1. /\ Total(FrameCounts, queue[d])' = Total(FrameCounts', queue'[d])
            /\ Total(ByteCounts, queue[d])' = Total(ByteCounts', queue'[d])
        BY Zenon DEF Total
      <4> QED BY <3>1, <4>1, SumNone, Zenon
    <3>5. /\ rejected[d] \in Nat /\ Total(FrameCounts, Upto(Presented(d))) \in Nat
          /\ Total(FrameCounts, sent[d]) \in Nat /\ Total(FrameCounts, queue[d]) \in Nat
          /\ InHand(d) \in Nat
      BY <1>AccountType
    <3>6. Total(FrameCounts, Upto(Presented(d)))' =
            Total(FrameCounts, sent[d])' + Total(FrameCounts, queue[d])' + rejected'[d] + InHand(d)'
      <4>2. Total(FrameCounts, Upto(Presented(d))) =
              Total(FrameCounts, sent[d]) + Total(FrameCounts, queue[d]) + rejected[d] + InHand(d)
        BY Zenon DEF Account
      <4>3. Total(FrameCounts, sent[d]) + Total(FrameCounts, queue[d]) + rejected[d] + InHand(d) =
              Total(FrameCounts, sent[d]) + 0 + (rejected[d] + InHand(d) + Total(FrameCounts, queue[d])) + 0
        BY <3>5
      <4> QED BY <3>1, <3>3, <3>a, <3>d, <4>2, <4>3, Zenon
    <3>7. bytes'[d] = Total(ByteCounts, queue[d])' /\ bytes'[d] =< QueueBytes
      BY <3>1, <3>a, FanoutAssumption
    <3> QED BY <3>6, <3>7, Zenon DEF Account
  <2> QED BY <2>1, <2>2

\* The other steps of the fan-out move no frame, or belong to ~Fanout.
<1>Quiet.
      ASSUME NEW a \in Dest,
             MarkDone \/ Join \/ Sleep(a) \/ SpuriousWakeup(a) \/ Exit(a), NEW d \in Dest, Account(d)
      PROVE  Account(d)'
  <2> USE <1>Quiet
  <2>0. FanoutTypeOK /\ at \in Dest
    BY Zenon DEF FanInv, FanoutTypeOK
  <2>1. UNCHANGED <<batches, sent, queue, rejected, bytes, work>>
    BY Zenon DEF MarkDone, Join, Sleep, SpuriousWakeup, Exit, stateVars
  <2>2. Presented(d)' = Presented(d)
    BY <2>1 DEF MarkDone, Join, Sleep, SpuriousWakeup, Exit, NextTarget, Presented
  <2>3. wpc'[d] = "send" <=> wpc[d] = "send"
    <3>1. CASE MarkDone
      BY <2>0, <3>1, NotifiedIs DEF MarkDone
    <3>2. CASE Join
      BY <3>2, Zenon DEF Join
    <3>3. CASE Sleep(a) \/ SpuriousWakeup(a) \/ Exit(a)
      BY <2>0, <3>3, SMTT(30) DEF Sleep, SpuriousWakeup, Exit, FanoutTypeOK
    <3> QED BY <3>1, <3>2, <3>3
  <2> QED BY <2>1, <2>2, <2>3, <1>AccountKept, Zenon

<1>FanStep. ASSUME FanStep, Destroying \/ \A d \in Dest : Account(d)
      PROVE  Destroying' \/ \A d \in Dest : Account(d)'
  <2> USE <1>FanStep
  <2>0. FanoutTypeOK /\ at \in Dest
    BY DEF FanInv, FanoutTypeOK
  <2>1. CASE Destroying
    <3>1. CASE Enqueue
      BY <2>1, <3>1 DEF Enqueue, EnqueueFailed, EnqueueFull, EnqueueFits, Destroying
    <3>2. CASE Completing
      BY <2>1, <3>2 DEF Completing, MarkDone, Join, Destroy, Reap, Destroying
    <3>3. ASSUME NEW a \in Dest, WorkerStep(a) \/ SpuriousWakeup(a) \/ Transfer(a)
          PROVE  mpc' = mpc
      BY <3>3, Zenon DEF WorkerStep, SpuriousWakeup, Transfer, Sleep, Exit, Take, SendOk, SendFails
    <3> QED BY <2>1, <3>1, <3>2, <3>3 DEF FanStep, Destroying
  <2>2. CASE Destroy \/ Reap
    BY <2>2 DEF Destroy, Reap, Destroying
  <2>3. ASSUME \A d \in Dest : Account(d), ~ (Destroy \/ Reap), NEW d \in Dest
        PROVE  Account(d)'
    <3>1. CASE Enqueue
      BY <2>3, <3>1, <1>EnqueueFailed, <1>EnqueueFull, <1>EnqueueFits DEF Enqueue
    <3>2. CASE Completing
      BY <2>0, <2>3, <3>2, <1>Quiet DEF Completing
    <3>3. ASSUME NEW a \in Dest, WorkerStep(a) \/ SpuriousWakeup(a) \/ Transfer(a)
          PROVE  Account(d)'
      <4>1. CASE Sleep(a) \/ SpuriousWakeup(a) \/ Exit(a)
        BY <2>3, <4>1, <1>Quiet
      <4>2. CASE Take(a)
        BY <2>3, <4>2, <1>Take
      <4>3. CASE SendOk(a) \/ SendFails(a)
        BY <2>3, <4>3, <1>SendOk, <1>SendFails
      <4> QED BY <3>3, <4>1, <4>2, <4>3 DEF WorkerStep, Transfer
    <3> QED BY <3>1, <3>2, <3>3 DEF FanStep
  <2> QED BY <2>1, <2>2, <2>3

<1> QED BY <1>AccountedIs, <1>LoopKeepsAccounts, <1>FanStep

=============================================================================
