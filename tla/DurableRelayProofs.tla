------------------------- MODULE DurableRelayProofs -------------------------
(***************************************************************************)
(* Proofs about the durable relay pair, for any number of frames, any      *)
(* spool limit and any number of errors, crashes and restarts: no          *)
(* acknowledged frame is lost, rows keep their order, and the pair         *)
(* implements the in-order, at-least-once channel.                         *)
(***************************************************************************)
EXTENDS DurableRelay, SequenceTheorems, TLAPS

USE RelayAssumption

Requests == [id : Nat \ {0}, payload : Nat \ {0}, live : BOOLEAN]
Handoffs == [payload : Nat \ {0}, live : BOOLEAN]
Exited == {"exit0", "exit1", "down"}

RelayTypeOK ==
  /\ acked \in Nat /\ last \in Nat
  /\ outbox \in Seq(Rows) /\ next_id \in Nat \ {0}
  /\ inbox \in Seq(Rows) /\ high \in Nat
  /\ requests \in Seq(Requests) /\ ack \in Nat
  /\ handoff \in Seq(Handoffs) /\ publish_ack \in BOOLEAN

\* The id of the outbox's first row, or of the next one.
FirstId == next_id - Len(outbox)

\* Ids are consecutive in both tables, and the receiving relay has accepted either
\* everything before the outbox's first row, or that row too.
Numbered ==
  /\ \A i \in DOMAIN outbox : outbox[i].id = FirstId + i - 1
  /\ \A i \in DOMAIN inbox : inbox[i].id = high - Len(inbox) + i
  /\ high < next_id
  /\ high \in {FirstId - 1, FirstId}

\* The main thread: a frame in its hands is not yet acknowledged, and the process
\* ends only after its other thread.
Ingesting ==
  /\ spc \in {"enqueue", "ack"} => acked < Frames
  /\ spc \in Exited => tpc = "done"

\* The transmit thread: all it has sent and not seen answered is the first row;
\* only the latest copy is answered, after which there is none.
Transmitting ==
  /\ tpc \in {"send", "wait"} => outbox # <<>>
  /\ \A i \in DOMAIN requests :
       /\ outbox # <<>>
       /\ requests[i].id = FirstId /\ requests[i].payload = outbox[1].payload
       /\ requests[i].live => tpc = "wait" /\ i = Len(requests)
  /\ ack # 0 => tpc = "wait" /\ ack = FirstId /\ high = FirstId /\ requests = <<>>

\* The deliver thread does the same with the inbox.
Delivering ==
  /\ dpc \in {"send", "wait"} => inbox # <<>>
  /\ \A i \in DOMAIN handoff :
       /\ inbox # <<>>
       /\ handoff[i].payload = inbox[1].payload
       /\ handoff[i].live => dpc = "wait" /\ i = Len(handoff)
  /\ publish_ack => dpc = "wait" /\ handoff = <<>> /\ last = inbox[1].payload
  /\ ~rup => dpc = "done"

\* A row's frame is the one of the row before or the next one: a frame whose
\* acknowledgement was lost is submitted again.
Rising(rows) ==
  \A i \in 1 .. Len(rows) - 1 : rows[i + 1].payload \in {rows[i].payload, rows[i].payload + 1}

\* The frame of the latest row, if there is a row.
Newest(rows, before) == IF rows = <<>> THEN before ELSE rows[Len(rows)].payload

\* The frame of row high, and of the latest row of all.
Accepted == Newest(inbox, last)
Submitted == Newest(outbox, Accepted)

\* From the frame published latest over inbox and outbox to the one that the
\* application waits for, frames follow each other.
Chained ==
  /\ Rising(inbox) /\ Rising(outbox)
  /\ inbox # <<>> => inbox[1].payload \in {last, last + 1}
  /\ outbox # <<>> =>
       outbox[1].payload \in IF high = FirstId THEN {Accepted} ELSE {Accepted, Accepted + 1}
  /\ Submitted \in {acked, acked + 1}
  /\ spc = "ack" => Submitted = acked + 1

\* No row is ahead of the application.
Behind(rows) == \A i \in DOMAIN rows : rows[i].payload =< Frames /\ rows[i].payload =< acked + 1

RelayInv ==
  /\ RelayTypeOK /\ Numbered
  /\ Ingesting /\ Transmitting /\ Delivering
  /\ Chained /\ Behind(inbox) /\ Behind(outbox)
  /\ acked =< Frames
  /\ NoAckedLoss

-----------------------------------------------------------------------------
(* Sequences *)

\* What Append does, index by index.
LEMMA Appended ==
  ASSUME NEW T, NEW rows \in Seq(T), NEW row \in T
  PROVE  /\ Append(rows, row) \in Seq(T) /\ Append(rows, row) # <<>>
         /\ Len(Append(rows, row)) = Len(rows) + 1
         /\ DOMAIN Append(rows, row) = 1 .. Len(rows) + 1
         /\ \A i \in 1 .. Len(rows) : Append(rows, row)[i] = rows[i]
         /\ Append(rows, row)[Len(rows) + 1] = row
  OBVIOUS

\* What Head and Tail do.
LEMMA Tailed ==
  ASSUME NEW T, NEW rows \in Seq(T), rows # <<>>
  PROVE  /\ Tail(rows) \in Seq(T)
         /\ Len(rows) \in Nat \ {0} /\ Len(Tail(rows)) = Len(rows) - 1
         /\ DOMAIN Tail(rows) = 1 .. Len(rows) - 1
         /\ \A i \in 1 .. Len(rows) - 1 : Tail(rows)[i] = rows[i + 1]
         /\ Head(rows) = rows[1] /\ rows[1] \in T
         /\ Tail(rows) = <<>> <=> Len(rows) = 1
<1>1. /\ Tail(rows) \in Seq(T)
      /\ Len(rows) \in Nat \ {0} /\ Len(Tail(rows)) = Len(rows) - 1
      /\ Head(rows) = rows[1] /\ rows[1] \in T
  OBVIOUS
<1>2. \A i \in 1 .. Len(rows) - 1 : Tail(rows)[i] = rows[i + 1]
  OBVIOUS
<1>3. DOMAIN Tail(rows) = 1 .. Len(rows) - 1
  BY <1>1, LenProperties
<1>4. Tail(rows) = <<>> <=> Len(rows) = 1
  BY <1>1, EmptySeq
<1> QED
  BY <1>1, <1>2, <1>3, <1>4

\* The rows of a table are those at the positions up to its length, ...
LEMMA Counted ==
  ASSUME NEW T, NEW rows \in Seq(T)
  PROVE  /\ Len(rows) \in Nat /\ DOMAIN rows = 1 .. Len(rows)
         /\ \A i \in 1 .. Len(rows) : rows[i] \in T
         /\ rows = <<>> <=> Len(rows) = 0
  OBVIOUS

\* ... each has an id and a payload, ...
LEMMA Typed ==
  ASSUME NEW rows \in Seq(Rows), NEW i \in DOMAIN rows
  PROVE  rows[i].id \in Nat \ {0} /\ rows[i].payload \in Nat \ {0}
<1>1. rows[i] \in Rows
  OBVIOUS
<1> QED
  BY <1>1 DEF Rows

\* ... and an empty table has none.
LEMMA NoRows == DOMAIN <<>> = {} /\ Len(<<>>) = 0
  OBVIOUS

\* A closed connection leaves its frames in place, with nobody waiting.
LEMMA OrphanedRequests ==
  ASSUME requests \in Seq(Requests)
  PROVE  /\ Orphaned(requests) \in Seq(Requests)
         /\ DOMAIN Orphaned(requests) = DOMAIN requests
         /\ \A i \in DOMAIN requests :
              /\ Orphaned(requests)[i].id = requests[i].id
              /\ Orphaned(requests)[i].payload = requests[i].payload
              /\ Orphaned(requests)[i].live = FALSE
<1> DEFINE n == Len(requests)
           closed(i) == [requests[i] EXCEPT !.live = FALSE]
<1>1. n \in Nat /\ DOMAIN requests = 1 .. n /\ \A i \in 1 .. n : requests[i] \in Requests
  BY Counted
<1>2. \A i \in 1 .. n : closed(i) \in Requests /\ closed(i).live = FALSE
        /\ closed(i).payload = requests[i].payload /\ closed(i).id = requests[i].id
  BY <1>1, Zenon DEF Requests
<1>3. Orphaned(requests) = [i \in 1 .. n |-> closed(i)]
  BY <1>1 DEF Orphaned
<1>4. Orphaned(requests) \in [1 .. n -> Requests]
  BY <1>2, <1>3
<1>5. Orphaned(requests) \in Seq(Requests)
  BY <1>1, <1>4, SeqDef
<1> QED
  BY <1>1, <1>2, <1>3, <1>5, ZenonT(40)

\* The same for the frames on the way to the C++ receiver.
LEMMA OrphanedHandoff ==
  ASSUME handoff \in Seq(Handoffs)
  PROVE  /\ Orphaned(handoff) \in Seq(Handoffs)
         /\ DOMAIN Orphaned(handoff) = DOMAIN handoff
         /\ \A i \in DOMAIN handoff :
              /\ Orphaned(handoff)[i].payload = handoff[i].payload
              /\ Orphaned(handoff)[i].live = FALSE
<1> DEFINE n == Len(handoff)
           closed(i) == [handoff[i] EXCEPT !.live = FALSE]
<1>1. n \in Nat /\ DOMAIN handoff = 1 .. n /\ \A i \in 1 .. n : handoff[i] \in Handoffs
  BY Counted
<1>2. \A i \in 1 .. n : closed(i) \in Handoffs /\ closed(i).live = FALSE
        /\ closed(i).payload = handoff[i].payload
  BY <1>1, Zenon DEF Handoffs
<1>3. Orphaned(handoff) = [i \in 1 .. n |-> closed(i)]
  BY <1>1 DEF Orphaned
<1>4. Orphaned(handoff) \in [1 .. n -> Handoffs]
  BY <1>2, <1>3
<1>5. Orphaned(handoff) \in Seq(Handoffs)
  BY <1>1, <1>4, SeqDef
<1> QED
  BY <1>1, <1>2, <1>3, <1>5, ZenonT(40)

-----------------------------------------------------------------------------
(* Steps of the sending relay *)

\* The invariant holds before the first start.
LEMMA InitKeeps == Init => RelayInv
<1> SUFFICES ASSUME Init PROVE RelayInv
  OBVIOUS
<1>1. RelayTypeOK
  <2>1. outbox \in Seq(Rows) /\ inbox \in Seq(Rows) /\ requests \in Seq(Requests)
        /\ handoff \in Seq(Handoffs)
    BY EmptySeq, Zenon DEF Init
  <2>2. acked \in Nat /\ last \in Nat /\ next_id \in Nat \ {0} /\ high \in Nat /\ ack \in Nat
    BY DEF Init
  <2>3. publish_ack \in BOOLEAN
    BY Zenon DEF Init
  <2> QED
    BY <2>1, <2>2, <2>3 DEF RelayTypeOK
<1>2. DOMAIN outbox = {} /\ DOMAIN inbox = {} /\ DOMAIN requests = {} /\ DOMAIN handoff = {}
      /\ Len(outbox) = 0 /\ Len(inbox) = 0 /\ next_id = 1 /\ high = 0
  BY NoRows DEF Init
<1>3. Numbered
  BY <1>2 DEF Numbered, FirstId
<1>4. Ingesting /\ Transmitting /\ Delivering
  BY <1>2 DEF Init, Ingesting, Exited, Transmitting, Delivering
<1>5. Chained
  BY <1>2 DEF Init, Chained, Rising, Newest, Accepted, Submitted
<1>6. Behind(inbox) /\ Behind(outbox) /\ acked =< Frames /\ NoAckedLoss
  BY <1>2 DEF Init, Behind, NoAckedLoss
<1> QED
  BY <1>1, <1>3, <1>4, <1>5, <1>6 DEF RelayInv

\* Steps that only move a thread.
LEMMA ControlKeeps ==
  ASSUME RelayInv,
         \/ Accept \/ ReadFrame \/ IngressDone \/ Drained \/ RaiseStopped \/ RaiseFailed
         \/ Leave \/ TransmitFirst \/ TransmitEmpty \/ TransmitStopped \/ DeliverFirst
         \/ RestartSender \/ RestartReceiver
  PROVE  RelayInv'
<1> USE DEF RelayInv
<1> USE DEF Ingesting, Exited, Transmitting, Delivering
<1> DEFINE Moved ==
      /\ UNCHANGED <<acked, databases, requests, ack, localVars>>
      /\ (spc' = "ack" => spc = "ack") /\ Ingesting'
      /\ (tpc' # tpc => tpc # "wait") /\ (tpc' \in {"send", "wait"} => outbox # <<>>)
      /\ (rup' \/ (~rup /\ dpc' = dpc))
      /\ (dpc' # dpc => dpc # "wait") /\ (dpc' \in {"send", "wait"} => inbox # <<>>)
<1>1. Moved
  <2>1. CASE Accept \/ ReadFrame \/ IngressDone \/ Drained \/ RaiseStopped \/ RaiseFailed \/ Leave
    BY <2>1, Zenon DEF Accept, ReadFrame, IngressDone, Drained, RaiseStopped, RaiseFailed, Leave,
                linkVars, databases, localVars
  <2>2. CASE TransmitFirst \/ TransmitEmpty \/ TransmitStopped
    BY <2>2 DEF TransmitFirst, TransmitEmpty, TransmitStopped, transmitRest, databases,
                linkVars, localVars
  <2>3. CASE DeliverFirst
    BY <2>3 DEF DeliverFirst, deliverRest, databases, linkVars, localVars, sendVars
  <2>4. CASE RestartSender
    <3>1. PICK replay_only \in BOOLEAN : spc' = IF replay_only THEN "drain" ELSE "accept"
      BY <2>4, Zenon DEF RestartSender
    <3>2. spc' \in {"drain", "accept"}
      BY <3>1
    <3> QED
      BY <2>4, <3>2 DEF RestartSender, linkVars, databases, localVars
  <2>5. CASE RestartReceiver
    BY <2>5 DEF RestartReceiver, linkVars, databases, localVars, sendVars
  <2> QED
    BY <2>1, <2>2, <2>3, <2>4, <2>5
<1> USE <1>1 DEF databases, localVars
<1>2. RelayTypeOK' /\ Numbered'
  BY DEF RelayTypeOK, Numbered, FirstId
<1>3. Transmitting'
  BY DEF Transmitting, FirstId
<1>4. Delivering'
  BY DEF Delivering
<1>5. Chained'
  BY DEF Chained, Rising, Newest, Accepted, Submitted, FirstId
<1>6. Behind(inbox)' /\ Behind(outbox)' /\ (acked =< Frames)' /\ NoAckedLoss'
  BY DEF Behind, NoAckedLoss, Payloads
<1> QED
  BY <1>2, <1>3, <1>4, <1>5, <1>6

\* A new row continues the ids and the frames.
LEMMA EnqueueKeeps ==
  ASSUME RelayInv, Enqueue
  PROVE  RelayInv'
<1> DEFINE row == [id |-> next_id, payload |-> acked + 1]
<1> USE DEF RelayInv
<1>1. /\ outbox' = Append(outbox, row) /\ next_id' = next_id + 1 /\ spc = "enqueue" /\ spc' = "ack"
      /\ UNCHANGED <<acked, inbox, high, tpc, requests, ack, rup, dpc, handoff, publish_ack, last>>
  BY DEF Enqueue, enqueue, linkVars, localVars
<1>2. row \in Rows /\ acked < Frames /\ acked \in Nat /\ outbox \in Seq(Rows) /\ next_id \in Nat
  BY <1>1 DEF Rows, RelayTypeOK, Ingesting
<1>3. /\ outbox' \in Seq(Rows) /\ outbox' # <<>> /\ Len(outbox') = Len(outbox) + 1
      /\ DOMAIN outbox' = 1 .. Len(outbox) + 1 /\ DOMAIN outbox = 1 .. Len(outbox)
      /\ Len(outbox) \in Nat
      /\ \A i \in 1 .. Len(outbox) : outbox'[i] = outbox[i]
      /\ outbox'[Len(outbox) + 1] = row
      /\ outbox = <<>> <=> Len(outbox) = 0
  <2> HIDE DEF row
  <2> QED
    BY <1>1, <1>2, Appended, Counted
<1>4. FirstId' = FirstId /\ FirstId \in Int
  BY <1>1, <1>3, <1>2 DEF FirstId
<1>5. RelayTypeOK'
  BY <1>1, <1>2, <1>3 DEF RelayTypeOK
<1>6. Numbered'
  <2>1. row.id = next_id /\ next_id = FirstId + Len(outbox) /\ next_id' = next_id + 1
    <3>1. row.id = next_id
      OBVIOUS
    <3> HIDE DEF row
    <3>2. next_id = FirstId + Len(outbox)
      BY <1>2, <1>3 DEF FirstId
    <3> QED BY <1>1, <3>1, <3>2, Zenon
  <2>2. \A i \in 1 .. Len(outbox) : outbox[i].id = FirstId + i - 1
    <3>1. DOMAIN outbox = 1 .. Len(outbox)
      BY <1>3, Zenon
    <3> QED BY <3>1, Zenon DEF Numbered
  <2>3. UNCHANGED <<inbox, high>> /\ high \in Nat
    BY <1>1 DEF RelayTypeOK
  <2> HIDE DEF row
  <2>4. \A i \in DOMAIN outbox' : outbox'[i].id = FirstId' + i - 1
    <3> SUFFICES ASSUME NEW i \in 1 .. Len(outbox) + 1 PROVE outbox'[i].id = FirstId + i - 1
      BY <1>3, <1>4
    <3>1. CASE i \in 1 .. Len(outbox)
      BY <1>3, <2>2, <3>1
    <3>2. CASE i = Len(outbox) + 1
      BY <1>3, <1>4, <2>1, <3>2
    <3> QED BY <1>3, <3>1, <3>2
  <2>5. high' < next_id' /\ high' \in {FirstId' - 1, FirstId'}
    BY <1>2, <1>4, <2>1, <2>3 DEF Numbered
  <2>6. \A i \in DOMAIN inbox' : inbox'[i].id = high' - Len(inbox') + i
    BY <2>3 DEF Numbered
  <2> QED BY <2>4, <2>5, <2>6, Zenon DEF Numbered
<1>7. Ingesting'
  BY <1>1, <1>2 DEF Ingesting, Exited
<1>8. Transmitting'
  BY <1>1, <1>3, <1>4 DEF Transmitting
<1>9. Delivering'
  BY <1>1 DEF Delivering
<1>10. Chained'
  <2>1. Rising(inbox)' /\ Accepted' = Accepted /\ (inbox # <<>> => inbox[1].payload \in {last, last + 1})'
    BY <1>1 DEF Chained, Rising, Accepted, Newest
  <2>2. Submitted' = acked + 1
    BY <1>1, <1>3 DEF Submitted, Newest
  <2>3. Rising(outbox')
    <3> SUFFICES ASSUME NEW i \in 1 .. Len(outbox)
                 PROVE  outbox'[i + 1].payload \in {outbox'[i].payload, outbox'[i].payload + 1}
      BY <1>3 DEF Rising
    <3>1. CASE i < Len(outbox)
      BY <1>3, <3>1 DEF Chained, Rising
    <3>2. CASE i = Len(outbox)
      <4>1. outbox'[i].payload = Submitted
        BY <1>3, <3>2 DEF Submitted, Newest
      <4>2. outbox'[i + 1].payload = acked + 1
        BY <1>3, <3>2
      <4> QED
        BY <1>2, <4>1, <4>2 DEF Chained
    <3>3. Len(outbox) \in Nat
      BY <1>3
    <3>4. i < Len(outbox) \/ i = Len(outbox)
      BY <3>3
    <3> QED
      BY <3>1, <3>2, <3>4
  <2>4. outbox'[1].payload \in IF high = FirstId THEN {Accepted} ELSE {Accepted, Accepted + 1}
    <3>1. CASE outbox = <<>>
      BY <3>1, <1>2, <1>3 DEF Chained, Submitted, Newest, Numbered, FirstId, RelayTypeOK
    <3>2. CASE outbox # <<>>
      BY <3>2, <1>3 DEF Chained
    <3> QED
      BY <3>1, <3>2
  <2> QED
    BY <1>1, <1>2, <1>4, <2>1, <2>2, <2>3, <2>4 DEF Chained, Rising
<1>11. Behind(inbox)' /\ Behind(outbox)' /\ (acked =< Frames)'
  BY <1>1, <1>2, <1>3 DEF Behind
<1>12. NoAckedLoss'
  <2>1. Payloads(outbox) \subseteq Payloads(outbox') /\ Payloads(inbox') = Payloads(inbox)
    BY <1>1, <1>3 DEF Payloads
  <2> QED
    BY <1>1, <2>1 DEF NoAckedLoss
<1> QED
  BY <1>5, <1>6, <1>7, <1>8, <1>9, <1>10, <1>11, <1>12

\* The acknowledged frame is in the latest row, or was published from it.
LEMMA AckSubmitterKeeps ==
  ASSUME RelayInv, AckSubmitter
  PROVE  RelayInv'
<1> USE DEF RelayInv
<1>1. /\ acked' = acked + 1 /\ spc = "ack" /\ spc' \in {"drain", "read"}
      /\ UNCHANGED <<outbox, next_id, inbox, high, tpc, requests, ack, rup, dpc, handoff, publish_ack,
                     last>>
  BY DEF AckSubmitter, databases, linkVars, localVars
<1>2. acked \in Nat /\ last \in Nat /\ acked < Frames
  BY <1>1 DEF RelayTypeOK, Ingesting
<1>3. RelayTypeOK' /\ Numbered' /\ Ingesting'
  BY <1>1, <1>2 DEF RelayTypeOK, Numbered, FirstId, Ingesting, Exited
<1>4. Transmitting' /\ Delivering'
  BY <1>1 DEF Transmitting, Delivering, FirstId
<1>5. Chained'
  BY <1>1, <1>2 DEF Chained, Rising, Accepted, Submitted, Newest, FirstId
<1>6. Behind(inbox)' /\ Behind(outbox)' /\ (acked =< Frames)'
  <2>1. \A i \in DOMAIN inbox : inbox[i].payload \in Nat
    BY Typed DEF RelayTypeOK
  <2>2. \A i \in DOMAIN outbox : outbox[i].payload \in Nat
    BY Typed DEF RelayTypeOK
  <2> QED
    BY <1>1, <1>2, <2>1, <2>2 DEF Behind
<1>7. NoAckedLoss'
  <2> SUFFICES ASSUME NEW f \in (last + 1) .. (acked + 1)
               PROVE  f \in Payloads(outbox) \union Payloads(inbox)
    BY <1>1 DEF NoAckedLoss, Payloads
  <2>1. CASE f # acked + 1
    BY <2>1, <1>2 DEF NoAckedLoss
  <2>2. CASE f = acked + 1
    <3>1. Submitted = f /\ f # last
      BY <2>2, <1>1, <1>2 DEF Chained
    <3>2. CASE outbox # <<>>
      <4>1. Len(outbox) \in DOMAIN outbox
        BY <3>2, Counted DEF RelayTypeOK
      <4> QED
        BY <3>1, <3>2, <4>1 DEF Submitted, Newest, Payloads
    <3>3. CASE outbox = <<>>
      <4>1. inbox # <<>> /\ f = inbox[Len(inbox)].payload
        BY <3>1, <3>3 DEF Submitted, Accepted, Newest
      <4>2. Len(inbox) \in DOMAIN inbox
        BY <4>1, Counted DEF RelayTypeOK
      <4> QED
        BY <4>1, <4>2 DEF Payloads
    <3> QED
      BY <3>2, <3>3
  <2> QED
    BY <2>1, <2>2
<1> QED
  BY <1>3, <1>4, <1>5, <1>6, <1>7

\* What a step that leaves the tables, the publications and the main thread alone
\* has to show.
LEMMA TablesKeep ==
  ASSUME RelayInv,
         UNCHANGED <<acked, outbox, next_id, inbox, high, last>>,
         spc' = "ack" => spc = "ack", Ingesting',
         requests' \in Seq(Requests) /\ ack' \in Nat, Transmitting',
         handoff' \in Seq(Handoffs) /\ publish_ack' \in BOOLEAN, Delivering'
  PROVE  RelayInv'
<1> USE DEF RelayInv
<1>1. RelayTypeOK' /\ Numbered'
  BY DEF RelayTypeOK, Numbered, FirstId
<1>2. Chained'
  BY DEF Chained, Rising, Newest, Accepted, Submitted, FirstId
<1>3. Behind(inbox)' /\ Behind(outbox)' /\ (acked =< Frames)' /\ NoAckedLoss'
  BY DEF Behind, NoAckedLoss, Payloads
<1> QED
  BY <1>1, <1>2, <1>3

\* The worker sends the first row of the outbox; it may have sent it before.
LEMMA TransmitSendKeeps ==
  ASSUME RelayInv, TransmitSend
  PROVE  RelayInv'
<1> DEFINE r == [id |-> first(outbox).id, payload |-> first(outbox).payload, live |-> TRUE]
<1> USE DEF RelayInv
<1>1. /\ requests' = Append(requests, r) /\ tpc = "send" /\ tpc' = "wait"
      /\ UNCHANGED <<acked, outbox, next_id, inbox, high, spc, rup, dpc, handoff, publish_ack, last, ack>>
  BY DEF TransmitSend, transmitRest, localVars
<1>2. outbox # <<>> /\ outbox \in Seq(Rows) /\ requests \in Seq(Requests)
  BY <1>1 DEF Transmitting, RelayTypeOK
<1>3. 1 \in DOMAIN outbox /\ first(outbox) = outbox[1]
  BY <1>2, Counted, Tailed DEF first
<1>4. r \in Requests /\ r.id = FirstId /\ r.payload = outbox[1].payload
  <2>1. outbox[1].id = FirstId + 1 - 1
    BY <1>3 DEF Numbered
  <2>2. outbox[1].id \in Nat \ {0} /\ outbox[1].payload \in Nat \ {0}
    BY <1>2, <1>3, Typed
  <2>3. FirstId \in Int
    BY <1>2, Counted DEF FirstId, RelayTypeOK
  <2> QED
    BY <1>3, <2>1, <2>2, <2>3 DEF Requests
<1> HIDE DEF r
<1>5. /\ requests' \in Seq(Requests) /\ Len(requests') = Len(requests) + 1
      /\ DOMAIN requests' = 1 .. Len(requests) + 1
      /\ DOMAIN requests = 1 .. Len(requests) /\ Len(requests) \in Nat
      /\ \A i \in 1 .. Len(requests) : requests'[i] = requests[i]
      /\ requests'[Len(requests) + 1] = r
  BY <1>1, <1>2, <1>4, Appended, Counted
<1>6. Transmitting'
  <2>1. ack = 0
    BY <1>1 DEF Transmitting
  <2>2. FirstId' = FirstId
    BY <1>1 DEF FirstId
  <2> SUFFICES ASSUME NEW i \in 1 .. Len(requests) + 1
               PROVE  /\ requests'[i].id = FirstId /\ requests'[i].payload = outbox[1].payload
                      /\ requests'[i].live => i = Len(requests) + 1
    BY <1>1, <1>2, <1>5, <2>1, <2>2 DEF Transmitting
  <2>3. CASE i = Len(requests) + 1
    BY <2>3, <1>4, <1>5
  <2>4. CASE i \in 1 .. Len(requests)
    BY <2>4, <1>1, <1>5 DEF Transmitting
  <2>5. Len(requests) \in Nat
    BY <1>5
  <2>6. i = Len(requests) + 1 \/ i \in 1 .. Len(requests)
    BY <2>5
  <2> QED
    BY <2>3, <2>4, <2>6
<1>7. Ingesting' /\ Delivering'
  BY <1>1 DEF Ingesting, Exited, Delivering
<1>8. handoff' \in Seq(Handoffs) /\ publish_ack' \in BOOLEAN /\ ack' \in Nat
  BY <1>1 DEF RelayTypeOK
<1> QED
  BY <1>1, <1>5, <1>6, <1>7, <1>8, TablesKeep

\* The row that is retired is the one in the inbox, or published already.
LEMMA TransmitAckedKeeps ==
  ASSUME RelayInv, TransmitAcked
  PROVE  RelayInv'
<1> USE DEF RelayInv
<1>1. /\ tpc = "wait" /\ ack = first(outbox).id /\ ack' = 0 /\ outbox' = Tail(outbox) /\ tpc' = "loop"
      /\ UNCHANGED <<acked, next_id, inbox, high, spc, rup, dpc, handoff, publish_ack, last, requests>>
  BY DEF TransmitAcked, transmitRest, localVars, retired
<1>2. outbox # <<>> /\ outbox \in Seq(Rows) /\ next_id \in Nat /\ high \in Nat
  BY <1>1 DEF Transmitting, RelayTypeOK
<1>3. /\ outbox' \in Seq(Rows) /\ Len(outbox) \in Nat \ {0} /\ Len(outbox') = Len(outbox) - 1
      /\ DOMAIN outbox' = 1 .. Len(outbox) - 1 /\ DOMAIN outbox = 1 .. Len(outbox)
      /\ \A i \in 1 .. Len(outbox) - 1 : outbox'[i] = outbox[i + 1]
      /\ first(outbox) = outbox[1]
      /\ outbox' = <<>> <=> Len(outbox) = 1
  BY <1>1, <1>2, Tailed, Counted DEF first
<1>4. FirstId' = FirstId + 1 /\ FirstId \in Int
  BY <1>1, <1>2, <1>3 DEF FirstId
<1>5. ack # 0 /\ high = FirstId /\ requests = <<>>
  BY <1>1, <1>2, <1>3, Typed DEF Transmitting
<1>6. RelayTypeOK'
  BY <1>1, <1>3 DEF RelayTypeOK
<1>7. Numbered'
  <2>1. \A i \in 1 .. Len(outbox) - 1 : outbox'[i].id = FirstId + 1 + i - 1
    <3> SUFFICES ASSUME NEW i \in 1 .. Len(outbox) - 1 PROVE outbox'[i].id = FirstId + 1 + i - 1
      OBVIOUS
    <3>1. i + 1 \in DOMAIN outbox /\ outbox'[i] = outbox[i + 1]
      BY <1>3
    <3>2. outbox[i + 1].id = FirstId + (i + 1) - 1
      BY <3>1 DEF Numbered
    <3> QED
      BY <3>1, <3>2, <1>4
  <2>2. (\A i \in DOMAIN inbox : inbox[i].id = high - Len(inbox) + i)' /\ (high < next_id)'
    BY <1>1 DEF Numbered
  <2>3. (high \in {FirstId - 1, FirstId})'
    BY <1>1, <1>4, <1>5
  <2>4. (\A i \in DOMAIN outbox : outbox[i].id = FirstId + i - 1)'
    BY <1>3, <1>4, <2>1, SMTT(30)
  <2> QED
    BY <2>2, <2>3, <2>4 DEF Numbered
<1>8. Ingesting' /\ Delivering'
  BY <1>1 DEF Ingesting, Exited, Delivering
<1>9. Transmitting'
  BY <1>1, <1>5, NoRows DEF Transmitting
<1>10. outbox[1].payload = Accepted /\ Accepted' = Accepted
  BY <1>1, <1>2, <1>5 DEF Chained, Accepted, Newest
<1>11. Chained'
  <2>1. Rising(inbox)' /\ (inbox # <<>> => inbox[1].payload \in {last, last + 1})'
    BY <1>1 DEF Chained, Rising
  <2>2. Rising(outbox')
    <3> SUFFICES ASSUME NEW i \in 1 .. Len(outbox) - 2
                 PROVE  outbox'[i + 1].payload \in {outbox'[i].payload, outbox'[i].payload + 1}
      BY <1>3 DEF Rising
    <3>1. outbox'[i + 1] = outbox[i + 1 + 1] /\ outbox'[i] = outbox[i + 1] /\ i + 1 \in 1 .. Len(outbox) - 1
      BY <1>3
    <3> QED
      BY <3>1 DEF Chained, Rising
  <2>3. Submitted' = Submitted
    <3>1. CASE Len(outbox) = 1
      BY <3>1, <1>2, <1>3, <1>10 DEF Submitted, Newest
    <3>2. CASE Len(outbox) # 1
      BY <3>2, <1>2, <1>3 DEF Submitted, Newest
    <3> QED
      BY <3>1, <3>2
  <2>4. outbox' # <<>> => outbox'[1].payload \in {Accepted, Accepted + 1}
    BY <1>3, <1>10 DEF Chained, Rising
  <2>5. high' # FirstId'
    BY <1>1, <1>4, <1>5
  <2> QED
    BY <1>1, <1>10, <2>1, <2>2, <2>3, <2>4, <2>5 DEF Chained, Rising
<1>12. Behind(inbox)' /\ Behind(outbox)' /\ (acked =< Frames)'
  BY <1>1, <1>3 DEF Behind
<1>13. NoAckedLoss'
  <2> SUFFICES ASSUME NEW f \in (last + 1) .. acked, f \in Payloads(outbox)
               PROVE  f \in Payloads(outbox') \union Payloads(inbox)
    BY <1>1 DEF NoAckedLoss, Payloads
  <2>1. PICK i \in 1 .. Len(outbox) : f = outbox[i].payload
    BY <1>3 DEF Payloads
  <2>2. CASE i = 1
    <3>1. f = Accepted /\ f # last
      BY <2>1, <2>2, <1>10 DEF RelayTypeOK
    <3>2. inbox # <<>> /\ f = inbox[Len(inbox)].payload
      BY <3>1 DEF Accepted, Newest
    <3>3. Len(inbox) \in DOMAIN inbox
      BY <3>2, Counted DEF RelayTypeOK
    <3> QED
      BY <3>2, <3>3 DEF Payloads
  <2>3. CASE i # 1
    <3>1. i - 1 \in DOMAIN outbox' /\ outbox'[i - 1] = outbox[i]
      BY <2>3, <1>3
    <3> QED
      BY <2>1, <3>1 DEF Payloads
  <2> QED
    BY <2>2, <2>3
<1> QED
  BY <1>6, <1>7, <1>8, <1>9, <1>11, <1>12, <1>13

\* Whatever closes the stream only gives up waiting for the answer.
LEMMA StreamClosedKeeps ==
  ASSUME RelayInv,
         TransmitRetry \/ TransmitGiveUp \/ TransmitUnwrap \/ TransmitUnwrapFails \/ CrashSender
  PROVE  RelayInv'
<1> USE DEF RelayInv
<1>1. /\ UNCHANGED <<acked, outbox, next_id, inbox, high, last, rup, dpc, handoff, publish_ack>>
      /\ requests' = Orphaned(requests) /\ ack' = 0 /\ tpc' \in {"loop", "done"}
      /\ spc' = spc \/ (spc' = "down" /\ tpc' = "done")
      /\ tpc' = "loop" => tpc \in {"send", "wait"} /\ spc' = spc
  BY DEF TransmitRetry, TransmitGiveUp, TransmitUnwrap, TransmitUnwrapFails, CrashSender,
         CloseStream, transmitRest, databases, localVars
<1>2. /\ requests' \in Seq(Requests) /\ DOMAIN requests' = DOMAIN requests
      /\ \A i \in DOMAIN requests : /\ requests'[i].id = requests[i].id
                                    /\ requests'[i].payload = requests[i].payload
                                    /\ ~requests'[i].live
  BY <1>1, OrphanedRequests, Zenon DEF RelayTypeOK
<1>3. Transmitting'
  BY <1>1, <1>2 DEF Transmitting, FirstId
<1>4. Ingesting' /\ Delivering'
  BY <1>1 DEF Ingesting, Exited, Delivering
<1>5. handoff' \in Seq(Handoffs) /\ publish_ack' \in BOOLEAN /\ ack' \in Nat
  BY <1>1 DEF RelayTypeOK
<1>6. spc' = "ack" => spc = "ack"
  BY <1>1
<1> QED
  BY <1>1, <1>2, <1>3, <1>4, <1>5, <1>6, TablesKeep

-----------------------------------------------------------------------------
(* Steps of the receiving relay *)

\* The request that is handled next is a copy of the outbox's first row; if it is
\* answered it was the only one.
LEMMA HeadRequest ==
  ASSUME RelayInv, requests # <<>>
  PROVE  /\ Head(requests) = requests[1] /\ requests[1] \in Requests
         /\ outbox # <<>> /\ requests[1].id = FirstId /\ requests[1].payload = outbox[1].payload
         /\ requests[1].live => tpc = "wait" /\ Tail(requests) = <<>>
         /\ ack = 0
         /\ Tail(requests) \in Seq(Requests)
         /\ DOMAIN Tail(requests) = 1 .. Len(requests) - 1 /\ DOMAIN requests = 1 .. Len(requests)
         /\ Len(requests) \in Nat \ {0} /\ Len(Tail(requests)) = Len(requests) - 1
         /\ \A i \in 1 .. Len(requests) - 1 : Tail(requests)[i] = requests[i + 1]
<1>1. requests \in Seq(Requests)
  BY DEF RelayInv, RelayTypeOK
<1>2. /\ Head(requests) = requests[1] /\ requests[1] \in Requests
      /\ Tail(requests) \in Seq(Requests)
      /\ DOMAIN Tail(requests) = 1 .. Len(requests) - 1 /\ DOMAIN requests = 1 .. Len(requests)
      /\ Len(requests) \in Nat \ {0} /\ Len(Tail(requests)) = Len(requests) - 1
      /\ \A i \in 1 .. Len(requests) - 1 : Tail(requests)[i] = requests[i + 1]
      /\ (Tail(requests) = <<>> <=> Len(requests) = 1)
  BY <1>1, Tailed, Counted
<1>3. 1 \in DOMAIN requests
  BY <1>2
<1> QED
  BY <1>2, <1>3 DEF RelayInv, Transmitting

\* The other requests stay what they are while the outbox does.
LEMMA TailRequests ==
  ASSUME RelayInv, requests # <<>>, requests' = Tail(requests), UNCHANGED <<outbox, next_id, tpc>>,
         ack' # 0 => tpc = "wait" /\ ack' = FirstId /\ high' = FirstId /\ requests' = <<>>
  PROVE  Transmitting'
<1>1. FirstId' = FirstId
  BY DEF FirstId
<1>2. ASSUME NEW i \in DOMAIN requests'
      PROVE  /\ requests'[i].id = FirstId /\ requests'[i].payload = outbox[1].payload
             /\ requests'[i].live => tpc = "wait" /\ i = Len(requests')
  <2>1. i + 1 \in DOMAIN requests /\ requests'[i] = requests[i + 1] /\ Len(requests') = Len(requests) - 1
        /\ i \in Nat /\ Len(requests) \in Nat
    BY HeadRequest
  <2> QED
    BY <2>1 DEF RelayInv, Transmitting
<1>3. outbox # <<>>
  BY HeadRequest
<1> QED
  BY <1>1, <1>2, <1>3 DEF Transmitting, RelayInv

\* A request that is a duplicate, is refused or is lost leaves the inbox as it is.
LEMMA RequestDroppedKeeps ==
  ASSUME RelayInv, ServeDuplicate \/ ServeRejected \/ RequestLost
  PROVE  RelayInv'
<1>1. /\ requests # <<>> /\ requests' = Tail(requests)
      /\ UNCHANGED <<acked, outbox, next_id, inbox, high, spc, tpc, rup, dpc, handoff, publish_ack, last>>
  BY DEF ServeDuplicate, ServeRejected, RequestLost, serverRest, sendVars, localVars
<1>2. /\ requests[1].id \in Nat \ {0} /\ FirstId = requests[1].id /\ high \in {FirstId - 1, FirstId}
      /\ high \in Nat /\ ack = 0
  BY <1>1, HeadRequest DEF Requests, RelayInv, RelayTypeOK, Numbered
<1>3. ack' # 0 => tpc = "wait" /\ ack' = FirstId /\ high' = FirstId /\ requests' = <<>>
  <2>1. CASE ServeDuplicate
    <3>1. requests[1].id =< high /\ ack' = IF requests[1].live THEN requests[1].id ELSE ack
      BY <2>1, <1>1, HeadRequest DEF ServeDuplicate, Acknowledge
    <3>2. high = FirstId
      BY <3>1, <1>2
    <3>3. requests[1].live => tpc = "wait" /\ Tail(requests) = <<>>
      BY <1>1, HeadRequest
    <3> QED
      BY <3>1, <3>2, <3>3, <1>1, <1>2
  <2>2. CASE ServeRejected \/ RequestLost
    BY <2>2, <1>2 DEF ServeRejected, RequestLost
  <2> QED
    BY <2>1, <2>2, <1>1
<1>4. ack' \in Nat
  BY <1>2, <1>3
<1>5. Transmitting'
  BY <1>1, <1>3, TailRequests
<1>6. Ingesting' /\ Delivering' /\ handoff' \in Seq(Handoffs) /\ publish_ack' \in BOOLEAN
  BY <1>1 DEF RelayInv, RelayTypeOK, Ingesting, Delivering, Exited
<1>7. requests' \in Seq(Requests)
  BY <1>1, HeadRequest
<1> QED
  BY <1>1, <1>4, <1>5, <1>6, <1>7, TablesKeep

\* The row that is accepted continues the inbox.
LEMMA ServeNewKeeps ==
  ASSUME RelayInv, ServeNew
  PROVE  RelayInv'
<1> DEFINE row == [id |-> FirstId, payload |-> outbox[1].payload]
<1> USE DEF RelayInv
<1>1. requests # <<>>
  BY DEF ServeNew
<1>2. /\ FirstId = high + 1 /\ inbox' = Append(inbox, row) /\ high' = FirstId
      /\ ack' = IF requests[1].live THEN FirstId ELSE ack
      /\ requests' = Tail(requests)
      /\ UNCHANGED <<acked, outbox, next_id, spc, tpc, rup, dpc, handoff, publish_ack, last>>
  BY <1>1, HeadRequest DEF ServeNew, Acknowledge, serverRest, sendVars, localVars
<1>3. inbox \in Seq(Rows) /\ outbox \in Seq(Rows) /\ high \in Nat /\ outbox # <<>>
      /\ 1 \in DOMAIN outbox /\ outbox[1].payload \in Nat \ {0}
  <2>1. inbox \in Seq(Rows) /\ outbox \in Seq(Rows) /\ high \in Nat
    BY DEF RelayTypeOK
  <2>2. outbox # <<>>
    BY <1>1, HeadRequest
  <2>3. 1 \in DOMAIN outbox
    BY <2>1, <2>2, Counted
  <2> QED
    BY <2>1, <2>2, <2>3, Typed
<1>4. row \in Rows /\ row.id = high + 1 /\ row.payload = outbox[1].payload
  BY <1>2, <1>3 DEF Rows
<1> HIDE DEF row
<1>5. /\ inbox' \in Seq(Rows) /\ inbox' # <<>> /\ Len(inbox') = Len(inbox) + 1
      /\ DOMAIN inbox' = 1 .. Len(inbox) + 1 /\ DOMAIN inbox = 1 .. Len(inbox)
      /\ Len(inbox) \in Nat
      /\ \A i \in 1 .. Len(inbox) : inbox'[i] = inbox[i]
      /\ inbox'[Len(inbox) + 1] = row
      /\ inbox = <<>> <=> Len(inbox) = 0
  BY <1>2, <1>3, <1>4, Appended, Counted
<1>6. FirstId' = FirstId
  BY <1>2 DEF FirstId
<1>7. ack' # 0 => tpc = "wait" /\ ack' = FirstId /\ high' = FirstId /\ requests' = <<>>
  <2>1. requests[1].live => tpc = "wait" /\ Tail(requests) = <<>>
    BY <1>1, HeadRequest
  <2>2. ack = 0
    BY <1>1, HeadRequest
  <2> QED
    BY <2>1, <2>2, <1>2
<1>8. Transmitting'
  BY <1>1, <1>2, <1>7, TailRequests
<1>9. RelayTypeOK'
  <2>1. requests' \in Seq(Requests)
    BY <1>1, <1>2, HeadRequest
  <2>2. high' = high + 1 /\ (ack' = 0 \/ ack' = high + 1)
    BY <1>2, <1>7
  <2>3. high' \in Nat /\ ack' \in Nat
    BY <1>3, <2>2
  <2> QED
    BY <1>2, <1>5, <2>1, <2>3 DEF RelayTypeOK
<1>10. Numbered'
  <2>1. ASSUME NEW i \in 1 .. Len(inbox) + 1
        PROVE  inbox'[i].id = high' - Len(inbox') + i
    <3>1. CASE i \in 1 .. Len(inbox)
      <4>1. inbox'[i].id = high - Len(inbox) + i
        BY <3>1, <1>5, SMTT(30) DEF Numbered
      <4> QED
        BY <4>1, <1>2, <1>3, <1>5
    <3>2. CASE i = Len(inbox) + 1
      BY <3>2, <1>2, <1>3, <1>4, <1>5
    <3>3. Len(inbox) \in Nat
      BY <1>5
    <3>4. i \in 1 .. Len(inbox) \/ i = Len(inbox) + 1
      BY <3>3
    <3> QED
      BY <3>1, <3>2, <3>4
  <2>2. (\A i \in DOMAIN inbox : inbox[i].id = high - Len(inbox) + i)'
    BY <1>5, <2>1
  <2>3. (\A i \in DOMAIN outbox : outbox[i].id = FirstId + i - 1)'
    BY <1>2, <1>6 DEF Numbered
  <2>4. (high < next_id)'
    <3>1. FirstId = next_id - Len(outbox) /\ Len(outbox) \in Nat \ {0} /\ next_id \in Nat
      BY <1>3, Tailed DEF FirstId, RelayTypeOK
    <3> QED
      BY <3>1, <1>2
  <2>5. (high \in {FirstId - 1, FirstId})'
    BY <1>2, <1>6
  <2> QED
    BY <2>2, <2>3, <2>4, <2>5 DEF Numbered
<1>11. Ingesting'
  BY <1>2 DEF Ingesting, Exited
<1>12. Delivering'
  <2>1. inbox # <<>> => inbox'[1] = inbox[1]
    BY <1>5
  <2> QED
    BY <1>2, <1>5, <2>1 DEF Delivering
<1>13. Chained'
  <2>1. outbox[1].payload \in {Accepted, Accepted + 1}
    BY <1>2, <1>3 DEF Chained
  <2>2. Accepted' = outbox[1].payload
    BY <1>4, <1>5 DEF Accepted, Newest
  <2>3. Submitted' = Submitted
    BY <1>2, <1>3 DEF Submitted, Newest
  <2>4. Rising(inbox')
    <3> SUFFICES ASSUME NEW i \in 1 .. Len(inbox)
                 PROVE  inbox'[i + 1].payload \in {inbox'[i].payload, inbox'[i].payload + 1}
      BY <1>5 DEF Rising
    <3>1. CASE i < Len(inbox)
      BY <1>5, <3>1 DEF Chained, Rising
    <3>2. CASE i = Len(inbox)
      <4>1. inbox'[i].payload = Accepted /\ inbox'[i + 1].payload = outbox[1].payload
        BY <1>4, <1>5, <3>2 DEF Accepted, Newest
      <4> QED
        BY <2>1, <4>1
    <3>3. Len(inbox) \in Nat
      BY <1>5
    <3>4. i < Len(inbox) \/ i = Len(inbox)
      BY <3>3
    <3> QED
      BY <3>1, <3>2, <3>4
  <2>5. inbox'[1].payload \in {last, last + 1}
    <3>1. CASE inbox = <<>>
      BY <3>1, <1>4, <1>5, <2>1 DEF Accepted, Newest
    <3>2. CASE inbox # <<>>
      BY <3>2, <1>5 DEF Chained
    <3> QED
      BY <3>1, <3>2
  <2>6. Rising(outbox)'
    BY <1>2 DEF Chained, Rising
  <2> QED
    BY <1>2, <1>6, <2>2, <2>3, <2>4, <2>5, <2>6 DEF Chained, Rising
<1>14. Behind(inbox)' /\ Behind(outbox)' /\ (acked =< Frames)'
  BY <1>2, <1>3, <1>4, <1>5 DEF Behind
<1>15. NoAckedLoss'
  <2>1. Payloads(inbox) \subseteq Payloads(inbox') /\ Payloads(outbox') = Payloads(outbox)
    BY <1>2, <1>5 DEF Payloads
  <2> QED
    BY <1>2, <2>1 DEF NoAckedLoss
<1> QED
  BY <1>8, <1>9, <1>10, <1>11, <1>12, <1>13, <1>14, <1>15

\* The delivering thread hands the first row of the inbox to the C++ receiver.
LEMMA DeliverSendKeeps ==
  ASSUME RelayInv, DeliverSend
  PROVE  RelayInv'
<1> DEFINE h == [payload |-> first(inbox).payload, live |-> TRUE]
<1> USE DEF RelayInv
<1>1. /\ handoff' = Append(handoff, h) /\ dpc = "send" /\ dpc' = "wait"
      /\ UNCHANGED <<acked, outbox, next_id, inbox, high, spc, tpc, requests, ack, rup, publish_ack, last>>
  BY DEF DeliverSend, deliverRest, sendVars, linkVars
<1>2. inbox # <<>> /\ inbox \in Seq(Rows) /\ handoff \in Seq(Handoffs)
  BY <1>1 DEF Delivering, RelayTypeOK
<1>3. 1 \in DOMAIN inbox /\ first(inbox) = inbox[1]
  BY <1>2, Counted, Tailed DEF first
<1>4. h \in Handoffs /\ h.payload = inbox[1].payload
  BY <1>2, <1>3, Typed DEF Handoffs
<1> HIDE DEF h
<1>5. /\ handoff' \in Seq(Handoffs) /\ Len(handoff') = Len(handoff) + 1
      /\ DOMAIN handoff' = 1 .. Len(handoff) + 1
      /\ DOMAIN handoff = 1 .. Len(handoff) /\ Len(handoff) \in Nat
      /\ \A i \in 1 .. Len(handoff) : handoff'[i] = handoff[i]
      /\ handoff'[Len(handoff) + 1] = h
  BY <1>1, <1>2, <1>4, Appended, Counted
<1>6. Delivering'
  <2> SUFFICES ASSUME NEW i \in 1 .. Len(handoff) + 1
               PROVE  /\ handoff'[i].payload = inbox[1].payload
                      /\ handoff'[i].live => i = Len(handoff) + 1
    BY <1>1, <1>2, <1>5 DEF Delivering
  <2>1. CASE i = Len(handoff) + 1
    BY <2>1, <1>4, <1>5
  <2>2. CASE i \in 1 .. Len(handoff)
    BY <2>2, <1>1, <1>5 DEF Delivering
  <2>3. Len(handoff) \in Nat
    BY <1>5
  <2>4. i = Len(handoff) + 1 \/ i \in 1 .. Len(handoff)
    BY <2>3
  <2> QED
    BY <2>1, <2>2, <2>4
<1>7. Ingesting' /\ Transmitting'
  BY <1>1 DEF Ingesting, Exited, Transmitting, FirstId
<1>8. requests' \in Seq(Requests) /\ ack' \in Nat /\ publish_ack' \in BOOLEAN
  BY <1>1 DEF RelayTypeOK
<1> QED
  BY <1>1, <1>5, <1>6, <1>7, <1>8, TablesKeep

\* Whatever closes the local connection only gives up waiting.
LEMMA LocalClosedKeeps ==
  ASSUME RelayInv,
         DeliverRetry \/ DeliverGiveUp \/ CrashReceiver \/ ReceiverExits
  PROVE  RelayInv'
<1> USE DEF RelayInv
<1>1. /\ UNCHANGED <<acked, outbox, next_id, inbox, high, last, spc, tpc>>
      /\ handoff' = Orphaned(handoff) /\ publish_ack' = FALSE
      /\ \/ UNCHANGED <<requests, ack>>
         \/ requests' = <<>> /\ ack' = 0
      /\ dpc' \in {"loop", "done"} /\ (~rup' => dpc' = "done")
  BY DEF DeliverRetry, DeliverGiveUp, CrashReceiver, ReceiverExits, ReceiverDown, CloseLocal,
         deliverRest, databases, sendVars, linkVars, Delivering
<1>2. /\ handoff' \in Seq(Handoffs) /\ DOMAIN handoff' = DOMAIN handoff
      /\ \A i \in DOMAIN handoff : /\ handoff'[i].payload = handoff[i].payload
                                   /\ ~handoff'[i].live
  BY <1>1, OrphanedHandoff, Zenon DEF RelayTypeOK
<1>3. Delivering'
  BY <1>1, <1>2 DEF Delivering
<1>4. Ingesting'
  BY <1>1 DEF Ingesting, Exited
<1>5. Transmitting'
  BY <1>1, NoRows DEF Transmitting, FirstId
<1>6. requests' \in Seq(Requests) /\ ack' \in Nat
  <2>1. <<>> \in Seq(Requests) /\ 0 \in Nat
    BY EmptySeq
  <2> QED
    BY <1>1, <2>1, Zenon DEF RelayTypeOK
<1>7. publish_ack' \in BOOLEAN
  BY <1>1, Zenon
<1> QED
  BY <1>1, <1>2, <1>3, <1>4, <1>5, <1>6, <1>7, TablesKeep

\* The frame handed over next is that of the inbox's first row; if it is answered it
\* was the only one.
LEMMA HeadHandoff ==
  ASSUME RelayInv, handoff # <<>>
  PROVE  /\ Head(handoff) = handoff[1] /\ handoff[1] \in Handoffs
         /\ inbox # <<>> /\ handoff[1].payload = inbox[1].payload
         /\ handoff[1].live => dpc = "wait" /\ Tail(handoff) = <<>>
         /\ ~publish_ack
         /\ Tail(handoff) \in Seq(Handoffs)
         /\ DOMAIN Tail(handoff) = 1 .. Len(handoff) - 1 /\ DOMAIN handoff = 1 .. Len(handoff)
         /\ Len(handoff) \in Nat \ {0} /\ Len(Tail(handoff)) = Len(handoff) - 1
         /\ \A i \in 1 .. Len(handoff) - 1 : Tail(handoff)[i] = handoff[i + 1]
<1>1. handoff \in Seq(Handoffs)
  BY DEF RelayInv, RelayTypeOK
<1>2. /\ Head(handoff) = handoff[1] /\ handoff[1] \in Handoffs
      /\ Tail(handoff) \in Seq(Handoffs)
      /\ DOMAIN Tail(handoff) = 1 .. Len(handoff) - 1 /\ DOMAIN handoff = 1 .. Len(handoff)
      /\ Len(handoff) \in Nat \ {0} /\ Len(Tail(handoff)) = Len(handoff) - 1
      /\ \A i \in 1 .. Len(handoff) - 1 : Tail(handoff)[i] = handoff[i + 1]
      /\ (Tail(handoff) = <<>> <=> Len(handoff) = 1)
  BY <1>1, Tailed, Counted
<1>3. 1 \in DOMAIN handoff
  BY <1>2
<1> QED
  BY <1>2, <1>3 DEF RelayInv, Delivering

\* When the first frame on the way is gone, the others are still of the first row.
LEMMA TailHandoff ==
  ASSUME RelayInv, handoff # <<>>, handoff' = Tail(handoff), UNCHANGED <<inbox, dpc, rup>>,
         publish_ack' => dpc = "wait" /\ handoff' = <<>> /\ last' = inbox[1].payload
  PROVE  Delivering'
<1>1. ASSUME NEW i \in DOMAIN handoff'
      PROVE  /\ handoff'[i].payload = inbox[1].payload
             /\ handoff'[i].live => dpc = "wait" /\ i = Len(handoff')
  <2>1. i + 1 \in DOMAIN handoff /\ handoff'[i] = handoff[i + 1] /\ Len(handoff') = Len(handoff) - 1
        /\ i \in Nat /\ Len(handoff) \in Nat
    BY HeadHandoff
  <2> QED
    BY <2>1 DEF RelayInv, Delivering
<1>2. inbox # <<>>
  BY HeadHandoff
<1> QED
  BY <1>1, <1>2 DEF Delivering, RelayInv

\* A frame is lost with its connection or with the C++ receiver.
LEMMA HandoffLostKeeps ==
  ASSUME RelayInv, HandoffLost
  PROVE  RelayInv'
<1>1. /\ handoff # <<>> /\ handoff' = Tail(handoff)
      /\ UNCHANGED <<acked, outbox, next_id, inbox, high, spc, tpc, requests, ack, rup, dpc, publish_ack,
                     last>>
  BY DEF HandoffLost, deliverRest, sendVars, linkVars
<1>2. handoff' \in Seq(Handoffs) /\ ~publish_ack
  BY <1>1, HeadHandoff
<1>3. Delivering'
  BY <1>1, <1>2, TailHandoff
<1>4. Ingesting' /\ Transmitting'
  BY <1>1 DEF RelayInv, Ingesting, Exited, Transmitting, FirstId
<1>5. requests' \in Seq(Requests) /\ ack' \in Nat /\ publish_ack' \in BOOLEAN
  BY <1>1 DEF RelayInv, RelayTypeOK
<1> QED
  BY <1>1, <1>2, <1>3, <1>4, <1>5, TablesKeep

\* A publication is the latest frame again or the next one, and not ahead of the
\* application.
LEMMA PublishesNext ==
  ASSUME RelayInv, ReceiverPublishes
  PROVE  /\ last' \in {last, last + 1} /\ last' = inbox[1].payload /\ inbox # <<>>
         /\ last' \in Nat /\ last' =< acked + 1 /\ last' =< Frames
<1>1. handoff # <<>> /\ last' = inbox[1].payload /\ inbox # <<>>
  BY HeadHandoff DEF ReceiverPublishes, publish_frame
<1>2. inbox \in Seq(Rows)
  BY DEF RelayInv, RelayTypeOK
<1>3. 1 \in DOMAIN inbox
  BY <1>1, <1>2, Counted
<1>4. last' \in Nat
  BY <1>1, <1>2, <1>3, Typed
<1> QED
  BY <1>1, <1>3, <1>4 DEF RelayInv, Chained, Behind

\* The C++ receiver publishes the frame, for the first time or once more.
LEMMA ReceiverPublishesKeeps ==
  ASSUME RelayInv, ReceiverPublishes
  PROVE  RelayInv'
<1> USE DEF RelayInv
<1>1. /\ handoff # <<>> /\ handoff' = Tail(handoff)
      /\ publish_ack' = (publish_ack \/ handoff[1].live)
      /\ UNCHANGED <<acked, outbox, next_id, inbox, high, spc, tpc, requests, ack, rup, dpc>>
  BY HeadHandoff DEF ReceiverPublishes, deliverRest, sendVars, linkVars
<1>2. /\ last' \in {last, last + 1} /\ last' = inbox[1].payload /\ inbox # <<>> /\ last' \in Nat
      /\ last \in Nat /\ acked \in Nat
  BY PublishesNext DEF RelayTypeOK
<1>3. Delivering'
  <2>1. ~publish_ack /\ (handoff[1].live => dpc = "wait" /\ Tail(handoff) = <<>>)
    BY <1>1, HeadHandoff
  <2> QED
    BY <1>1, <1>2, <2>1, TailHandoff, Zenon
<1>4. RelayTypeOK'
  <2>1. handoff' \in Seq(Handoffs)
    BY <1>1, HeadHandoff
  <2>2. handoff[1].live \in BOOLEAN
    BY <1>1, HeadHandoff DEF Handoffs
  <2>3. publish_ack' \in BOOLEAN
    BY <1>1, <2>2, Zenon DEF RelayTypeOK
  <2> QED
    BY <1>1, <1>2, <2>1, <2>3 DEF RelayTypeOK
<1>5. Numbered' /\ Ingesting' /\ Transmitting'
  BY <1>1 DEF Numbered, FirstId, Ingesting, Exited, Transmitting
<1>6. Chained'
  BY <1>1, <1>2, Zenon DEF Chained, Rising, Accepted, Submitted, Newest, FirstId
<1>7. Behind(inbox)' /\ Behind(outbox)' /\ (acked =< Frames)'
  BY <1>1 DEF Behind
<1>8. NoAckedLoss'
  BY <1>1, <1>2 DEF NoAckedLoss, Payloads
<1> QED
  BY <1>3, <1>4, <1>5, <1>6, <1>7, <1>8

\* The row that is retired was the frame published latest.
LEMMA DeliverAckedKeeps ==
  ASSUME RelayInv, DeliverAcked
  PROVE  RelayInv'
<1> USE DEF RelayInv
<1>1. /\ dpc = "wait" /\ publish_ack /\ publish_ack' = FALSE /\ inbox' = Tail(inbox) /\ dpc' = "loop"
      /\ UNCHANGED <<acked, outbox, next_id, high, spc, tpc, requests, ack, rup, handoff, last>>
  BY DEF DeliverAcked, deliverRest, sendVars, linkVars, retired
<1>2. inbox # <<>> /\ inbox \in Seq(Rows) /\ high \in Nat /\ handoff = <<>> /\ last = inbox[1].payload
      /\ rup
  BY <1>1 DEF Delivering, RelayTypeOK
<1>3. /\ inbox' \in Seq(Rows) /\ Len(inbox) \in Nat \ {0} /\ Len(inbox') = Len(inbox) - 1
      /\ DOMAIN inbox' = 1 .. Len(inbox) - 1 /\ DOMAIN inbox = 1 .. Len(inbox)
      /\ \A i \in 1 .. Len(inbox) - 1 : inbox'[i] = inbox[i + 1]
      /\ inbox' = <<>> <=> Len(inbox) = 1
  BY <1>1, <1>2, Tailed, Counted
<1>4. RelayTypeOK'
  BY <1>1, <1>3, Zenon DEF RelayTypeOK
<1>5. Numbered'
  <2>1. ASSUME NEW i \in 1 .. Len(inbox) - 1
        PROVE  inbox'[i].id = high' - Len(inbox') + i
    <3>1. i + 1 \in DOMAIN inbox /\ inbox'[i] = inbox[i + 1]
      BY <1>3
    <3>2. inbox[i + 1].id = high - Len(inbox) + (i + 1)
      BY <3>1 DEF Numbered
    <3> QED
      BY <3>1, <3>2, <1>1, <1>2, <1>3
  <2>2. (\A i \in DOMAIN inbox : inbox[i].id = high - Len(inbox) + i)'
    BY <1>3, <2>1
  <2> QED
    BY <1>1, <2>2 DEF Numbered, FirstId
<1>6. Ingesting' /\ Transmitting'
  BY <1>1 DEF Ingesting, Exited, Transmitting, FirstId
<1>7. Delivering'
  BY <1>1, <1>2, NoRows DEF Delivering
<1>8. Accepted' = Accepted
  <2>1. CASE Len(inbox) = 1
    BY <2>1, <1>1, <1>2, <1>3 DEF Accepted, Newest
  <2>2. CASE Len(inbox) # 1
    BY <2>2, <1>1, <1>2, <1>3 DEF Accepted, Newest
  <2> QED
    BY <2>1, <2>2
<1>9. Chained'
  <2>1. Rising(inbox')
    <3> SUFFICES ASSUME NEW i \in 1 .. Len(inbox) - 2
                 PROVE  inbox'[i + 1].payload \in {inbox'[i].payload, inbox'[i].payload + 1}
      BY <1>3 DEF Rising
    <3>1. inbox'[i + 1] = inbox[i + 1 + 1] /\ inbox'[i] = inbox[i + 1] /\ i + 1 \in 1 .. Len(inbox) - 1
      BY <1>3
    <3> QED
      BY <3>1 DEF Chained, Rising
  <2>2. Rising(outbox)' /\ Submitted' = Submitted
    BY <1>1, <1>8 DEF Chained, Rising, Submitted, Newest
  <2>3. (inbox # <<>> => inbox[1].payload \in {last, last + 1})'
    BY <1>1, <1>2, <1>3, SMTT(30) DEF Chained, Rising
  <2> QED
    BY <1>1, <1>8, <2>1, <2>2, <2>3 DEF Chained, Rising, FirstId
<1>10. Behind(inbox)' /\ Behind(outbox)' /\ (acked =< Frames)'
  BY <1>1, <1>3 DEF Behind
<1>11. NoAckedLoss'
  <2> SUFFICES ASSUME NEW f \in (last + 1) .. acked, f \in Payloads(inbox)
               PROVE  f \in Payloads(inbox')
    BY <1>1 DEF NoAckedLoss, Payloads
  <2>1. PICK i \in 1 .. Len(inbox) : f = inbox[i].payload
    BY <1>3 DEF Payloads
  <2>2. i # 1
    BY <2>1, <1>2 DEF RelayTypeOK
  <2>3. i - 1 \in DOMAIN inbox' /\ inbox'[i - 1] = inbox[i]
    BY <2>2, <1>3
  <2> QED
    BY <2>1, <2>3 DEF Payloads
<1> QED
  BY <1>4, <1>5, <1>6, <1>7, <1>9, <1>10, <1>11

-----------------------------------------------------------------------------
(* Theorems *)

\* Every step of the relays and of their surroundings keeps the invariant, ...
LEMMA StepKeeps ==
  ASSUME RelayInv, [Next]_vars
  PROVE  RelayInv'
<1>1. CASE Ingress
  BY <1>1, ControlKeeps, EnqueueKeeps, AckSubmitterKeeps DEF Ingress
<1>2. CASE Ending \/ RaiseFailed
  BY <1>2, ControlKeeps DEF Ending
<1>3. CASE TransmitStep \/ TransmitGiveUp \/ CrashSender
  BY <1>3, ControlKeeps, TransmitSendKeeps, TransmitAckedKeeps, StreamClosedKeeps DEF TransmitStep
<1>4. CASE Serve \/ RequestLost
  BY <1>4, ServeNewKeeps, RequestDroppedKeeps DEF Serve
<1>5. CASE DeliverStep \/ ReceiverPublishes \/ HandoffLost
  BY <1>5, ControlKeeps, DeliverSendKeeps, DeliverAckedKeeps, ReceiverPublishesKeeps,
     HandoffLostKeeps DEF DeliverStep
<1>6. CASE DeliverRetry \/ DeliverGiveUp \/ CrashReceiver \/ ReceiverExits
  BY <1>6, LocalClosedKeeps
<1>7. CASE Restart
  BY <1>7, ControlKeeps DEF Restart
<1>8. CASE UNCHANGED vars
  <2>1. /\ UNCHANGED <<acked, outbox, next_id, inbox, high, last>>
        /\ UNCHANGED <<spc, tpc, requests, ack, rup, dpc, handoff, publish_ack>>
    BY <1>8 DEF vars, databases, sendVars, linkVars, localVars
  <2>2. Ingesting' /\ Transmitting' /\ Delivering'
    BY <2>1 DEF RelayInv, Ingesting, Exited, Transmitting, Delivering, FirstId
  <2>3. requests' \in Seq(Requests) /\ ack' \in Nat /\ handoff' \in Seq(Handoffs)
        /\ publish_ack' \in BOOLEAN
    BY <2>1 DEF RelayInv, RelayTypeOK
  <2> QED
    BY <2>1, <2>2, <2>3, TablesKeep
<1> QED
  BY <1>1, <1>2, <1>3, <1>4, <1>5, <1>6, <1>7, <1>8 DEF Next

\* ... so it holds in every state.
LEMMA RelayInvariance == Spec => []RelayInv
<1>1. RelayInv /\ [Next]_vars => RelayInv'
  BY StepKeeps
<1> QED
  BY InitKeeps, <1>1, PTL DEF Spec

\* No acknowledged frame is lost, for any number of frames, any spool limit and any
\* number of connection errors, crashes and restarts on either side.
THEOREM AckedFramesKept == Spec => []NoAckedLoss
<1>1. RelayInv => NoAckedLoss
  BY DEF RelayInv
<1> QED
  BY <1>1, RelayInvariance, PTL

\* Rows enter the inbox once and in order, and store.accept never meets a gap.
THEOREM InboxInSequence == Spec => []SequenceKept
<1>1. RelayInv => SequenceKept
  <2> SUFFICES ASSUME RelayInv PROVE SequenceKept
    OBVIOUS
  <2>1. FirstId =< high + 1
    <3>1. FirstId \in Int /\ high \in Nat
      BY Counted DEF RelayInv, RelayTypeOK, FirstId
    <3> QED
      BY <3>1 DEF RelayInv, Numbered
  <2>2. \A i \in DOMAIN requests : requests[i].id = FirstId
    BY DEF RelayInv, Transmitting
  <2>3. \A i \in DOMAIN inbox : inbox[i].id = high - Len(inbox) + i
    BY DEF RelayInv, Numbered
  <2> QED
    BY <2>1, <2>2, <2>3 DEF SequenceKept
<1> QED
  BY <1>1, RelayInvariance, PTL

\* The relay pair implements the in-order, at-least-once channel: every step is an
\* acceptance, the delivery of the next frame, or neither.
THEOREM RelayRefinesChannel == Spec => DeliversInOrder
<1>1. Init => Promise!Init
  BY DEF Init, Promise!Init
<1>2. ASSUME RelayInv, [Next]_vars
      PROVE  [Promise!Next]_<<acked, last>>
  <2>1. acked \in Nat /\ last \in Nat
    BY <1>2 DEF RelayInv, RelayTypeOK
  <2>2. CASE AckSubmitter
    <3>1. acked' = acked + 1 /\ last' = last /\ acked < Frames
      BY <2>2, <1>2 DEF AckSubmitter, localVars, RelayInv, Ingesting
    <3> QED
      BY <3>1 DEF Promise!Next, Promise!Accept
  <2>3. CASE ReceiverPublishes
    <3>1. last' \in {last, last + 1} /\ last' =< acked + 1 /\ last' =< Frames
      BY <2>3, <1>2, PublishesNext
    <3>2. acked' = acked
      BY <2>3 DEF ReceiverPublishes, deliverRest
    <3> QED
      BY <2>1, <3>1, <3>2 DEF Promise!Next, Promise!Deliver
  <2>4. CASE Accept \/ ReadFrame \/ Enqueue \/ IngressDone \/ Ending \/ RaiseFailed
    BY <2>4 DEF Accept, ReadFrame, Enqueue, IngressDone, Ending, Drained, RaiseStopped, Leave,
                RaiseFailed, localVars
  <2>5. CASE TransmitStep \/ TransmitGiveUp \/ CrashSender
    BY <2>5, Zenon DEF TransmitStep, TransmitFirst, TransmitEmpty, TransmitStopped, TransmitSend,
                TransmitAcked, TransmitRetry, TransmitUnwrap, TransmitUnwrapFails, TransmitGiveUp,
                CrashSender, transmitRest, localVars
  <2>6. CASE Serve \/ RequestLost
    BY <2>6 DEF Serve, ServeNew, ServeDuplicate, ServeRejected, RequestLost, serverRest, localVars
  <2>7. CASE DeliverStep \/ DeliverRetry \/ DeliverGiveUp \/ HandoffLost
    BY <2>7 DEF DeliverStep, DeliverFirst, DeliverSend, DeliverAcked, DeliverRetry, DeliverGiveUp,
                HandoffLost, CloseLocal, deliverRest, localVars
  <2>8. CASE CrashReceiver \/ ReceiverExits \/ Restart
    BY <2>8 DEF CrashReceiver, ReceiverExits, ReceiverDown, CloseLocal, Restart, RestartSender,
                RestartReceiver, localVars
  <2>9. CASE UNCHANGED vars
    BY <2>9 DEF vars, localVars
  <2> QED
    BY <1>2, <2>2, <2>3, <2>4, <2>5, <2>6, <2>7, <2>8, <2>9 DEF Next, Ingress
<1>3. RelayInv /\ [Next]_vars => [Promise!Next]_<<acked, last>>
  BY <1>2
<1> QED
  BY <1>1, <1>3, RelayInvariance, PTL DEF Spec, DeliversInOrder, Promise!Spec
=============================================================================
