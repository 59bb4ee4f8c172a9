---------------------------- MODULE DurableRelay ----------------------------
(***************************************************************************)
(* The durable relay pair of scripts/durable_relay.py: a sending relay     *)
(* (an ingress loop and a transmit thread sharing an SQLite outbox) and a  *)
(* receiving relay (a server loop and a deliver thread sharing an SQLite   *)
(* inbox), the TLS connection between them and the Unix stream from the    *)
(* deliver thread to the C++ receiver.                                     *)
(*                                                                         *)
(* The application submits frames 1, 2, ..., Frames; a sender that lost    *)
(* its relay resumes with the first frame that was not acknowledged to it. *)
(* The databases survive a crash, everything else is lost.  Every store    *)
(* operation is one SQLite transaction under the store's mutex, so it is   *)
(* atomic.  Rows have unit size and Limit bounds their number (it stands   *)
(* for --spool-bytes).                                                     *)
(*                                                                         *)
(* Only the transmit thread retires outbox rows and only the deliver       *)
(* thread retires inbox rows, so the row each of them holds in a local is  *)
(* the head of its table until it retires it.                              *)
(***************************************************************************)
EXTENDS Integers, Sequences

CONSTANTS Frames,      \* the application submits frames 1..Frames
          Limit,       \* rows an outbox or an inbox may hold
          MaxErrors,   \* bound: transient connection errors and timeouts
          MaxOutages   \* bound: crashes, kills and expired deadlines

ASSUME RelayAssumption ==
  /\ Frames \in Nat /\ MaxErrors \in Nat /\ MaxOutages \in Nat
  /\ Limit \in Nat \ {0}

VARIABLES
  acked,         \* frames 1..acked were acknowledged to the application
  outbox,        \* sending relay's pending rows, in id order
  next_id,       \* its AUTOINCREMENT counter: id of the next row
  spc,           \* sending relay's main thread
  tpc,           \* its transmit thread
  ingress_done, stop, failed,     \* the two events; failures # []
  stream,        \* transmit's TLS stream: "none", "up" or "broken"
  requests,      \* frames sent to the receiving relay, not yet handled
  ack,           \* acknowledgement on its way back on the stream (0: none)
  inbox,         \* receiving relay's pending rows
  high,          \* received.high of the sending relay's session
  rup,           \* the receiving relay's server loop runs
  dpc,           \* its deliver thread
  handoff,       \* frames written to the C++ receiver, not yet handled
  publish_ack,   \* the receiver's acknowledgement is on its way back
  last,          \* frame published latest by the C++ receiver (history)
  errors, outages                 \* budgets spent

databases == <<outbox, next_id, inbox, high>>
sendVars == <<spc, tpc, ingress_done, stop, failed>>
linkVars == <<stream, requests, ack>>
localVars == <<handoff, publish_ack, last>>
budgets == <<errors, outages>>
vars == <<acked, databases, sendVars, linkVars, rup, dpc, localVars, budgets>>

Init ==
  /\ acked = 0 /\ last = 0
  /\ outbox = <<>> /\ next_id = 1 /\ inbox = <<>> /\ high = 0
  /\ spc = "accept" /\ tpc = "loop"
  /\ ingress_done = FALSE /\ stop = FALSE /\ failed = FALSE
  /\ stream = "none" /\ requests = <<>> /\ ack = 0
  /\ rup = TRUE /\ dpc = "loop"
  /\ handoff = <<>> /\ publish_ack = FALSE
  /\ errors = 0 /\ outages = 0

Payloads(rows) == {rows[i].payload : i \in DOMAIN rows}

\* Frames already in a socket buffer can still be read by the peer after
\* the connection they were sent on was closed; nobody waits for an answer.
Orphaned(frames) == [i \in DOMAIN frames |-> [frames[i] EXCEPT !.live = FALSE]]

Glitch == errors < MaxErrors /\ errors' = errors + 1 /\ UNCHANGED outages

Outage == outages < MaxOutages /\ outages' = outages + 1 /\ UNCHANGED errors

----------------------------------------------------------------------------
(* The store *)

first(rows) == Head(rows)

retired(rows) == Tail(rows)

Full(rows) == Len(rows) >= Limit

enqueue(payload) ==
  /\ ~Full(outbox)
  /\ outbox' = Append(outbox, [id |-> next_id, payload |-> payload])
  /\ next_id' = next_id + 1
  /\ UNCHANGED <<inbox, high>>

----------------------------------------------------------------------------
(* Sending relay, main thread *)

\* A submitter connects to the Unix socket.
Accept ==
  /\ spc = "accept" /\ ~stop
  /\ spc' = "read"
  /\ UNCHANGED <<acked, databases, tpc, ingress_done, stop, failed, linkVars,
                 rup, dpc, localVars, budgets>>

\* local_frame returns the submitter's next frame.
ReadFrame ==
  /\ spc = "read" /\ acked < Frames
  /\ spc' = "enqueue"
  /\ UNCHANGED <<acked, databases, tpc, ingress_done, stop, failed, linkVars,
                 rup, dpc, localVars, budgets>>

\* Mutant of Enqueue: a full spool drops the frame and still acknowledges it.
EnqueueDrops ==
  /\ spc = "enqueue"
  /\ \/ enqueue(acked + 1)
     \/ Full(outbox) /\ UNCHANGED databases
  /\ spc' = "ack"
  /\ UNCHANGED <<acked, tpc, ingress_done, stop, failed, linkVars, rup, dpc,
                 localVars, budgets>>

Enqueue ==
  /\ spc = "enqueue"
  /\ enqueue(acked + 1)
  /\ spc' = "ack"
  /\ UNCHANGED <<acked, tpc, ingress_done, stop, failed, linkVars, rup, dpc,
                 localVars, budgets>>

\* The acknowledgement byte; then the loop looks at the stop event.
AckSubmitter ==
  /\ spc = "ack"
  /\ acked' = acked + 1
  /\ spc' = IF stop THEN "drain" ELSE "read"
  /\ ingress_done' = stop
  /\ UNCHANGED <<databases, tpc, stop, failed, linkVars, rup, dpc, localVars,
                 budgets>>

\* Mutant of IngressDone: the event is never set.
IngressDoneUnset ==
  /\ spc = "read"
  /\ spc' = "drain"
  /\ UNCHANGED <<acked, databases, tpc, ingress_done, stop, failed, linkVars,
                 rup, dpc, localVars, budgets>>

\* The submitter closed its end.
IngressDone ==
  /\ spc = "read"
  /\ ingress_done' = TRUE
  /\ spc' = "drain"
  /\ UNCHANGED <<acked, databases, tpc, stop, failed, linkVars, rup, dpc,
                 localVars, budgets>>

\* The drain is complete: the process exits with status 0.
Drained ==
  /\ spc = "drain" /\ tpc = "done" /\ ~failed
  /\ spc' = "exit0" /\ stop' = TRUE
  /\ UNCHANGED <<acked, databases, tpc, ingress_done, failed, linkVars, rup,
                 dpc, localVars, budgets>>

\* The main thread raises after the other thread gave up: the stop event ends
\* accept and a full enqueue, the socket timeout ends a read from a silent
\* submitter, a recorded failure ends the drain ...
RaiseStopped ==
  /\ \/ spc \in {"accept", "read"} /\ stop
     \/ spc = "enqueue" /\ stop /\ Full(outbox)
     \/ spc = "drain" /\ tpc = "done" /\ failed
  /\ spc' = "leave" /\ stop' = TRUE
  /\ UNCHANGED <<acked, databases, tpc, ingress_done, failed, linkVars, rup,
                 dpc, localVars, budgets>>

\* ... or because of a timeout, an expired deadline, a truncated frame, a
\* submitter that is gone or a signal.
RaiseFailed ==
  /\ \/ spc \in {"accept", "read", "ack"}
     \/ spc = "enqueue" /\ Full(outbox)
     \/ spc = "drain" /\ tpc # "done"
  /\ Outage
  /\ spc' = "leave" /\ stop' = TRUE
  /\ UNCHANGED <<acked, databases, tpc, ingress_done, failed, linkVars, rup,
                 dpc, localVars>>

\* The finally block joins the worker and closes the store.
Leave ==
  /\ spc = "leave" /\ tpc = "done"
  /\ spc' = "exit1"
  /\ UNCHANGED <<acked, databases, tpc, ingress_done, stop, failed, linkVars,
                 rup, dpc, localVars, budgets>>

----------------------------------------------------------------------------
(* Sending relay, transmit thread *)

transmitRest == <<acked, next_id, inbox, high, spc, ingress_done, rup, dpc,
                  localVars>>

\* Top of the loop: the head of the outbox, if there is one.
TransmitFirst ==
  /\ tpc = "loop" /\ ~stop
  /\ tpc' = IF outbox = <<>> THEN "empty" ELSE "send"
  /\ UNCHANGED <<transmitRest, outbox, stop, failed, linkVars, budgets>>

\* first() found nothing: only now is ingress_done looked at.
TransmitEmpty ==
  /\ tpc = "empty"
  /\ tpc' = IF ingress_done THEN "unwrap" ELSE "loop"
  /\ UNCHANGED <<transmitRest, outbox, stop, failed, linkVars, budgets>>

TransmitStopped ==
  /\ tpc = "loop" /\ stop
  /\ tpc' = "unwrap"
  /\ UNCHANGED <<transmitRest, outbox, stop, failed, linkVars, budgets>>

\* Connects if necessary and writes the row to the stream.
TransmitSend ==
  /\ tpc = "send"
  /\ stream = "up" \/ (stream = "none" /\ rup)
  /\ stream' = "up"
  /\ requests' = Append(requests, [id |-> first(outbox).id,
                                   payload |-> first(outbox).payload,
                                   live |-> TRUE])
  /\ tpc' = "wait"
  /\ UNCHANGED <<transmitRest, outbox, stop, failed, ack, budgets>>

\* The acknowledgement of the row arrived: the row is retired.
TransmitAcked ==
  /\ tpc = "wait" /\ ack = first(outbox).id
  /\ ack' = 0
  /\ outbox' = retired(outbox)
  /\ tpc' = "loop"
  /\ UNCHANGED <<transmitRest, stop, failed, stream, requests, budgets>>

\* Mutant of CloseStream: the broken stream is kept for the next attempt.
CloseStreamKeeps ==
  /\ UNCHANGED stream
  /\ requests' = Orphaned(requests)
  /\ ack' = 0

CloseStream ==
  /\ stream' = "none"
  /\ requests' = Orphaned(requests)
  /\ ack' = 0

Refused == stream = "broken" \/ (stream = "none" /\ ~rup)

\* A connection error closes the stream; the row is tried again.
TransmitRetry ==
  /\ tpc \in {"send", "wait"}
  /\ IF Refused THEN UNCHANGED budgets ELSE Glitch
  /\ CloseStream
  /\ tpc' = "loop"
  /\ UNCHANGED <<transmitRest, outbox, stop, failed>>

\* The same after the retry deadline: the thread gives up.
TransmitGiveUp ==
  /\ tpc \in {"send", "wait"}
  /\ Outage
  /\ CloseStream
  /\ failed' = TRUE /\ stop' = TRUE
  /\ tpc' = "done"
  /\ UNCHANGED <<transmitRest, outbox>>

\* After the loop the TLS session is shut down, which needs a live peer.
TransmitUnwrap ==
  /\ tpc = "unwrap" /\ stream # "broken"
  /\ CloseStream
  /\ tpc' = "done"
  /\ UNCHANGED <<transmitRest, outbox, stop, failed, budgets>>

TransmitUnwrapFails ==
  /\ tpc = "unwrap" /\ stream # "none"
  /\ IF stream = "broken" THEN UNCHANGED budgets ELSE Glitch
  /\ CloseStream
  /\ failed' = TRUE /\ stop' = TRUE
  /\ tpc' = "done"
  /\ UNCHANGED <<transmitRest, outbox>>

----------------------------------------------------------------------------
(* Receiving relay, server loop: one connection at a time, in order *)

serverRest == <<acked, outbox, next_id, sendVars, dpc, localVars, budgets>>

\* The acknowledgement of a handled request, if its stream is still open.
Acknowledge(r) == ack' = IF r.live THEN r.id ELSE ack

\* store.accept commits a new row and the session's high mark together.
ServeNew ==
  /\ rup /\ requests # <<>>
  /\ LET r == Head(requests) IN
     /\ r.id = high + 1 /\ ~Full(inbox)
     /\ inbox' = Append(inbox, [id |-> r.id, payload |-> r.payload])
     /\ high' = r.id
     /\ Acknowledge(r)
  /\ requests' = Tail(requests)
  /\ UNCHANGED <<serverRest, rup, stream>>

\* Mutant of ServeDuplicate: a repeated row is stored again.
ServeDuplicateStores ==
  /\ rup /\ requests # <<>>
  /\ LET r == Head(requests) IN
     /\ r.id =< high
     /\ inbox' = Append(inbox, [id |-> r.id, payload |-> r.payload])
     /\ Acknowledge(r)
  /\ requests' = Tail(requests)
  /\ UNCHANGED <<serverRest, high, rup, stream>>

\* A repeated row is acknowledged again without being stored.
ServeDuplicate ==
  /\ rup /\ requests # <<>>
  /\ Head(requests).id =< high
  /\ Acknowledge(Head(requests))
  /\ requests' = Tail(requests)
  /\ UNCHANGED <<serverRest, inbox, high, rup, stream>>

\* accept raises (full inbox, sequence gap): the connection is closed.
ServeRejected ==
  /\ rup /\ requests # <<>>
  /\ LET r == Head(requests) IN
     /\ r.id > high /\ ~(r.id = high + 1 /\ ~Full(inbox))
     /\ stream' = IF r.live THEN "broken" ELSE stream
  /\ requests' = Tail(requests)
  /\ UNCHANGED <<serverRest, inbox, high, rup, ack>>

\* The data of an abandoned connection may never be read.
RequestLost ==
  /\ requests # <<>> /\ ~Head(requests).live
  /\ requests' = Tail(requests)
  /\ UNCHANGED <<serverRest, inbox, high, rup, stream, ack>>

----------------------------------------------------------------------------
(* Receiving relay, deliver thread, and the C++ receiver it feeds *)

deliverRest == <<acked, outbox, next_id, high, sendVars, linkVars, rup>>

DeliverFirst ==
  /\ dpc = "loop" /\ inbox # <<>>
  /\ dpc' = "send"
  /\ UNCHANGED <<deliverRest, inbox, localVars, budgets>>

DeliverSend ==
  /\ dpc = "send"
  /\ handoff' = Append(handoff, [payload |-> first(inbox).payload, live |-> TRUE])
  /\ dpc' = "wait"
  /\ UNCHANGED <<deliverRest, inbox, publish_ack, last, budgets>>

\* The receiver acknowledged publication: the inbox row is retired.
DeliverAcked ==
  /\ dpc = "wait" /\ publish_ack
  /\ publish_ack' = FALSE
  /\ inbox' = retired(inbox)
  /\ dpc' = "loop"
  /\ UNCHANGED <<deliverRest, handoff, last, budgets>>

CloseLocal ==
  /\ handoff' = Orphaned(handoff)
  /\ publish_ack' = FALSE
  /\ UNCHANGED last

\* Mutant of DeliverRetry: the row is retired although it was not acknowledged.
DeliverRetryDrops ==
  /\ dpc \in {"send", "wait"}
  /\ Glitch
  /\ CloseLocal
  /\ inbox' = retired(inbox)
  /\ dpc' = "loop"
  /\ UNCHANGED deliverRest

\* A local error, a refusal by the receiver or a receiver restart.
DeliverRetry ==
  /\ dpc \in {"send", "wait"}
  /\ Glitch
  /\ CloseLocal
  /\ dpc' = "loop"
  /\ UNCHANGED <<deliverRest, inbox>>

DeliverGiveUp ==
  /\ dpc \in {"send", "wait"}
  /\ Outage
  /\ CloseLocal
  /\ dpc' = "done"
  /\ UNCHANGED <<deliverRest, inbox>>

\* The frame goes to the ring, unless it is the latest one again.
publish_frame(payload) == last' = payload

\* The C++ receiver publishes and then answers.
ReceiverPublishes ==
  /\ handoff # <<>>
  /\ publish_frame(Head(handoff).payload)
  /\ publish_ack' = (publish_ack \/ Head(handoff).live)
  /\ handoff' = Tail(handoff)
  /\ UNCHANGED <<deliverRest, inbox, dpc, budgets>>

\* It closes the broken connection with the rest of it unread.
HandoffLost ==
  /\ handoff # <<>> /\ ~Head(handoff).live
  /\ handoff' = Tail(handoff)
  /\ UNCHANGED <<deliverRest, inbox, dpc, publish_ack, last, budgets>>

----------------------------------------------------------------------------
(* Crashes and restarts *)

CrashSender ==
  /\ spc \notin {"exit0", "exit1", "down"}
  /\ Outage
  /\ spc' = "down" /\ tpc' = "done"
  /\ CloseStream
  /\ UNCHANGED <<acked, databases, ingress_done, stop, failed, rup, dpc,
                 localVars>>

\* The relay is started again on its database, with or without --replay-only.
RestartSender ==
  /\ spc \in {"exit0", "exit1", "down"}
  /\ \E replay_only \in BOOLEAN :
       /\ spc' = IF replay_only THEN "drain" ELSE "accept"
       /\ ingress_done' = replay_only
  /\ tpc' = "loop" /\ stop' = FALSE /\ failed' = FALSE
  /\ UNCHANGED <<acked, databases, linkVars, rup, dpc, localVars, budgets>>

ReceiverDown ==
  /\ rup' = FALSE /\ dpc' = "done"
  /\ stream' = IF stream = "up" THEN "broken" ELSE stream
  /\ requests' = <<>> /\ ack' = 0
  /\ CloseLocal
  /\ UNCHANGED <<acked, databases, sendVars>>

CrashReceiver == rup /\ Outage /\ ReceiverDown

\* The server loop sees the stop event the deliver thread set.
ReceiverExits == rup /\ dpc = "done" /\ ReceiverDown /\ UNCHANGED budgets

RestartReceiver ==
  /\ ~rup
  /\ rup' = TRUE /\ dpc' = "loop"
  /\ UNCHANGED <<acked, databases, sendVars, linkVars, localVars, budgets>>

----------------------------------------------------------------------------
Ingress == Accept \/ ReadFrame \/ Enqueue \/ AckSubmitter \/ IngressDone
Ending == Drained \/ RaiseStopped \/ Leave
TransmitStep ==
  TransmitFirst \/ TransmitEmpty \/ TransmitStopped \/ TransmitSend
  \/ TransmitAcked \/ TransmitRetry \/ TransmitUnwrap \/ TransmitUnwrapFails
Serve == ServeNew \/ ServeDuplicate \/ ServeRejected
DeliverStep == DeliverFirst \/ DeliverSend \/ DeliverAcked
Restart == RestartSender \/ RestartReceiver

Next ==
  \/ Ingress \/ Ending \/ RaiseFailed
  \/ TransmitStep \/ TransmitGiveUp
  \/ Serve \/ RequestLost
  \/ DeliverStep \/ DeliverRetry \/ DeliverGiveUp
  \/ ReceiverPublishes \/ HandoffLost
  \/ CrashSender \/ CrashReceiver \/ ReceiverExits \/ Restart

Spec == Init /\ [][Next]_vars

\* Threads keep running, and whoever operates the relays starts one that
\* ended again.  The application need not submit anything.
Fairness ==
  /\ WF_vars(Enqueue) /\ WF_vars(AckSubmitter) /\ WF_vars(Ending)
  /\ WF_vars(TransmitStep)
  /\ WF_vars(Serve) /\ WF_vars(DeliverStep) /\ WF_vars(ReceiverPublishes)
  /\ WF_vars(ReceiverExits) /\ WF_vars(RestartSender) /\ WF_vars(RestartReceiver)

FairSpec == Spec /\ Fairness

----------------------------------------------------------------------------
(* Properties *)

Rows == [id : Nat \ {0}, payload : Nat \ {0}]

\* A frame acknowledged to the application is never lost: until the C++
\* receiver has published it, it is a row of the outbox or of the inbox,
\* whatever crashed in between (enqueue before the ACK byte, accept before
\* the network ACK, retire after the ACK).
NoAckedLoss ==
  \A f \in (last + 1) .. acked : f \in Payloads(outbox) \union Payloads(inbox)

\* Rows enter the inbox exactly once and in outbox order, although requests are
\* repeated and either side crashes: the pending rows carry the ids just below
\* and at high (store.accept's duplicate test and its high mark), and accept never
\* has to raise "durable sequence gap".
SequenceKept ==
  /\ \A i \in DOMAIN inbox : inbox[i].id = high - Len(inbox) + i
  /\ \A i \in DOMAIN requests : requests[i].id =< high + 1

Promise == INSTANCE FifoAtLeastOnce

\* The pair implements the in-order, at-least-once channel: a publication
\* repeats the latest frame or is the next one, and nothing is invented.
DeliversInOrder == Promise!Spec

\* Every acknowledged frame is eventually published, if the relays are run
\* again after they end and errors and outages stop.
AckedIsDelivered == \A f \in 1 .. Frames : acked >= f ~> last >= f

\* After the end of ingress the sending relay ends: the drain can neither
\* hang on the worker nor miss its end.
DrainEnds == spc = "drain" ~> spc \in {"exit0", "exit1", "down"}

\* A sending relay that exits with status 0 has drained its outbox.
CleanExitDrained == spc = "exit0" => outbox = <<>>
=============================================================================
