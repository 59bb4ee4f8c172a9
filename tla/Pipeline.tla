------------------------------ MODULE Pipeline -------------------------------
(***************************************************************************)
(* Receivers, what feeds them and who reads from them: the delivery thread *)
(* of the durable relay (deliver() of scripts/durable_relay.py) or a       *)
(* sender without acknowledgements on a Unix stream, a datagram network,   *)
(* and consumers (run() of harness/src/consumer.cpp) on the receivers'     *)
(* ring.                                                                   *)
(***************************************************************************)
EXTENDS Receiver

CONSTANTS
  MaxConns       \* bound: connections that the feeding side makes

VARIABLES
  ppc,           \* where the feeding side is
  item,          \* the first of Feed that it has not got rid of
  read_index,    \* each consumer's position in the ring
  got            \* what each consumer recorded, in order

pipelineVars == <<segmentVars, receiverVars, ppc, item, read_index, got>>

Init ==
  /\ SegmentInit /\ ReceiverInit
  /\ ppc = IF Stream THEN "idle" ELSE "done"
  /\ item = 1
  /\ read_index = [r \in Readers |-> 0] /\ got = [r \in Readers |-> <<>>]

consumerVars == <<read_index, got>>

-----------------------------------------------------------------------------
(* The feeding side; its connection is the last one *)

PeerStep(from, to) == ppc = from /\ ppc' = to
Mine == conns[Len(conns)]
WithMine(conn) == conns' = [conns EXCEPT ![Len(conns)] = conn]
KeptByPeer == <<segmentVars, opts, net, path, vpc, sock, inbox, storeVars, consumerVars>>

\* connect, to a listener that is alive.
Connect ==
  /\ PeerStep("idle", "prefix") /\ item =< Len(Feed) /\ Len(conns) < MaxConns
  /\ path # NoObject /\ vpc[path] # "gone"
  /\ conns' = Append(conns, [units |-> <<>>, acks |-> <<>>, peer |-> TRUE, end |-> "queued"])
  /\ UNCHANGED <<KeptByPeer, item>>

\* A frame goes out in pieces; here, its length and the rest.
SendPrefix ==
  /\ PeerStep("prefix", "body") /\ item =< Len(Feed) /\ Mine.end # "closed"
  /\ WithMine([Mine EXCEPT !.units = Append(@, <<"prefix", item>>)])
  /\ UNCHANGED <<KeptByPeer, item>>

SendBody ==
  /\ PeerStep("body", IF opts.ack THEN "await" ELSE "prefix") /\ Mine.end # "closed"
  /\ WithMine([Mine EXCEPT !.units = Append(@, <<"body", item>>)])
  /\ item' = IF opts.ack THEN item ELSE item + 1
  /\ UNCHANGED KeptByPeer

\* The relay retires what was acknowledged.
Retire ==
  /\ PeerStep("await", "prefix") /\ Mine.acks # <<>> /\ Head(Mine.acks) = "ack"
  /\ WithMine([Mine EXCEPT !.acks = Tail(@)])
  /\ item' = item + 1
  /\ UNCHANGED KeptByPeer

\* A timeout, the end of the stream or a negative answer.  The relay closes the
\* connection and tries again; a sender gives up.
PeerFails ==
  /\ ppc \in {"prefix", "body", "await"} /\ item =< Len(Feed)
  /\ ppc' = IF opts.ack THEN "idle" ELSE "failed"
  /\ WithMine([Mine EXCEPT !.peer = FALSE, !.acks = <<>>])
  /\ UNCHANGED <<KeptByPeer, item>>

\* --retry-seconds have passed.
PeerGivesUp == PeerStep("idle", "failed") /\ UNCHANGED <<KeptByPeer, conns, item>>

PeerDone ==
  /\ PeerStep("prefix", "done") /\ item > Len(Feed)
  /\ WithMine([Mine EXCEPT !.peer = FALSE, !.acks = <<>>])
  /\ UNCHANGED <<KeptByPeer, item>>

Feeding == \/ Connect \/ SendPrefix \/ SendBody \/ Retire \/ PeerFails \/ PeerGivesUp \/ PeerDone

-----------------------------------------------------------------------------
(* A consumer *)

KeptByConsumer == <<opts, net, conns, path, vpc, sock, inbox, streams, rings, echoed, mangled, ppc, item>>

\* attach registers it in the ring, at cursor 0.
Enter(r) ==
  /\ Attach(r)
  /\ registry' = [registry EXCEPT ![fd[r]] = @ \cup {r}]
  /\ UNCHANGED <<KeptByConsumer, cursor, consumerVars>>

Ring(r) == rings[fd[r]]

\* A consumer that was lapped goes on with the oldest message kept.
Position(r) == IF Len(Ring(r)) > read_index[r] + Slots THEN Len(Ring(r)) - Slots ELSE read_index[r]

\* kOk, with the cursor moved on; a message that is not valid ends the consumer.
Consume(r) ==
  LET m == Ring(r)[Position(r) + 1]
  IN  /\ rpc[r] = "attached" /\ read_index[r] < Len(Ring(r))
      /\ read_index' = [read_index EXCEPT ![r] = Position(r) + 1]
      /\ cursor' = [cursor EXCEPT ![r] = Position(r) + 1]
      /\ got' = IF validate_frame(m) THEN [got EXCEPT ![r] = Append(@, m)] ELSE got
      /\ rpc' = IF validate_frame(m) THEN rpc ELSE [rpc EXCEPT ![r] = "failed"]
      /\ registry' = IF validate_frame(m) THEN registry ELSE [registry EXCEPT ![fd[r]] = @ \ {r}]
      /\ UNCHANGED <<KeptByConsumer, name, stage, cpc, fd>>

\* The count is met, the idle timeout or a signal: the report is printed and the
\* entry removed.
Leave(r) ==
  /\ Detach(r, "done")
  /\ registry' = [registry EXCEPT ![fd[r]] = @ \ {r}]
  /\ UNCHANGED <<KeptByConsumer, cursor, consumerVars>>

ConsumerStep(r) ==
  \/ Mapping(r) /\ UNCHANGED <<receiverVars, ppc, item, consumerVars>>
  \/ Enter(r) \/ Consume(r) \/ Leave(r)

\* A killed consumer stays registered.
KillConsumer(r) == KillReader(r) /\ UNCHANGED <<receiverVars, ppc, item, consumerVars>>

\* The keys that a consumer has met.
Keys(r) == {m.key : m \in ToSet(got[r])}
OfKey(r, key) == SelectSeq(got[r], LAMBDA m : m.key = key)
Numbers(r, key) == {m.seq_id : m \in ToSet(OfKey(r, key))}

\* Accumulator::report of one stream.
expected(r, key) == Max(Numbers(r, key)) - Min(Numbers(r, key)) + 1
dropped(r, key) ==
  IF expected(r, key) > Len(OfKey(r, key)) THEN expected(r, key) - Len(OfKey(r, key)) ELSE 0

\* Mutant: one range of numbers for all streams.
ReportOverall(r) ==
  LET numbers == {m.seq_id : m \in ToSet(got[r])}
  IN  IF numbers = {} THEN 0
      ELSE LET all == Max(numbers) - Min(numbers) + 1
           IN  IF all > Len(got[r]) THEN all - Len(got[r]) ELSE 0

\* The consumer's report adds them up.
Report(r) == MapThenSumSet(LAMBDA key : dropped(r, key), Keys(r))

-----------------------------------------------------------------------------
Next ==
  \/ \E c \in Creators : \/ ReceiverStep(c) /\ UNCHANGED <<ppc, item, consumerVars>>
                         \/ Kill(c) /\ UNCHANGED <<ppc, item, consumerVars>>
  \/ Feeding
  \/ \E r \in Readers : ConsumerStep(r) \/ KillConsumer(r)

Spec == Init /\ [][Next]_pipelineVars

-----------------------------------------------------------------------------
(* Properties *)

\* The durable relay forgets a message only when it is in a ring: whatever
\* connections, receivers and acknowledgements are lost in between, and although
\* duplicates are acknowledged without being published again.
AckedIsPublished ==
  opts.ack => \A i \in 1 .. item - 1 : \E c \in Creators : \E m \in ToSet(rings[c]) :
                m.key = Feed[i][1] /\ m.seq_id = Feed[i][2]

\* A ring never holds a message twice while its receiver is alive, and every
\* message in it is what its producer built, with the stream's key: redelivery
\* over a new connection, duplicated datagrams and messages of other streams with
\* the same numbers included.  No message is rejected as invalid on its way.
PublishedOnce ==
  /\ \A c \in Creators :
       /\ IsInjective(rings[c])
       /\ \A m \in ToSet(rings[c]) : \E i \in DOMAIN Feed :
            m = [build(Feed[i][2]) EXCEPT !.key = Feed[i][1]]
  /\ ~mangled

\* The drops that a consumer reports are the numbers missing between the first
\* and the last of each stream, however the streams interleave in the ring.
ReportExact ==
  \A r \in Readers :
    Report(r) = Cardinality(
      UNION {{key} \X ((Min(Numbers(r, key)) .. Max(Numbers(r, key))) \ Numbers(r, key)) :
             key \in Keys(r)})

\* A receiver never takes the middle of a frame for the beginning of one, also
\* when a timeout interrupts it or its peer inside a frame.
InStep ==
  \A c \in Creators :
    Stream /\ vpc[c] \in {"top", "frame"} /\ Units(c) # <<>> =>
      Head(Units(c))[1] = IF vpc[c] = "top" THEN "prefix" ELSE "body"

\* ~Listener removes the path whatever it leads to.  It is always the receiver's
\* own, and a receiver that listens can be reached.
PathIsOwned ==
  \A c \in Creators :
    Stream /\ vpc[c] \notin {"setup", "unlink", "gone"} => path = c

\* Every wait has a way out of its own: a receiver or a consumer that has not
\* ended can go on, whatever the others hold, wait for or have left behind.
NobodyStuck ==
  /\ \A c \in Creators : cpc[c] \in {"done", "failed", "dead"} \/ ENABLED ReceiverStep(c)
  /\ \A r \in Readers : rpc[r] \in {"done", "failed", "dead"} \/ ENABLED ConsumerStep(r)
=============================================================================
