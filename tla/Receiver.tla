------------------------------ MODULE Receiver -------------------------------
(***************************************************************************)
(* The receiver (run() of harness/src/receiver.cpp): it creates its        *)
(* segment (module Segment) and its socket, takes datagrams from a UDP     *)
(* socket or frames from a Unix stream (stream_transport.h), keeps one     *)
(* duplicate window per stream (multiplex.h) and publishes what is new to  *)
(* its ring, where the ring holds it back for its readers.  Several        *)
(* receivers with the same names may run one after another or at once.     *)
(*                                                                         *)
(* What travels is an index of Feed.  Error correction is off (module      *)
(* Fec); a window is the set of numbers it stands for, which is what       *)
(* module DedupeWindowProofs proves of the bitmap.                         *)
(***************************************************************************)
EXTENDS Segment, Wire

CONSTANTS
  Feed,          \* what the senders send: pairs of a stream's key and a number
  Settings,      \* configurations of the receiver
  Slots,         \* --slots
  WindowSize,    \* --dedupe-window
  BatchSize      \* --batch-size

VARIABLES
  opts,       \* the configuration, and the datagrams that arrive while it runs
  net,        \* UDP: datagrams in flight, each with the number of the copy
  conns,      \* Unix streams, in order of connection
  path,       \* the receiver whose listening socket has the path
  vpc,        \* where each receiver is
  sock,       \* the connection it accepted
  inbox,      \* what it has read and not yet handled
  streams,    \* its streams: window and last number of each known key
  rings,      \* its ring: every message published (history)
  echoed,     \* datagrams it sent back
  mangled,    \* some message was rejected, other than for the stream limit
  registry,   \* the readers registered in each ring
  cursor      \* each reader's entry there

storeVars == <<streams, rings, echoed, mangled, registry, cursor>>
receiverVars == <<opts, net, conns, path, vpc, sock, inbox, storeVars>>

\* What parse_args accepts.
Accepted(o) ==
  /\ o.echo => o.link = "udp"
  /\ o.link = "udp" => ~o.ack /\ ~o.reconnect

Packets == [i \in DOMAIN Feed |-> Datagram(Feed[i][1], Feed[i][2])]

ReceiverInit ==
  /\ opts \in {o \in Settings : Accepted(o)}
  /\ net = opts.datagrams
  /\ conns = <<>> /\ path = NoObject
  /\ vpc = [c \in Creators |-> "setup"] /\ sock = [c \in Creators |-> 0]
  /\ inbox = [c \in Creators |-> <<>>] /\ streams = [c \in Creators |-> <<>>]
  /\ rings = [c \in Creators |-> <<>>] /\ echoed = [c \in Creators |-> 0]
  /\ mangled = FALSE
  /\ registry = [c \in Creators |-> {}] /\ cursor = [r \in Readers |-> 0]

Stream == opts.link = "stream"
Go(c, from, to) == vpc[c] \in from /\ vpc' = [vpc EXCEPT ![c] = to]

-----------------------------------------------------------------------------
(* Starting *)

\* Mutant: a path that exists is replaced.
BindOver(c) ==
  /\ Stream /\ cpc[c] = "attached" /\ path # c
  /\ path' = c
  /\ UNCHANGED <<segmentVars, opts, net, conns, vpc, sock, inbox, storeVars>>

\* unix_socket: bind and listen; it fails if the path exists.
Bind(c) ==
  /\ Stream /\ cpc[c] = "attached" /\ path = NoObject
  /\ path' = c
  /\ UNCHANGED <<segmentVars, opts, net, conns, vpc, sock, inbox, storeVars>>

\* Something throws before ready(), the failing bind included.
StartFails(c) ==
  /\ path # c
  /\ SetupFails(c)
  /\ UNCHANGED receiverVars

Started(c) ==
  /\ Stream => path = c
  /\ Ready(c)
  /\ Go(c, {"setup"}, "readers")
  /\ UNCHANGED <<opts, net, conns, path, sock, inbox, storeVars>>

\* The places of a receiver change, and nothing else.
Moves(c, from, to) ==
  /\ Go(c, from, to)
  /\ UNCHANGED <<segmentVars, opts, net, conns, path, sock, inbox, storeVars>>

ReadersHere(c) ==
  /\ Cardinality(registry[c]) >= opts.wait_readers
  /\ Moves(c, {"readers"}, IF Stream THEN "accept" ELSE "top")

ReadersDeadline(c) ==
  /\ Cardinality(registry[c]) < opts.wait_readers
  /\ Moves(c, {"readers"}, "return")

\* accept_stream takes the first connection that waits.
Accept(c) ==
  \E i \in DOMAIN conns :
    /\ conns[i].end = "queued" /\ \A j \in 1 .. i - 1 : conns[j].end # "queued"
    /\ conns' = [conns EXCEPT ![i].end = "accepted"]
    /\ sock' = [sock EXCEPT ![c] = i]
    /\ Go(c, {"accept", "reaccept"}, "top")
    /\ UNCHANGED <<segmentVars, opts, net, path, inbox, storeVars>>

Progress(c) == IF opts.echo THEN echoed[c] ELSE Len(rings[c])
Unmet(c) == opts.count # 0 /\ Progress(c) < opts.count

\* Mutant: the receiver waits for the next connection as long as it takes.
AcceptForever(c) == Moves(c, {"accept"}, "return")

\* Its deadline: the first time the receiver fails; later it ends.
AcceptDeadline(c) ==
  \/ Moves(c, {"accept"}, "return")
  \/ Moves(c, {"reaccept"}, IF Unmet(c) THEN "return" ELSE "end")

-----------------------------------------------------------------------------
(* Reading *)

Loops(c) == opts.count = 0 \/ Unmet(c)
Units(c) == conns[sock[c]].units
Shut(conn) == [conn EXCEPT !.end = "closed", !.units = <<>>]

\* receive_frame: the length first ...
ReadPrefix(c) ==
  /\ Stream /\ vpc[c] = "top" /\ Loops(c)
  /\ Units(c) # <<>> /\ Head(Units(c))[1] = "prefix"
  /\ conns' = [conns EXCEPT ![sock[c]].units = Tail(@)]
  /\ Go(c, {"top"}, "frame")
  /\ UNCHANGED <<segmentVars, opts, net, path, sock, inbox, storeVars>>

\* ... then the frame.
ReadBody(c) ==
  /\ vpc[c] = "frame" /\ Units(c) # <<>>
  /\ conns' = [conns EXCEPT ![sock[c]].units = Tail(@)]
  /\ inbox' = [inbox EXCEPT ![c] = <<Head(Units(c))[2]>>]
  /\ Go(c, {"frame"}, "handle")
  /\ UNCHANGED <<segmentVars, opts, net, path, sock, storeVars>>

\* Mutant: after a timeout the connection is kept.
ReceiveFailsKept(c) ==
  /\ Stream /\ vpc[c] \in {"top", "frame"} /\ (vpc[c] = "top" => Loops(c))
  /\ \/ opts.reconnect /\ Moves(c, {"top", "frame"}, "top")
     \/ ~opts.reconnect /\ Moves(c, {"top", "frame"}, IF Unmet(c) THEN "return" ELSE "end")

\* The stream ends, the deadline passes or a signal comes, perhaps in the middle
\* of a frame: the next connection, or the end.
ReceiveFails(c) ==
  /\ Stream /\ vpc[c] \in {"top", "frame"} /\ (vpc[c] = "top" => Loops(c))
  /\ \/ /\ opts.reconnect
        /\ conns' = [conns EXCEPT ![sock[c]] = Shut(@)]
        /\ Go(c, {"top", "frame"}, "reaccept")
        /\ UNCHANGED <<segmentVars, opts, net, path, sock, inbox, storeVars>>
     \/ ~opts.reconnect /\ Moves(c, {"top", "frame"}, IF Unmet(c) THEN "return" ELSE "end")

\* recvmmsg returns some of the datagrams in flight, in some order.
ReceiveBatch(c) ==
  /\ ~Stream /\ Loops(c)
  /\ \E some \in SUBSET net : \E order \in [1 .. Cardinality(some) -> some] :
       /\ Cardinality(some) \in 1 .. BatchSize /\ IsInjective(order)
       /\ net' = net \ some
       /\ inbox' = [inbox EXCEPT ![c] = [n \in DOMAIN order |-> order[n][1]]]
  /\ Go(c, {"top"}, IF opts.echo THEN "echo" ELSE "handle")
  /\ UNCHANGED <<segmentVars, opts, conns, path, sock, storeVars>>

\* It fails, or sending the echo does.
UdpFails(c) == ~Stream /\ Moves(c, {"top", "echo"}, "return")

EchoBack(c) ==
  /\ Go(c, {"echo"}, "top")
  /\ echoed' = [echoed EXCEPT ![c] = @ + Len(inbox[c])]
  /\ inbox' = [inbox EXCEPT ![c] = <<>>]
  /\ UNCHANGED <<segmentVars, opts, net, conns, path, sock, streams, rings, mangled, registry, cursor>>

-----------------------------------------------------------------------------
(* Publishing *)

NewStream == [base |-> 0, seen |-> {}, last_seq |-> 0]

\* A datagram cut off by the buffer, another format or no stream: the map holds
\* the key or has room for it.
Known(c, key) == key \in DOMAIN streams[c]
Rejected(c, p) ==
  \/ p.len > datagram_cap \/ ~unwraps(p)
  \/ (~Known(c, p.key) /\ Cardinality(DOMAIN streams[c]) >= opts.max_streams)
StreamOf(c, key) == IF Known(c, key) THEN streams[c][key] ELSE NewStream

\* Window::observe; numbers start at 1.
Base(s, seq) ==
  IF s.base = 0 THEN seq ELSE IF seq >= s.base + WindowSize THEN seq - WindowSize + 1 ELSE s.base

Observed(s, seq) ==
  LET base == Base(s, seq)
      seen == {q \in s.seen \cup {seq} : q >= base}
  IN  IF seq < base THEN s
      ELSE [s EXCEPT !.seen = seen,
                     !.base = CHOOSE b \in base .. base + Cardinality(seen) :
                                b \notin seen /\ base .. b - 1 \subseteq seen]

\* Mutant: duplicates are published.
IsNewOrDuplicate(s, seq) == seq >= Base(s, seq)

IsNew(s, seq) ==
  IF opts.dedupe THEN seq >= Base(s, seq) /\ seq \notin s.seen
                 ELSE seq > s.last_seq

AfterFrame(s, seq) ==
  IF opts.dedupe THEN Observed(s, seq)
                 ELSE [s EXCEPT !.last_seq = IF seq > @ THEN seq ELSE @]

\* Ring::publish waits for every registered reader, once the ring was full.
Room(c) ==
  \/ Len(rings[c]) < Slots
  \/ registry[c] # {} /\ \A r \in registry[c] : cursor[r] > Len(rings[c]) - Slots

\* publish_frame returns false.
Undecodable(p) == ~decodes(p.payload) \/ decode(p.payload).key # p.key

\* After the message: the acknowledgement, the next one, or the next batch.
Handled(c, ack) ==
  /\ inbox' = [inbox EXCEPT ![c] = Tail(@)]
  /\ Go(c, {"handle"}, IF opts.ack THEN ack ELSE IF Len(inbox[c]) = 1 THEN "top" ELSE "handle")

\* No stream for it: not acknowledged either.
Reject(c) ==
  /\ vpc[c] = "handle" /\ Rejected(c, Packets[Head(inbox[c])])
  /\ inbox' = [inbox EXCEPT ![c] = Tail(@)]
  /\ Go(c, {"handle"}, IF Len(inbox[c]) = 1 THEN "top" ELSE "handle")
  /\ UNCHANGED <<segmentVars, opts, net, conns, path, sock, storeVars>>

\* Mutant: the acknowledgement does not wait for the ring.
HandleUnpublished(c) ==
  LET p == Packets[Head(inbox[c])]
  IN  /\ vpc[c] = "handle" /\ ~Rejected(c, p)
      /\ rings' = IF Room(c) /\ IsNew(StreamOf(c, p.key), p.payload.seq_id)
                  THEN [rings EXCEPT ![c] = Append(@, decode(p.payload))] ELSE rings
      /\ streams' = [streams EXCEPT ![c] =
                       (p.key :> AfterFrame(StreamOf(c, p.key), p.payload.seq_id)) @@ @]
      /\ Handled(c, "ack")
      /\ UNCHANGED <<segmentVars, opts, net, conns, path, sock, echoed, mangled, registry, cursor>>

\* Decoder::receive without error correction calls publish_frame.
Handle(c) ==
  LET p == Packets[Head(inbox[c])]
      s == StreamOf(c, p.key)
      seq == p.payload.seq_id
      valid == ~Undecodable(p)
      fresh == valid /\ IsNew(s, seq)
  IN  /\ vpc[c] = "handle" /\ ~Rejected(c, p)
      /\ fresh => Room(c)
      /\ rings' = IF fresh THEN [rings EXCEPT ![c] = Append(@, decode(p.payload))] ELSE rings
      /\ streams' = [streams EXCEPT ![c] = (p.key :> IF valid THEN AfterFrame(s, seq) ELSE s) @@ @]
      /\ mangled' = (mangled \/ ~valid)
      /\ Handled(c, IF valid THEN "ack" ELSE "nack")
      /\ UNCHANGED <<segmentVars, opts, net, conns, path, sock, echoed, registry, cursor>>

\* The ring's two-second deadline: publish throws.
PublishDeadline(c) ==
  /\ vpc[c] = "handle" /\ ~Room(c)
  /\ LET p == Packets[Head(inbox[c])]
     IN  ~Rejected(c, p) /\ ~Undecodable(p) /\ IsNew(StreamOf(c, p.key), p.payload.seq_id)
  /\ Moves(c, {"handle"}, "return")

Acknowledge(c) ==
  /\ vpc[c] \in {"ack", "nack"} /\ conns[sock[c]].peer
  /\ conns' = [conns EXCEPT ![sock[c]].acks = Append(@, vpc[c])]
  /\ Go(c, {"ack", "nack"}, "top")
  /\ UNCHANGED <<segmentVars, opts, net, path, sock, inbox, storeVars>>

\* The peer has gone, the deadline passes or a signal comes: with
\* --stream-reconnect that is noticed at the next read.
AckFails(c) == Moves(c, {"ack", "nack"}, IF opts.reconnect THEN "top" ELSE "return")

-----------------------------------------------------------------------------
(* Ending *)

\* The count is met, a signal (also in the wait for readers) or, on UDP, the idle
\* timeout.
LoopEnds(c) == Moves(c, IF Stream THEN {"top"} ELSE {"readers", "top"}, "end")

\* The regular end: the socket, the segment's name, ...
End(c) ==
  /\ Go(c, {"end"}, "listener")
  /\ Unlink(c, IF Unmet(c) THEN "failed" ELSE "done")
  /\ conns' = [i \in DOMAIN conns |-> IF i = sock[c] THEN Shut(conns[i]) ELSE conns[i]]
  /\ UNCHANGED <<opts, net, path, sock, inbox, storeVars>>

\* ... and last the listener with its path, which an early return drops first.
DropListener(c) ==
  /\ vpc[c] \in {"listener", "return"}
  /\ path' = NoObject
  /\ conns' = [i \in DOMAIN conns |-> Shut(conns[i])]
  /\ Go(c, {"listener", "return"}, IF vpc[c] = "return" THEN "unlink" ELSE "gone")
  /\ UNCHANGED <<segmentVars, opts, net, sock, inbox, storeVars>>

Fail(c) ==
  /\ Go(c, {"unlink"}, "gone")
  /\ Unlink(c, "failed")
  /\ UNCHANGED <<opts, net, conns, path, sock, inbox, storeVars>>

\* A killed receiver leaves its name and its path.
Kill(c) ==
  /\ KillCreator(c)
  /\ vpc' = [vpc EXCEPT ![c] = "gone"]
  /\ conns' = IF path = c THEN [i \in DOMAIN conns |-> Shut(conns[i])] ELSE conns
  /\ UNCHANGED <<opts, net, path, sock, inbox, storeVars>>

ReceiverStep(c) ==
  \/ Initialise(c) /\ UNCHANGED receiverVars
  \/ Bind(c) \/ StartFails(c) \/ Started(c)
  \/ ReadersHere(c) \/ ReadersDeadline(c) \/ Accept(c) \/ AcceptDeadline(c)
  \/ ReadPrefix(c) \/ ReadBody(c) \/ ReceiveFails(c)
  \/ ReceiveBatch(c) \/ UdpFails(c) \/ EchoBack(c)
  \/ Reject(c) \/ Handle(c) \/ PublishDeadline(c) \/ Acknowledge(c) \/ AckFails(c)
  \/ LoopEnds(c) \/ End(c) \/ DropListener(c) \/ Fail(c)
=============================================================================
