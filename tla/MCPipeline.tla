----------------------------- MODULE MCPipeline ------------------------------
(***************************************************************************)
(* Instance of Pipeline for TLC: two streams, one with a gap, and five     *)
(* ways to set up the receiver.  On UDP a datagram comes twice, or one may *)
(* come from each stream and overtake the others.                          *)
(***************************************************************************)
EXTENDS Pipeline

TwoStreams == <<<<<<1, 1>>, 1>>, <<<<1, 1>>, 3>>, <<<<2, 1>>, 1>>>>

Plain == [link |-> "stream", ack |-> FALSE, reconnect |-> FALSE, echo |-> FALSE, dedupe |-> TRUE,
          count |-> 2, max_streams |-> 2, wait_readers |-> 1, datagrams |-> {}]
Durable == [Plain EXCEPT !.ack = TRUE, !.reconnect = TRUE, !.count = 0, !.max_streams = 1,
                         !.wait_readers = 0]
Udp == [Plain EXCEPT !.link = "udp", !.count = 0, !.wait_readers = 0,
                     !.datagrams = {<<1, 1>>, <<1, 2>>, <<2, 1>>}]

Every == {Plain, Durable, Udp,
          [Udp EXCEPT !.dedupe = FALSE, !.datagrams = {<<1, 1>>, <<2, 1>>, <<3, 1>>}],
          [Udp EXCEPT !.echo = TRUE, !.count = 2]}
=============================================================================
