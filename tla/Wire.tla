-------------------------------- MODULE Wire --------------------------------
(***************************************************************************)
(* Messages and their formats (harness/include/message.h, wire.h and       *)
(* multiplex.h): the native structs that rings hold, the packed encoding   *)
(* on the wire and the stream header around it.  A message keeps the       *)
(* header fields that the code looks at, and its length in bytes; its      *)
(* other fields are one value, body.                                       *)
(***************************************************************************)
EXTENDS Integers, Sequences, SequencesExt

kVersion == 2
kBookDepth == 5
max_frame == 1024

\* Fields in declaration order: how many of which width (msg::fields and the
\* structs have the same order).
HeaderFields == <<<<2, 8>>, <<2, 2>>, <<1, 4>>, <<2, 8>>>>
LevelFields == <<<<4, 8>>, <<2, 4>>>>
Levels == FlattenSeq([i \in 1 .. 2 * kBookDepth |-> LevelFields])

BodyFields ==
  [Trade     |-> <<<<16, 1>>, <<16, 1>>, <<8, 1>>, <<8, 1>>, <<10, 8>>, <<1, 4>>, <<5, 1>>, <<19, 1>>>>,
   Bbo       |-> <<<<16, 1>>, <<16, 1>>, <<11, 8>>, <<2, 4>>, <<1, 1>>, <<23, 1>>>>,
   OrderBook |-> <<<<16, 1>>, <<16, 1>>, <<4, 8>>>> \o Levels \o <<<<1, 4>>, <<2, 1>>, <<26, 1>>>>]

Types == DOMAIN BodyFields
Fields(type) == HeaderFields \o BodyFields[type]

\* Bytes written one after the other, and with each field at its alignment.
Packed(fields) == FoldSeq(LAMBDA f, sum : f[1] * f[2] + sum, 0, fields)
Up(offset, alignment) == ((offset + alignment - 1) \div alignment) * alignment
Aligned(fields) == FoldLeft(LAMBDA offset, f : Up(offset, f[2]) + f[1] * f[2], 0, fields)

\* sizeof of the structs (alignas(64)), and the length of an encoded message
\* with its four bytes of magic.
expected_size == [type \in Types |-> Up(Aligned(Fields(type)), 64)]
encoded_size == [type \in Types |-> 4 + Packed(Fields(type))]

kFrameCap == expected_size["OrderBook"]
kEnvelopeSize == 17
header_size == 20
datagram_cap == max_frame + kEnvelopeSize + 2 + header_size

\* The producer's messages: the kinds take turns (Kind::Mixed).
Kind(seq) == CASE seq % 3 = 0 -> "Trade" [] seq % 3 = 1 -> "Bbo" [] OTHER -> "OrderBook"

\* The key is the producer's own, which the sender replaces.
build(seq) ==
  LET type == Kind(seq)
  IN  [seq_id |-> seq, type |-> type, version |-> kVersion, key |-> <<9, 9>>,
       body_len |-> expected_size[type], body |-> seq, len |-> expected_size[type]]

validate_frame(m) ==
  /\ m.len >= Aligned(HeaderFields) /\ m.len =< kFrameCap
  /\ m.version = kVersion /\ m.body_len = m.len
  /\ m.type \in Types /\ expected_size[m.type] = m.len

\* The sender stamps its key on a message and encodes it: the length in the header
\* becomes that of the encoding.
encode(m) ==
  [m EXCEPT !.body_len = encoded_size[m.type], !.len = encoded_size[m.type]]
    @@ [format |-> "PUL3"]

decodes(d) ==
  /\ d.len >= 4 + Packed(HeaderFields) /\ d.len =< max_frame
  /\ d.format = "PUL3" /\ d.version = kVersion /\ d.body_len = d.len
  /\ d.type \in Types /\ encoded_size[d.type] = d.len

decode(d) ==
  [f \in DOMAIN d \ {"format"} |-> IF f \in {"body_len", "len"} THEN expected_size[d.type] ELSE d[f]]

\* A stream's datagrams carry its key once more, in front.
wrap(key, d) == [format |-> "PFS3", key |-> key, payload |-> d, len |-> header_size + d.len]

unwraps(p) ==
  /\ p.len >= header_size
  /\ p.format = "PFS3" /\ p.key[1] # 0 /\ p.key[2] # 0

\* A message as the sender of the stream puts it on the wire.
Datagram(key, seq) == wrap(key, encode([build(seq) EXCEPT !.key = key]))
=============================================================================
