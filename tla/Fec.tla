-------------------------------- MODULE Fec ---------------------------------
(***************************************************************************)
(* Forward error correction of one stream: the sender's encoder and its    *)
(* generations (fec.h Encoder, sender.cpp), a datagram network, and the    *)
(* receiver's decoder (fec.h Decoder).  A frame is its sequence number.    *)
(* The network is the set of datagrams sent: delivering any member, any    *)
(* number of times, covers loss, duplication and reordering, the sender's  *)
(* own --test-drop and --test-reorder impairment included.                 *)
(*                                                                         *)
(* The algebra of a recovery (module GaussJordan) is abstracted to its     *)
(* result: as many parity rows as missing shards give back the frames the  *)
(* parity was computed from if the other shards are of the same            *)
(* generation, and garbage if they are not.                                *)
(***************************************************************************)
EXTENDS Integers, FiniteSets, Sequences, FiniteSetsExt, SequencesExt

CONSTANTS
  K,          \* --fec-k, the configured generation size
  Parity,     \* --fec-parity, the parity shards of a generation
  Gens,       \* --fec-gens, the decoder's slots
  Length,     \* the length of each frame
  MaxFrames   \* bound: frames the sender reads

ASSUME FecAssumption ==
  /\ K \in 1..128 /\ Parity \in 1..16
  /\ Gens \in Nat \ {0} /\ MaxFrames \in Nat
  /\ Length \in [1..MaxFrames -> Nat \ {0}]

VARIABLES
  sent,        \* frames read by the sender
  fec_gen_id,  \* number of the open generation
  frames,      \* the encoder's frames_
  over,        \* the sender has flushed its last generation
  net,         \* the datagrams sent
  slots,       \* the decoder's slots_
  published,   \* frames handed to the publish callback
  rejected,    \* some receive() returned false
  shards       \* history: shards of a generation seen while its slot was its own

encoderVars == <<sent, fec_gen_id, frames, over, net>>
decoderVars == <<slots, published, rejected, shards>>
vars == <<encoderVars, decoderVars>>

Garbage == 0
GenIds == 0..MaxFrames

\* A Generation without members: Generation{}.
Vacant == [active |-> FALSE, gen_id |-> 0, k |-> 0, parity_count |-> 0,
           close_reason |-> 0, data |-> << >>, parities |-> {}]

Init ==
  /\ sent = 0 /\ fec_gen_id = 0 /\ frames = << >> /\ over = FALSE /\ net = {}
  /\ slots = [s \in 0..Gens - 1 |-> Vacant]
  /\ published = {} /\ rejected = FALSE
  /\ shards = [g \in GenIds |-> {}]

-----------------------------------------------------------------------------
(* The sender. *)

\* data_datagram(): a data shard announces the configured k.
DataDatagram(index, frame) ==
  [gen |-> fec_gen_id, index |-> index, k |-> K, parity_count |-> 0,
   reason |-> 0, body |-> <<frame>>, width |-> Length[frame]]

\* max_len_ and the two bytes of length that protected_frame() puts in front.
ProtectedWidth(fs) == Max({Length[f] : f \in Range(fs)}) + 2

\* Encoder::close(): the parity shards announce the number of frames added.
ParityDatagrams(fs, reason) ==
  {[gen |-> fec_gen_id, index |-> Len(fs) + row, k |-> Len(fs),
    parity_count |-> Parity, reason |-> reason, body |-> fs,
    width |-> ProtectedWidth(fs)] : row \in 0..Parity - 1}

\* emit_datagram() down to the socket: whatever of it is dropped or held back,
\* by the impairment or by the network, may still arrive at any time or never.
Emit(datagrams) == net' = net \union datagrams

\* close_generation().
CloseGeneration(fs, reason, datagrams) ==
  /\ Emit(datagrams \union ParityDatagrams(fs, reason))
  /\ frames' = << >>
  /\ fec_gen_id' = fec_gen_id + 1

\* The sender reads a frame: it is added, sent, and closes a full generation.
AddFrame ==
  LET frame == sent + 1
      datagrams == {DataDatagram(Len(frames), frame)}
      added == Append(frames, frame)
  IN  /\ ~over /\ sent < MaxFrames
      /\ sent' = frame
      /\ IF Len(added) = K
         THEN CloseGeneration(added, 0, datagrams)
         ELSE frames' = added /\ Emit(datagrams) /\ UNCHANGED fec_gen_id
      /\ UNCHANGED <<over, decoderVars>>

\* --fec-timeout-us has passed since the generation's first frame.
CloseByTimeout ==
  /\ ~over /\ frames # << >>
  /\ CloseGeneration(frames, 1, {})
  /\ UNCHANGED <<sent, over, decoderVars>>

\* The sender's loop ends: the open generation is flushed.
Flush ==
  /\ ~over
  /\ over' = TRUE
  /\ IF frames # << >> THEN CloseGeneration(frames, 2, {})
                       ELSE UNCHANGED <<net, frames, fec_gen_id>>
  /\ UNCHANGED <<sent, decoderVars>>

-----------------------------------------------------------------------------
(* The decoder. *)

SlotOf(d) == d.gen % Gens

\* Mutant: the slot of another generation is used as it is.
OwnsAny(gen, d) == gen.active

Owns(gen, d) == gen.active /\ gen.gen_id = d.gen

\* slot(): the generation of a datagram, taking its slot from any other one.
Slot(d) ==
  LET gen == slots[SlotOf(d)]
  IN  IF Owns(gen, d) THEN gen
      ELSE [Vacant EXCEPT !.active = TRUE, !.gen_id = d.gen, !.k = d.k]

Received(gen) == DOMAIN gen.data
Missing(gen) == (0..gen.k - 1) \ Received(gen)

\* The checks of a data shard against its generation.
DataFits(gen, d) ==
  /\ d.index < d.k
  /\ d.k >= gen.k
  /\ gen.parities # {} \/ d.k = gen.k
  /\ d.index < gen.k

WithData(gen, d) ==
  [gen EXCEPT !.data = [i \in Received(gen) \union {d.index} |->
                          IF i = d.index THEN d.body[1] ELSE gen.data[i]]]

\* The checks of a parity shard before the generation is changed.
ParityFits(gen, d) ==
  /\ d.index \in d.k..d.k + d.parity_count - 1
  /\ gen.parities # {} =>
       <<gen.k, gen.parity_count, gen.close_reason>> = <<d.k, d.parity_count, d.reason>>
  /\ d.k <= gen.k
  /\ \A i \in Received(gen) : i < d.k

\* ensure() narrows a generation that was closed before it was full.
Closed(gen, d) ==
  [gen EXCEPT !.k = d.k, !.close_reason = d.reason, !.parity_count = d.parity_count]

WidthFits(gen, d) == \A p \in gen.parities : p.width = d.width

WithParity(gen, d) ==
  [gen EXCEPT !.parities = @ \union {[row |-> d.index - d.k, width |-> d.width,
                                      body |-> d.body]}]

\* receive() up to try_recover(): the generation and whether the shard was taken.
Stored(gen, d) ==
  IF d.parity_count = 0
  THEN IF DataFits(gen, d) THEN [gen |-> WithData(gen, d), ok |-> TRUE]
                           ELSE [gen |-> gen, ok |-> FALSE]
  ELSE IF ~ParityFits(gen, d) THEN [gen |-> gen, ok |-> FALSE]
  ELSE IF ~WidthFits(Closed(gen, d), d) THEN [gen |-> Closed(gen, d), ok |-> FALSE]
  ELSE [gen |-> WithParity(Closed(gen, d), d), ok |-> TRUE]

\* Mutant: recovery for a single missing shard only.
RecoverableByOne(gen) == Cardinality(Missing(gen)) = 1 /\ gen.parities # {}

\* Something is missing and there are as many parity rows.
Recoverable(gen) ==
  /\ gen.parities # {} /\ Missing(gen) # {}
  /\ Cardinality(Missing(gen)) <= Cardinality(gen.parities)

\* The rows used: the first ones, as many as shards are missing.
Rows(gen) ==
  {p \in gen.parities :
     Cardinality({q \in gen.parities : q.row < p.row}) < Cardinality(Missing(gen))}

\* No received shard is wider than the parity.
Solvable(gen) ==
  \A p \in Rows(gen), i \in Received(gen) :
    gen.data[i] # Garbage => Length[gen.data[i]] + 2 <= p.width

\* What the elimination yields for shard i.
Solution(gen, i) ==
  LET bodies == {p.body : p \in Rows(gen)}
      consistent == /\ Cardinality(bodies) = 1
                    /\ \A b \in bodies : \A j \in Received(gen) \union {i} :
                         j < Len(b) /\ (j # i => b[j + 1] = gen.data[j])
  IN  IF consistent THEN (CHOOSE b \in bodies : TRUE)[i + 1] ELSE Garbage

\* try_recover(): the generation with the missing shards filled in.
Recovered(gen) ==
  [gen EXCEPT !.data = [i \in 0..gen.k - 1 |->
                          IF i \in Received(gen) THEN gen.data[i] ELSE Solution(gen, i)]]

\* Shards of generation g seen since its slot became its own.
Seen(d) ==
  [g \in GenIds |->
     CASE g = d.gen -> {d.index} \union
                         (IF slots[SlotOf(d)].active /\ slots[SlotOf(d)].gen_id = g
                          THEN shards[g] ELSE {})
       [] g # d.gen /\ g % Gens = SlotOf(d) -> {}
       [] OTHER -> shards[g]]

\* Decoder::receive() of a datagram of the network.
Receive(d) ==
  LET stored == Stored(Slot(d), d)
      recover == stored.ok /\ Recoverable(stored.gen)
      solved == recover /\ Solvable(stored.gen)
      gen == IF solved THEN Recovered(stored.gen) ELSE stored.gen
  IN  /\ slots' = [slots EXCEPT ![SlotOf(d)] = gen]
      /\ published' = published
           \union (IF stored.ok /\ d.parity_count = 0 THEN {d.body[1]} ELSE {})
           \union (IF solved THEN {gen.data[i] : i \in Missing(stored.gen)} ELSE {})
      /\ rejected' = (rejected \/ ~stored.ok \/ (recover /\ ~solved))
      /\ shards' = Seen(d)
      /\ UNCHANGED encoderVars

\* expire(): a generation of the last second or older is dropped.
Expire(s) ==
  /\ slots[s].active
  /\ shards' = [shards EXCEPT ![slots[s].gen_id] = {}]
  /\ slots' = [slots EXCEPT ![s] = Vacant]
  /\ UNCHANGED <<encoderVars, published, rejected>>

Next ==
  \/ AddFrame \/ CloseByTimeout \/ Flush
  \/ \E d \in net : Receive(d)
  \/ \E s \in 0..Gens - 1 : Expire(s)

Spec == Init /\ [][Next]_vars

-----------------------------------------------------------------------------
(* Properties. *)

\* Any k shards of a generation closed with k frames, whichever they are and in
\* whatever order they come, are enough to publish all its frames, unless its
\* slot expired or was taken over in between: receive() tries a recovery after
\* data and after parity, and partial generations announce their actual size.
AnyKShardsSuffice ==
  \A p \in net : p.parity_count > 0 /\ Cardinality(shards[p.gen]) >= p.k =>
    Range(p.body) \subseteq published

\* Generations that share a slot are kept apart: loss, duplication, reordering,
\* expiry and take-overs never make receive() refuse a datagram that the sender
\* built, and no recovery combines shards of two of them into a frame never sent.
SlotsKeptApart == ~rejected /\ published \subseteq 1..sent
=============================================================================
