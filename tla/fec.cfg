\* Generations of up to three frames with two parity shards, two decoder slots.
CONSTANTS
  K = 3
  Parity = 2
  Gens = 2
  MaxFrames = 4
  Length <- Lengths
SPECIFICATION Spec
INVARIANTS AnyKShardsSuffice SlotsKeptApart
CHECK_DEADLOCK FALSE
