\* Up to three missing shards of a generation of four.
CONSTANTS
  Columns <- SomeColumns
  Parities <- SomeParities
  Bytes <- SomeBytes
  MaxMissing = 3
SPECIFICATION Spec
INVARIANTS ShardsSolveSystem RecoversShards
CHECK_DEADLOCK FALSE
