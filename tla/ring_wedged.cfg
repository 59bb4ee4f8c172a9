\* Overwrite policy, the writer may be killed.
CONSTANTS
  r1 = r1
  r2 = r2
  r3 = r3
  Slots = 2
  MaxReaders = 1
  Readers <- OneReader
  FromEdge <- NoReaders
  WaitReaders = 0
  Backpressure = FALSE
  MaxIndex = 3
  Mortal <- OnlyWriter
  Leaving <- NoReaders
  Deadlines = FALSE
SPECIFICATION FairSpec
PROPERTIES LappedReaderMovesOn
CHECK_DEADLOCK FALSE
