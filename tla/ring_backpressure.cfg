\* Three readers compete for two entries; one starts at the edge and is mortal like
\* the writer, one comes and goes, one stays; all deadlines: the safety of
\* backpressure.
CONSTANTS
  r1 = r1
  r2 = r2
  r3 = r3
  Slots = 2
  MaxReaders = 2
  Readers <- AllReaders
  FromEdge <- OneReader
  WaitReaders = 0
  Backpressure = TRUE
  MaxIndex = 4
  Mortal <- WriterAndOne
  Leaving <- SecondReader
  Deadlines = TRUE
SPECIFICATION Spec
INVARIANTS ReadsIntact RecentFramesKept UnreadFramesKept OnlyNewcomersLapped NoMutualWait
CHECK_DEADLOCK FALSE
