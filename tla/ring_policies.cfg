\* Both overwrite and backpressure, nobody dies, no deadline: readers move on
\* and nobody waits for ever.
CONSTANTS
  r1 = r1
  r2 = r2
SPECIFICATION FairSpec
PROPERTIES NeverRereads LappedReaderMovesOn EverythingRead
CHECK_DEADLOCK FALSE
