\* Every configuration of the sender; two destinations that may fail, the first
\* of which may hang in a send for ever.
CONSTANTS
  Targets = 2
  QueueBytes = 3
  Faulty <- Everybody
  Hanging <- First
  Counts = {0, 2}
  BatchSize = 2
  Slots = 2
  PendingLimit = 1
  MaxFrames = 3
SPECIFICATION SenderSpec
INVARIANTS FanoutAccounted SentInOrder OnePlace ExitIsTrue
PROPERTIES FanoutProgress FramesLeave SenderEnds
CHECK_DEADLOCK FALSE
