\* Three frames, spools of two rows, one connection error, one outage.
SPECIFICATION FairSpec
CONSTANTS
  Frames = 3
  Limit = 2
  MaxErrors = 1
  MaxOutages = 1
INVARIANTS
  NoAckedLoss
  SequenceKept
PROPERTIES
  DeliversInOrder
  AckedIsDelivered
  DrainEnds
