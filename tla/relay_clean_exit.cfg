SPECIFICATION Spec
CONSTANTS
  Frames = 1
  Limit = 1
  MaxErrors = 0
  MaxOutages = 0
INVARIANTS
  CleanExitDrained
