\* Two services, one restart and one SIGTERM.
CONSTANTS
  N = 2
  Announcing = {1}
  Completion = 2
  Restarts = 1
  MaxEpochs = 2
  MaxSignals = 1
  MaxKills = 0
SPECIFICATION Spec
INVARIANT ShutdownTerminatesChildren
CHECK_DEADLOCK FALSE
