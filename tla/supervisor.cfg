\* Two services, one restart, one SIGTERM, one SIGKILL.
CONSTANTS
  N = 2
  Announcing = {1}
  Completion = 2
  Restarts = 1
  MaxEpochs = 2
  MaxSignals = 1
  MaxKills = 1
SPECIFICATION FairSpec
INVARIANTS NoneLeftBehind RegistrationCurrent AnswersAreFresh
PROPERTIES ShutdownEnds
CHECK_DEADLOCK FALSE
