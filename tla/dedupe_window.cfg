\* A window of three: numbers jump, repeat, come late and reach the end of the type,
\* where base_seq_ + size_ wraps around.
CONSTANTS
  Size = 3
  Width = 10
  Seqs <- AllSeqs
  MaxCalls = 6
SPECIFICATION Spec
CHECK_DEADLOCK FALSE
INVARIANTS
  WindowExact
  AcceptedOnce
  LossExact
PROPERTY DeliversOnce
