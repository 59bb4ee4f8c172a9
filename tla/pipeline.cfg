CONSTANTS
  Creators = {c1, c2}
  Readers = {r1}
  Misfits = {r1}
  Mortal = {c1, r1}
  Feed <- TwoStreams
  Settings <- Every
  Slots = 1
  WindowSize = 2
  BatchSize = 2
  MaxConns = 2
SPECIFICATION Spec
INVARIANTS AckedIsPublished PublishedOnce ReportExact InStep NameIsOwned AttachedToWhole PathIsOwned NobodyStuck
CHECK_DEADLOCK FALSE
