SPECIFICATION Spec
CONSTANTS
  MaxSeq = 2
  MaxBuffer = 10
  Limit = 5
  MaxReads = 2
  MaxDrops = 1
  MaxCommands = 0
  MaxFaults = 0
  AnswersInTime = TRUE
INVARIANTS
  GivenUpIsGone
CHECK_DEADLOCK FALSE
