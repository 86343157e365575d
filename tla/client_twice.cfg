SPECIFICATION Spec
CONSTANTS
  MaxSeq = 2
  MaxBuffer = 10
  Limit = 5
  MaxReads = 2
  MaxDrops = 0
  MaxCommands = 0
  MaxFaults = 0
  AnswersInTime = TRUE
INVARIANTS
  RenderedOnce
CHECK_DEADLOCK FALSE
