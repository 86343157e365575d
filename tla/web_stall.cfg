SPECIFICATION FairPageSpec
CONSTANTS
  MaxSeq = 2
  MaxBuffer = 10
  Limit = 5
  MaxReads = 2
  MaxDrops = 0
  MaxCommands = 0
  MaxFaults = 1
  AnswersInTime = TRUE
PROPERTY PageGapCloses
CHECK_DEADLOCK FALSE
