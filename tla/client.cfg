SPECIFICATION FairSpec
CONSTANTS
  MaxSeq = 2
  MaxBuffer = 10
  Limit = 1
  MaxReads = 2
  MaxDrops = 1
  MaxCommands = 1
  MaxFaults = 1
  AnswersInTime = TRUE
INVARIANT BacklogCovers
PROPERTIES
  RendersUpward
  GivesUpWhatDidNotCome
  GapCloses
CHECK_DEADLOCK FALSE
