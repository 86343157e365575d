SPECIFICATION FairPageSpec
CONSTANTS
  MaxSeq = 3
  MaxBuffer = 1
  Limit = 1
  MaxReads = 1
  MaxDrops = 1
  MaxCommands = 1
  MaxFaults = 1
  AnswersInTime = TRUE
PROPERTIES
  ScreenPeriod
  LosesOnlyWhenFull
  HeldIsShown
CHECK_DEADLOCK FALSE
