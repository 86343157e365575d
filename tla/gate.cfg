SPECIFICATION FairSpec
CONSTANTS
  Lines = 4
  Rate = 1
  Cost = 2
  Capacity = 4
  MaxTime = 3
  MaxAttempt = 2
  MaxFaults = 2
INVARIANTS NotInRoomOnlyLate
PROPERTIES PassesWhatFits ComesBack
CHECK_DEADLOCK FALSE
