SPECIFICATION FairSpec
CONSTANTS
  Clients = {c1, c2}
  MaxSeq = 3
  Limit = 1
  MaxDrops = 1
  MaxFaults = 1
INVARIANTS TypeOK AlarmIsReal
PROPERTIES ReportComes
CHECK_DEADLOCK FALSE
