SPECIFICATION Spec
CONSTANTS
  Clients = {c1, c2}
  MaxSeq = 3
  Limit = 3
  MaxDrops = 1
  MaxFaults = 0
INVARIANT QuedaKeepsOk
CHECK_DEADLOCK FALSE
