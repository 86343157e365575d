SPECIFICATION Spec
CONSTANTS
  Absent = Absent
  Nodes = {n1, n2}
  Sessions = {s1}
  HeartbeatInterval = 8
  PresenceTTL = 6
  SweeperInterval = 2
  NodeInterval = 2
  Delay = 1
  Skew = 1
  MaxCrashes = 1
  MaxAge = 11
INVARIANTS
  GhostsBounded
  RunningIsListed
  LeftIsAbsent
PROPERTY
  SweptOnlyWhenSilent
