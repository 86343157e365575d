SPECIFICATION Spec
CONSTANTS
  Absent = Absent
  Nodes = {n1, n2}
  Sessions = {s1}
  HeartbeatInterval = 8
  PresenceTTL = 6
  SweeperInterval = 2
  NodeInterval = 2
  Delay = 0
  Skew = 0
  MaxCrashes = 0
  MaxAge = 11
INVARIANT
  LiveIsVisible
