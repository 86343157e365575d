SPECIFICATION Spec
CONSTANTS
  None = None
  s1 = s1
  s2 = s2
  r1 = r1
  Clients = {s1, s2}
  Rooms = {r1}
  MaxWire = 2
  MaxFailures = 0
  MaxBreaks = 0
INVARIANTS
  MemberSubscribed
CHECK_DEADLOCK FALSE
