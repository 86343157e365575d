SPECIFICATION FairSpec
CONSTANTS
  None = None
  s1 = s1
  s2 = s2
  r1 = r1
  Clients = {s1, s2}
  Rooms = {r1}
  MaxWire = 2
  MaxFailures = 1
  MaxBreaks = 1
INVARIANTS
  TopicsFollow
  SubscriptionOwned
  PresenceFollows
PROPERTIES
  CommandEnds
  EmptyRoomReleased
CHECK_DEADLOCK FALSE
