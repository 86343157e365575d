SPECIFICATION Spec
CONSTANTS
  a = a
  b = b
  w = w
  m1 = m1
  m2 = m2
  m3 = m3
  Nodes = {a, b}
  Msgs = {m1, m2, m3}
  Readers = {w}
  Home <- MCHome
  History = 1
  MaxRestarts = 1
SYMMETRY Swaps
INVARIANTS
  ClockCondition
  CauseComparesBefore
  OnlyCauseComparesBefore
  BadgeIsTrue
CHECK_DEADLOCK FALSE
