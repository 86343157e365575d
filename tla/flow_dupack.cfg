SPECIFICATION Spec
CONSTANTS
  None = None
  Pending = Pending
  n1 = n1
  n2 = n2
  c1 = c1
  c2 = c2
  c3 = c3
  m1 = m1
  m2 = m2
  Nodes = {n1, n2}
  Conns = {c1, c2}
  NodeOf <- MCNodeOf2
  Msgs = {m1}
  Expirable = {}
  MaxSeq = 1
  MaxFaults = 1
INVARIANTS
  DuplicateAckReconciles
