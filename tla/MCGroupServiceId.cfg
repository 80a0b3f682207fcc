SPECIFICATION Spec
CONSTANTS
  u1 = u1
  w1 = w1
  w2 = w2
  c1 = c1
  c2 = c2
  c3 = c3
  None = None
  Users = {u1}
  Workers = {w1}
  Conns = {c1, c2, c3}
  MaxGroups = 2
  MaxFaults = 0
  MaxEnds = 0
INVARIANT CreatorInOwnGroup
CHECK_DEADLOCK FALSE
