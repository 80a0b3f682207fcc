SPECIFICATION LiveSpec
CONSTANTS
  u1 = u1
  w1 = w1
  w2 = w2
  c1 = c1
  c2 = c2
  c3 = c3
  None = None
  Users = {u1}
  Workers = {w1, w2}
  Conns = {c1, c2, c3}
  MaxGroups = 3
  MaxFaults = 1
  MaxEnds = 1
INVARIANTS TypeOK PoolIntact
PROPERTY CallsReturn
CHECK_DEADLOCK FALSE
