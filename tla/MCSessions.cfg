SPECIFICATION SessionsSpec
CONSTANTS
  u1 = u1
  u2 = u2
  c1 = c1
  c2 = c2
  l1 = l1
  l2 = l2
  w1 = w1
  w2 = w2
  None = None
  Users = {u1, u2}
  Conns = {c1, c2}
  Loops = {l1, l2}
  LoopOf <- ThreadOf
  Workers = {w1, w2}
  Opened = {6}
  MaxFailures = 1
  MaxCommands = 3
  MaxRestarts = 1
INVARIANTS SessionsTypeOK NoLockout EntriesNameSessions
SYMMETRY Symmetry
CHECK_DEADLOCK FALSE
