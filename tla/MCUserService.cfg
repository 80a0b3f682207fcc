SPECIFICATION Spec
CONSTANTS
  u1 = u1
  u2 = u2
  w1 = w1
  w2 = w2
  None = None
  Users = {u1, u2}
  Workers = {w1, w2}
  Opened = {4, 6}
  MaxFailures = 1
INVARIANTS TypeOK AlreadyOnlineRefused AnsweredOwnId
SYMMETRY Symmetry
CHECK_DEADLOCK FALSE
