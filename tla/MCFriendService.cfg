SPECIFICATION Spec
CONSTANTS
  u1 = u1
  u2 = u2
  w1 = w1
  w2 = w2
  None = None
  Users = {u1, u2}
  Workers = {w1, w2}
  MaxChanges = 2
  MaxFailures = 1
SYMMETRY Symmetry
INVARIANTS TypeOK CachedListCurrent FriendshipMutual
CHECK_DEADLOCK FALSE
