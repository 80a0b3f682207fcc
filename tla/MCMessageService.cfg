SPECIFICATION Spec
CONSTANTS
  u1 = u1
  u2 = u2
  m1 = m1
  m3 = m3
  w1 = w1
  w2 = w2
  None = None
  Users = {u1, u2}
  Msgs = {m1, m3}
  To <- Recipients
  Workers = {w1, w2}
  MaxFaults = 2
  MaxCrashes = 1
SYMMETRY Symmetry
INVARIANTS TypeOK LostOnlyIfExposed GivenOnce PushedOrStored
CHECK_DEADLOCK FALSE
