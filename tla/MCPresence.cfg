SPECIFICATION Spec
CONSTANTS
  u1 = u1
  u2 = u2
  g1 = g1
  g2 = g2
  m1 = m1
  p1 = p1
  p2 = p2
  ch1 = ch1
  None = None
  Gateways = {g1, g2}
  Channels = {ch1}
  ChannelOf <- OneChannel
  Msgs = {m1}
  To <- ToFirst
  Procs = {p1, p2}
  Users = {u1, u2}
  MaxOutages = 1
SYMMETRY Symmetry
INVARIANTS TypeOK PublishedToRoute
CHECK_DEADLOCK FALSE
