SPECIFICATION DeliverySpec
CONSTANTS
  u1 = u1
  g1 = g1
  m1 = m1
  m2 = m2
  p1 = p1
  p2 = p2
  w1 = w1
  ch1 = ch1
  None = None
  Users = {u1}
  Msgs = {m1, m2}
  To <- ToFirst
  Workers = {w1}
  MaxFaults = 0
  MaxCrashes = 1
  Gateways = {g1}
  Channels = {ch1}
  ChannelOf <- OneChannel
  Procs = {p1, p2}
  MaxOutages = 0
  MaxLost = 1
SYMMETRY Symmetry
INVARIANTS DeliveryTypeOK RoutedIsPushed DeliveredIsHeard NotPushedAndPulled
CHECK_DEADLOCK FALSE
