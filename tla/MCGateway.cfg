SPECIFICATION LiveSpec
CONSTANTS
  u1 = u1
  u2 = u2
  c1 = c1
  c2 = c2
  l1 = l1
  l2 = l2
  m1 = m1
  m2 = m2
  None = None
  Users = {u1, u2}
  Conns = {c1, c2}
  Loops = {l1, l2}
  Msgs = {m1, m2}
  LoopOf <- MCLoopOf
  To <- MCTo
  MaxCommands = 2
  MaxRestarts = 1
INVARIANTS TypeOK LoginReplyBeforePush SoleSessionMapped
PROPERTIES PushesAsPromised NothingWrittenAfterDown HandedOverIsWritten PublishedIsWritten
CHECK_DEADLOCK FALSE
