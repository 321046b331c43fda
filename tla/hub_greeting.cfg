SPECIFICATION Spec
CONSTANTS
  c1 = c1
  c2 = c2
  c3 = c3
  u1 = u1
  u2 = u2
  Conns = {c1, c3}
  Senders = {}
  Users = {u1, u2}
  Admins = {}
  User <- TwoTabs
  BufferSize = 4
  Nobody = nobody
CHECK_DEADLOCK FALSE
INVARIANT LastMessageIsCurrent
