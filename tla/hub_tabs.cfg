SPECIFICATION FairSpec
CONSTANTS
  c1 = c1
  c2 = c2
  c3 = c3
  u1 = u1
  u2 = u2
  Conns = {c1, c2}
  Senders = {s1}
  Users = {u1, u2}
  Admins = {}
  User <- TwoTabs
  BufferSize = 1
  Nobody = nobody
CHECK_DEADLOCK FALSE
INVARIANTS
  NoSendOnClosed
  IndexFollowsClients
  WaitsEnd
PROPERTIES
  HandlersReturn
