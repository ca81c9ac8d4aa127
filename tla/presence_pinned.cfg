SPECIFICATION Spec
CONSTANTS
  A = A  B = B
  s = s  r = r  v = v
  s1 = s1  s2 = s2  r1 = r1  r2 = r2
  None = None
  Nodes = {A, B}
  NodeOf <- PinnedNodeOf
  Accounts <- OwnConns
  Users = {s, r}
  Conns = {s1, s2, r2}
  Leavers = {s1, s2, r2}
  Msgs <- OnePrivate
  Requests = {}
  Logins = {l1, l2, l3, l4}
  MaxFaults = 0
  MaxBadFrames = 1
SYMMETRY Perms
INVARIANT PresenceAgrees
CHECK_DEADLOCK FALSE
