SPECIFICATION Spec
CONSTANTS
  A = A  B = B
  s = s  r = r  v = v
  s1 = s1  s2 = s2  r1 = r1  r2 = r2
  None = None
  Nodes = {A, B}
  NodeOf <- MCNodeOf
  Accounts <- OwnConns
  Users = {s, r}
  Conns = {s1, r2}
  Leavers = {r2}
  Msgs <- OnePrivate
  Requests = {q1}
  Logins = {l1}
  MaxFaults = 0
  MaxBadFrames = 0
SYMMETRY Perms
PROPERTIES RemoveOnlyDelivered
CHECK_DEADLOCK FALSE
