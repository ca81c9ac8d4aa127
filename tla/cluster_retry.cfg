SPECIFICATION Spec
CONSTANTS
  A = A  B = B
  s = s  r = r  v = v
  s1 = s1  s2 = s2  r1 = r1  r2 = r2
  None = None
  Nodes = {A, B}
  NodeOf <- MCNodeOf
  Accounts <- OwnConns
  Users = {s, r}
  Conns = {s1, s2, r2}
  Leavers = {r2}
  Msgs <- OnePrivate
  Requests = {q1, q2}
  Logins = {l1, l2}
  MaxFaults = 1
  MaxBadFrames = 0
SYMMETRY Perms
INVARIANTS OneAnswer NoDuplicateDelivery
CHECK_DEADLOCK FALSE
