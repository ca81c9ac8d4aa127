SPECIFICATION FairSpec
CONSTANTS
  A = A  B = B
  s = s  r = r  v = v
  s1 = s1  s2 = s2  r1 = r1  r2 = r2
  None = None
  Nodes = {A, B}
  NodeOf <- MCNodeOf
  Accounts <- OwnConns
  Users = {s, r}
  Conns = {s1, s2, r2}
  Leavers = {}
  Msgs <- Mixed
  Requests = {q1, q2}
  Logins = {l1}
  MaxFaults = 0
  MaxBadFrames = 0
 
PROPERTIES SettledUserIsReached RequestsAnswered
CHECK_DEADLOCK FALSE
