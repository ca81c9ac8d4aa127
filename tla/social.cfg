SPECIFICATION FairSpec
CONSTANTS
  ua = ua  ub = ub  un = un
  q1 = q1  q2 = q2  q3 = q3
  t1 = t1  t2 = t2
  None = None
  Threads = {t1, t2}
  MaxSize = 2
  Users = {ua, ub, un}
  Groups = {1, 2}
  Registered = {ua, ub}
  Requests = {q1, q2, q3}
  Scenarios <- All
  MaxFaults = 1
INVARIANTS FriendsSymmetric CreatorIsMember PoolSound AckTrue AppliedOnce
 
CHECK_DEADLOCK FALSE
