--------------------------- MODULE MCChatCluster ---------------------------
(* Instances of ChatCluster for TLC: nodes A and B, users s, r and v.      *)
EXTENDS ChatCluster, TLC

CONSTANTS A, B,             \* nodes
          s, r, v,          \* users
          s1, s2, r1, r2    \* connections: s1, r1 to node A, s2, r2 to node B

Perms == Permutations(Requests) \cup Permutations(Logins)

MCNodeOf == [c \in Conns |-> IF c \in {s1, r1} THEN A ELSE B]

(* Each user on connections of its own, to both nodes.                     *)
OwnConns == [c \in Conns |-> IF c \in {s1, s2} THEN {s} ELSE {r}]

(* Every user stays on one node: s on A, r on B.                           *)
PinnedNodeOf == [c \in Conns |-> IF c \in {s1, s2} THEN A ELSE B]

Private(from, to, id, seq) ==
  [from |-> from, kind |-> "private", to |-> {to}, id |-> id, seq |-> seq]
Group(from, to, id, seq) ==
  [from |-> from, kind |-> "group", to |-> to, id |-> id, seq |-> seq]

OnePrivate == {Private(s, r, 1, 1)}
OneGroup   == {Group(s, {s, r, v}, 1, 1)}
Mixed      == {Private(s, r, 1, 1), Group(s, {s, r}, 2, 2), Group(s, {}, 3, 3)}
=============================================================================
