---------------------------- MODULE ChatCluster ----------------------------
(***************************************************************************)
(* The chat service: several nodes behind a TCP load balancer, sharing one *)
(* Redis (online set, idempotency marks, cached acks, Pub/Sub channel) and *)
(* one MySQL (user state, offline messages).                               *)
(*                                                                         *)
(* Every node has ONE I/O thread, which runs the connection callbacks and  *)
(* the synchronous part of every handler, a worker pool, which runs the    *)
(* lambdas given to threadpool_.run, and a Redis subscriber thread.        *)
(* Each access to state that another thread or node can see (the map under *)
(* m_mutex, a Redis command, a SQL statement) is a step of its own.        *)
(***************************************************************************)
EXTENDS Integers, Sequences, FiniteSets

CONSTANTS
  Nodes,        \* the server processes
  Users,        \* registered user ids
  Conns,        \* client TCP connections
  NodeOf,       \* the node each connection was routed to by the balancer
  Accounts,     \* the users that log in through each connection
  Leavers,      \* the connections that may be closed by the client or log out
  Msgs,         \* chat messages: [from, kind, to, id, seq]
  Requests,     \* transmissions of chat messages, retransmissions included
  Logins,       \* login attempts with the right password
  None,
  MaxFaults,    \* bound on crashes, lost Redis connections and failed INSERTs
  MaxBadFrames  \* bound on frames with an invalid length prefix

(* A message names its recipients: one user for a private message, the     *)
(* members of the group (the sender among them) for a group message.       *)
Message == [from : Users, kind : {"private", "group"}, to : SUBSET Users,
            id : Nat, seq : Nat]

ASSUME ClusterAssumption ==
  /\ IsFiniteSet(Users) /\ IsFiniteSet(Conns)
  /\ NodeOf \in [Conns -> Nodes]
  /\ Accounts \in [Conns -> SUBSET Users]
  /\ Leavers \subseteq Conns
  /\ Msgs \subseteq Message
  /\ \A m \in Msgs : m.kind = "private" => \E u \in Users : m.to = {u}
  /\ MaxFaults \in Nat /\ MaxBadFrames \in Nat
  /\ None \notin Users /\ None \notin Conns /\ None \notin Msgs
  /\ None \notin Requests \cup Logins
  /\ Requests \cap Logins = {} /\ Requests \cap Conns = {} /\ Logins \cap Conns = {}

VARIABLES
  conn,         \* TcpConnection state of each connection
  io,           \* what the I/O thread of each node is running
  userConnMap,  \* _userConnMap of each node
  login,        \* each login attempt: I/O handler, then offline-delivery task
  leave,        \* clientCloseException / loginOut running for a connection
  req,          \* each transmission: I/O handler, then routing task
  online,       \* Redis SET chat:online_users
  dedup,        \* Redis keys dedup:{from}:{id}
  ackCache,     \* Redis keys ack:{from}:{id}
  cmdUp,        \* the node's Redis command connection works
  subUp,        \* the node's Redis subscriber thread runs
  channel,      \* chat:cross_node messages not yet read by each subscriber
  forward,      \* the frame each subscriber thread is about to send
  userState,    \* User.state in MySQL
  offline,      \* table OfflineMessage
  recv,         \* chat frames handed to each open connection, by message
  faults, badFrames

nodeVars  == <<conn, userConnMap, leave>>
redisVars == <<online, dedup, ackCache>>
linkVars  == <<cmdUp, subUp, faults, badFrames>>
subVars   == <<channel, forward>>
dbVars    == <<userState, offline>>
vars == <<nodeVars, io, login, req, redisVars, linkVars, subVars, dbVars, recv>>

-----------------------------------------------------------------------------
(* Types and helpers *)

Key(m) == <<m.from, m.id>>
Keys   == {Key(m) : m \in Msgs}
Rows   == [to : Users, msg : Msgs]
Acks   == {"delivered", "forwarded", "stored", "sent", "nogroup", "duplicate"}

LoginPcs == {"free", "map", "sadd", "fetch", "deliver", "remove", "done", "lost"}
LeavePcs == {"idle", "scan", "state", "srem"}
ReqPcs   == {"free", "dedup", "cached", "lookup", "classify", "local", "route",
             "publish", "store", "ack", "cache", "done", "dup", "lost", "dropped"}

TypeOK ==
  /\ conn \in [Conns -> {"fresh", "up", "closing", "down"}]
  /\ io \in [Nodes -> Requests \cup Logins \cup Conns \cup {None}]
  /\ userConnMap \in [Nodes -> [Users -> Conns \cup {None}]]
  /\ login \in [Logins -> [pc : LoginPcs, user : Users \cup {None},
                           conn : Conns \cup {None}, ackSeq : Nat,
                           batch : SUBSET Rows]]
  /\ leave \in [Conns -> [pc : LeavePcs, user : Users \cup {None}]]
  /\ req \in [Requests -> [pc : ReqPcs, msg : Msgs \cup {None},
                           conn : Conns \cup {None},
                           local : SUBSET (Users \X Conns), todo : SUBSET Users,
                           cur : Users \cup {None}, res : Acks \cup {None}, ack : Acks \cup {None}]]
  /\ online \subseteq Users
  /\ dedup \subseteq Keys
  /\ ackCache \in [Keys -> Acks \cup {None}]
  /\ cmdUp \in [Nodes -> BOOLEAN] /\ subUp \in [Nodes -> BOOLEAN]
  /\ channel \in [Nodes -> Seq(Rows)]
  /\ forward \in [Nodes -> [conn : Conns \cup {None}, msg : Msgs \cup {None}]]
  /\ userState \in [Users -> {"online", "offline"}]
  /\ offline \subseteq Rows
  /\ recv \in [Conns -> [Msgs -> Nat]]
  /\ faults \in Nat /\ badFrames \in Nat

NoLogin == [pc |-> "free", user |-> None, conn |-> None, ackSeq |-> 0, batch |-> {}]
NoReq   == [pc |-> "free", msg |-> None, conn |-> None, local |-> {}, todo |-> {},
            cur |-> None, res |-> None, ack |-> None]
NoFrame == [conn |-> None, msg |-> None]

Init ==
  /\ conn = [c \in Conns |-> "fresh"]
  /\ io = [n \in Nodes |-> None]
  /\ userConnMap = [n \in Nodes |-> [u \in Users |-> None]]
  /\ login = [l \in Logins |-> NoLogin]
  /\ leave = [c \in Conns |-> [pc |-> "idle", user |-> None]]
  /\ req = [r \in Requests |-> NoReq]
  /\ online = {} /\ dedup = {}
  /\ ackCache = [k \in Keys |-> None]
  /\ cmdUp = [n \in Nodes |-> TRUE] /\ subUp = [n \in Nodes |-> TRUE]
  /\ channel = [n \in Nodes |-> <<>>]
  /\ forward = [n \in Nodes |-> NoFrame]
  /\ userState = [u \in Users |-> "offline"]
  /\ offline = {}
  /\ recv = [c \in Conns |-> [m \in Msgs |-> 0]]
  /\ faults = 0 /\ badFrames = 0

Connected(c) == conn[c] = "up"

(* Lookup in _userConnMap: the entry exists and its connection is usable.  *)
Reachable(n, u) ==
  /\ userConnMap[n][u] # None
  /\ Connected(userConnMap[n][u])

(* Handlers skip the sender of a group message.                            *)
Receivers(m) == IF m.kind = "group" THEN m.to \ {m.from} ELSE m.to

(* The I/O thread of a connection's node runs one handler at a time.       *)
IoFree(c)    == io[NodeOf[c]] = None
IoTake(c, h) == io' = [io EXCEPT ![NodeOf[c]] = h]
IoRelease(c) == io' = [io EXCEPT ![NodeOf[c]] = None]

(* A sendFrame of m per element of targets (user, connection); a           *)
(* connection that is not connected gets nothing.                          *)
SendFrames(targets, m) ==
  recv' = [c \in Conns |-> [x \in Msgs |->
             IF x = m /\ Connected(c)
             THEN recv[c][x] + Cardinality({t \in targets : t[2] = c})
             ELSE recv[c][x]]]

-----------------------------------------------------------------------------
(* Connections *)

(* ChatServer::onConnection with conn->connected(): only a log line.       *)
Accept(c) ==
  /\ conn[c] = "fresh"
  /\ IoFree(c)
  /\ conn' = [conn EXCEPT ![c] = "up"]
  /\ UNCHANGED <<userConnMap, leave, io, login, req, redisVars, linkVars,
                 subVars, dbVars, recv>>

(* The client closes: TcpConnection::connectDestroyed sets kDisconnected   *)
(* and calls onConnection, which calls clientCloseException.               *)
ClientClose(c) ==
  /\ c \in Leavers
  /\ Connected(c) /\ IoFree(c)
  /\ conn' = [conn EXCEPT ![c] = "down"]
  /\ leave' = [leave EXCEPT ![c] = [pc |-> "scan", user |-> None]]
  /\ IoTake(c, c)
  /\ UNCHANGED <<userConnMap, login, req, redisVars, linkVars, subVars,
                 dbVars, recv>>

(* The entries of the node's map that hold this connection.                *)
Mine(c) == {u \in Users : userConnMap[NodeOf[c]][u] = c}

(* clientCloseException erases the first entry of the (unordered) map that *)
(* holds this connection, and stops at it.                                 *)
CloseScan(c) ==
  /\ leave[c].pc = "scan"
  /\ \/ \E u \in Mine(c) :
          /\ userConnMap' = [userConnMap EXCEPT ![NodeOf[c]][u] = None]
          /\ leave' = [leave EXCEPT ![c] = [pc |-> "state", user |-> u]]
          /\ UNCHANGED io
     \/ /\ Mine(c) = {}
        /\ leave' = [leave EXCEPT ![c].pc = "idle"]
        /\ IoRelease(c)
        /\ UNCHANGED userConnMap
  /\ UNCHANGED <<conn, login, req, redisVars, linkVars, subVars, dbVars, recv>>

(* loginOut erases the user's entry whatever connection it holds.          *)
LogoutErase(c, u) ==
  /\ c \in Leavers
  /\ Connected(c) /\ IoFree(c)
  /\ \E l \in Logins : /\ login[l].conn = c /\ login[l].user = u
                       /\ login[l].pc \in {"fetch", "deliver", "remove", "done"}
  /\ userConnMap' = [userConnMap EXCEPT ![NodeOf[c]][u] = None]
  /\ leave' = [leave EXCEPT ![c] = [pc |-> "state", user |-> u]]
  /\ IoTake(c, c)
  /\ UNCHANGED <<conn, login, req, redisVars, linkVars, subVars, dbVars, recv>>

(* Both handlers then set User.state to offline ...                        *)
LeaveState(c) ==
  /\ leave[c].pc = "state"
  /\ userState' = [userState EXCEPT ![leave[c].user] = "offline"]
  /\ leave' = [leave EXCEPT ![c].pc = "srem"]
  /\ UNCHANGED <<conn, userConnMap, io, login, req, redisVars, linkVars,
                 subVars, offline, recv>>

(* ... and remove the user from the Redis online set.                      *)
OnlineAfterLeaveMut(c) == online  \* mutant: no SREM
OnlineAfterLeave(c) ==
  IF cmdUp[NodeOf[c]] THEN online \ {leave[c].user} ELSE online

LeaveSrem(c) ==
  /\ leave[c].pc = "srem"
  /\ online' = OnlineAfterLeave(c)
  /\ leave' = [leave EXCEPT ![c] = [pc |-> "idle", user |-> None]]
  /\ IoRelease(c)
  /\ UNCHANGED <<conn, userConnMap, login, req, dedup, ackCache, linkVars,
                 subVars, dbVars, recv>>

(* onMessage finds an invalid length prefix: conn->shutdown() leaves       *)
(* kConnected, so the connection no longer counts as connected.            *)
BadFrame(c) ==
  /\ badFrames < MaxBadFrames
  /\ Connected(c) /\ IoFree(c)
  /\ conn' = [conn EXCEPT ![c] = "closing"]
  /\ badFrames' = badFrames + 1
  /\ UNCHANGED <<userConnMap, leave, io, login, req, redisVars, cmdUp, subUp,
                 faults, subVars, dbVars, recv>>

(* The peer of a connection that was shut down closes it.                  *)
(* connectDestroyed calls the connection callback only in kConnected, so   *)
(* clientCloseException is not called.                                     *)
ClosedAfterShutdown(c) ==
  /\ conn[c] = "closing" /\ IoFree(c)
  /\ conn' = [conn EXCEPT ![c] = "down"]
  /\ UNCHANGED <<userConnMap, leave, io, login, req, redisVars, linkVars,
                 subVars, dbVars, recv>>

-----------------------------------------------------------------------------
(* login: I/O thread up to the ACK, then a task for the offline messages   *)

(* LoginRequest.last_ack_seq: 0, or the seq of a message the client got.   *)
Watermarks(u) ==
  {0} \cup {m.seq : m \in {x \in Msgs : /\ u \in Receivers(x)
                                       /\ \E c \in Conns : /\ u \in Accounts[c]
                                                           /\ recv[c][x] > 0}}

(* The password is right (a failed login changes nothing): updateState.    *)
LoginState(l, c, u, k) ==
  /\ login[l].pc = "free"
  /\ Connected(c) /\ IoFree(c)
  /\ userState' = [userState EXCEPT ![u] = "online"]
  /\ login' = [login EXCEPT ![l] = [NoLogin EXCEPT !.pc = "map", !.user = u,
                                                   !.conn = c, !.ackSeq = k]]
  /\ IoTake(c, l)
  /\ UNCHANGED <<nodeVars, req, redisVars, linkVars, subVars, offline, recv>>

LoginMap(l) ==
  LET c == login[l].conn IN
  /\ login[l].pc = "map"
  /\ userConnMap' = [userConnMap EXCEPT ![NodeOf[c]][login[l].user] = c]
  /\ login' = [login EXCEPT ![l].pc = "sadd"]
  /\ UNCHANGED <<conn, leave, io, req, redisVars, linkVars, subVars, dbVars,
                 recv>>

(* SADD, then the ACK and threadpool_.run.                                 *)
OnlineAfterLogin(l) ==
  IF cmdUp[NodeOf[login[l].conn]] THEN online \cup {login[l].user} ELSE online

LoginSadd(l) ==
  /\ login[l].pc = "sadd"
  /\ online' = OnlineAfterLogin(l)
  /\ login' = [login EXCEPT ![l].pc = "fetch"]
  /\ IoRelease(login[l].conn)
  /\ UNCHANGED <<nodeVars, req, dedup, ackCache, linkVars, subVars, dbVars,
                 recv>>

(* _offlineMsgModel->query; nothing more is done when it returns no row.   *)
LoginFetch(l) ==
  LET rows == {x \in offline : x.to = login[l].user} IN
  /\ login[l].pc = "fetch"
  /\ login' = [login EXCEPT ![l].batch = rows,
                            ![l].pc = IF rows = {} THEN "done" ELSE "deliver"]
  /\ UNCHANGED <<nodeVars, io, req, redisVars, linkVars, subVars, dbVars, recv>>

(* Rows the client's watermark does not cover are sent.                    *)
Unseen(l) == {x \in login[l].batch : ~(x.msg.seq > 0 /\ x.msg.seq <= login[l].ackSeq)}

LoginDeliver(l) ==
  LET c == login[l].conn IN
  /\ login[l].pc = "deliver"
  /\ recv' = IF Connected(c)
             THEN [recv EXCEPT ![c] = [m \in Msgs |->
                    @[m] + IF [to |-> login[l].user, msg |-> m] \in Unseen(l) THEN 1 ELSE 0]]
             ELSE recv
  /\ login' = [login EXCEPT ![l].pc = "remove"]
  /\ UNCHANGED <<nodeVars, io, req, redisVars, linkVars, subVars, dbVars>>

(* _offlineMsgModel->remove deletes every row of the user.                 *)
LoginRemove(l) ==
  /\ login[l].pc = "remove"
  /\ offline' = {x \in offline : x.to # login[l].user}
  /\ login' = [login EXCEPT ![l].pc = "done", ![l].batch = {}]
  /\ UNCHANGED <<nodeVars, io, req, redisVars, linkVars, subVars, userState,
                 recv>>

-----------------------------------------------------------------------------
(* oneChat and groupChat: the idempotency gate on the I/O thread           *)

ReqNode(r) == NodeOf[req[r].conn]
ReqAt(r, pc) == req[r].pc = pc
Goto(r, pc) == req' = [req EXCEPT ![r].pc = pc]

(* What the handler does once it owns the message: oneChat looks the       *)
(* recipient up on the I/O thread, groupChat hands over to the pool.       *)
Enter(c, m, r, pc) ==
  /\ req' = [req EXCEPT ![r] = [NoReq EXCEPT !.pc = pc, !.msg = m, !.conn = c]]
  /\ IoTake(c, r)

(* A chat request arrives; msg_id 0 switches the idempotency check off.    *)
Receive(r, c, m) ==
  /\ req[r].pc = "free"
  /\ Connected(c) /\ IoFree(c)
  /\ m.from \in Accounts[c]
  /\ Enter(c, m, r, IF m.id # 0 THEN "dedup" ELSE "lookup")
  /\ UNCHANGED <<nodeVars, login, redisVars, linkVars, subVars, dbVars, recv>>

(* tryAcquireDedup: SET NX; a command that gets no reply counts as "no".   *)
AcquiredAlways(r) == cmdUp[ReqNode(r)]  \* mutant: SET without NX
Acquired(r) == cmdUp[ReqNode(r)] /\ Key(req[r].msg) \notin dedup

TryAcquireDedup(r) ==
  /\ ReqAt(r, "dedup")
  /\ dedup' = IF Acquired(r) THEN dedup \cup {Key(req[r].msg)} ELSE dedup
  /\ Goto(r, IF Acquired(r) THEN "lookup" ELSE "cached")
  /\ UNCHANGED <<nodeVars, io, login, online, ackCache, linkVars, subVars,
                 dbVars, recv>>

(* A duplicate gets the cached ACK; without one, oneChat answers with a    *)
(* default success ACK and groupChat not at all.                           *)
CachedAck(r) == IF cmdUp[ReqNode(r)] THEN ackCache[Key(req[r].msg)] ELSE None
AnswerMut(r) == CachedAck(r)  \* mutant: no default answer
Answer(r) == IF CachedAck(r) = None /\ req[r].msg.kind = "private"
             THEN "duplicate" ELSE CachedAck(r)

GetCachedAck(r) ==
  /\ ReqAt(r, "cached")
  /\ req' = [req EXCEPT ![r].pc = "dup", ![r].ack = Answer(r)]
  /\ IoRelease(req[r].conn)
  /\ UNCHANGED <<nodeVars, login, redisVars, linkVars, subVars, dbVars, recv>>

-----------------------------------------------------------------------------
(* Routing: this node, another node through Pub/Sub, or the offline table  *)

(* oneChat, recipient on this node: forward, ACK on the I/O thread.        *)
OneChatLocal(r) ==
  LET m == req[r].msg
      n == ReqNode(r) IN
  /\ ReqAt(r, "lookup") /\ m.kind = "private"
  /\ \E u \in m.to : /\ Reachable(n, u)
                     /\ SendFrames({<<u, userConnMap[n][u]>>}, m)
  /\ req' = [req EXCEPT ![r].pc = "cache", ![r].res = "delivered",
                        ![r].ack = "delivered"]
  /\ UNCHANGED <<nodeVars, io, login, redisVars, linkVars, subVars, dbVars>>

(* oneChat, recipient not on this node: threadpool_.run.                   *)
OneChatRemote(r) ==
  LET m == req[r].msg IN
  /\ ReqAt(r, "lookup") /\ m.kind = "private"
  /\ \A u \in m.to : ~Reachable(ReqNode(r), u)
  /\ req' = [req EXCEPT ![r].pc = "route", ![r].todo = m.to]
  /\ IoRelease(req[r].conn)
  /\ UNCHANGED <<nodeVars, login, redisVars, linkVars, subVars, dbVars, recv>>

(* groupChat runs as a task from here on.                                  *)
GroupChatRun(r) ==
  /\ ReqAt(r, "lookup") /\ req[r].msg.kind = "group"
  /\ Goto(r, "classify")
  /\ IoRelease(req[r].conn)
  /\ UNCHANGED <<nodeVars, login, redisVars, linkVars, subVars, dbVars, recv>>

(* queryGroupMembers, then the members are told apart under m_mutex.       *)
GroupChatClassify(r) ==
  LET m == req[r].msg
      n == ReqNode(r)
      here == {u \in Receivers(m) : Reachable(n, u)} IN
  /\ ReqAt(r, "classify")
  /\ req' = [req EXCEPT ![r] =
       IF m.to = {}
       THEN [@ EXCEPT !.pc = "ack", !.res = "nogroup"]
       ELSE [@ EXCEPT !.pc = "local", !.res = "sent",
                      !.local = {<<u, userConnMap[n][u]>> : u \in here},
                      !.todo = Receivers(m) \ here]]
  /\ UNCHANGED <<nodeVars, io, login, redisVars, linkVars, subVars, dbVars,
                 recv>>

(* The connections found are used after m_mutex is released.               *)
GroupChatSendLocal(r) ==
  /\ ReqAt(r, "local")
  /\ SendFrames(req[r].local, req[r].msg)
  /\ req' = [req EXCEPT ![r].local = {},
                        ![r].pc = IF req[r].todo = {} THEN "ack" ELSE "route"]
  /\ UNCHANGED <<nodeVars, io, login, redisVars, linkVars, subVars, dbVars>>

(* isUserOnline decides between Pub/Sub and the offline table.             *)
Route(r, u) ==
  /\ ReqAt(r, "route") /\ u \in req[r].todo
  /\ req' = [req EXCEPT ![r].cur = u, ![r].todo = @ \ {u},
                        ![r].pc = IF cmdUp[ReqNode(r)] /\ u \in online
                                  THEN "publish" ELSE "store"]
  /\ UNCHANGED <<nodeVars, io, login, redisVars, linkVars, subVars, dbVars,
                 recv>>

(* The recipient is dealt with; a private message names its answer after   *)
(* the way it took.                                                        *)
Routed(r, way) ==
  req' = [req EXCEPT ![r].cur = None,
                     ![r].pc = IF req[r].todo = {} THEN "ack" ELSE "route",
                     ![r].res = IF req[r].msg.kind = "private" THEN way ELSE @]

(* PUBLISH reaches the nodes that are subscribed at this moment.           *)
SubscribersMut(r) == {ReqNode(r)}  \* mutant: only the publisher's own node
Subscribers(r) == IF cmdUp[ReqNode(r)] THEN {n \in Nodes : subUp[n]} ELSE {}

Publish(r) ==
  /\ ReqAt(r, "publish")
  /\ channel' = [n \in Nodes |->
       IF n \in Subscribers(r)
       THEN Append(channel[n], [to |-> req[r].cur, msg |-> req[r].msg])
       ELSE channel[n]]
  /\ Routed(r, "forwarded")
  /\ UNCHANGED <<nodeVars, io, login, redisVars, linkVars, forward, dbVars,
                 recv>>

(* UNIQUE KEY uk_from_msg (from_id, msg_id) of table OfflineMessage.       *)
InsertableMut(m) == \A x \in offline : x.msg.from # m.from  \* mutant: key without msg_id
Insertable(m) == \A x \in offline : Key(x.msg) # Key(m)

(* _offlineMsgModel->insert; its result is not looked at.                  *)
StoreOffline(r) ==
  LET m == req[r].msg IN
  /\ ReqAt(r, "store")
  /\ offline' = IF Insertable(m)
                THEN offline \cup {[to |-> req[r].cur, msg |-> m]}
                ELSE offline
  /\ Routed(r, "stored")
  /\ UNCHANGED <<nodeVars, io, login, redisVars, linkVars, subVars, userState,
                 recv>>

(* The INSERT fails (DB::update returns false).                            *)
StoreFails(r) ==
  /\ faults < MaxFaults
  /\ ReqAt(r, "store")
  /\ Routed(r, "stored")
  /\ faults' = faults + 1
  /\ UNCHANGED <<nodeVars, io, login, redisVars, cmdUp, subUp, badFrames,
                 subVars, dbVars, recv>>

(* The task's ACK to the sender, if it is still connected.                 *)
SendAck(r) ==
  /\ ReqAt(r, "ack")
  /\ req' = [req EXCEPT ![r].pc = "cache",
                        ![r].ack = IF Connected(req[r].conn) THEN req[r].res ELSE None]
  /\ UNCHANGED <<nodeVars, io, login, redisVars, linkVars, subVars, dbVars,
                 recv>>

(* cacheAck, the end of the handler on the I/O thread or in the pool.      *)
CacheAck(r) ==
  LET n == ReqNode(r) IN
  /\ ReqAt(r, "cache")
  /\ ackCache' = IF cmdUp[n] THEN [ackCache EXCEPT ![Key(req[r].msg)] = req[r].res]
                             ELSE ackCache
  /\ Goto(r, "done")
  /\ IF io[n] = r THEN IoRelease(req[r].conn) ELSE UNCHANGED io
  /\ UNCHANGED <<nodeVars, login, online, dedup, linkVars, subVars, dbVars,
                 recv>>

-----------------------------------------------------------------------------
(* The Redis subscriber thread of a node (initRedis' callback)             *)

(* A message for a user that is not here is ignored.                       *)
SubLookup(n) ==
  /\ subUp[n] /\ channel[n] # <<>> /\ forward[n] = NoFrame
  /\ LET x == Head(channel[n]) IN
       forward' = IF Reachable(n, x.to)
                  THEN [forward EXCEPT ![n] = [conn |-> userConnMap[n][x.to],
                                               msg |-> x.msg]]
                  ELSE forward
  /\ channel' = [channel EXCEPT ![n] = Tail(@)]
  /\ UNCHANGED <<nodeVars, io, login, req, redisVars, linkVars, dbVars, recv>>

SubSend(n) ==
  /\ forward[n] # NoFrame
  /\ recv' = IF Connected(forward[n].conn)
             THEN [recv EXCEPT ![forward[n].conn][forward[n].msg] = @ + 1]
             ELSE recv
  /\ forward' = [forward EXCEPT ![n] = NoFrame]
  /\ UNCHANGED <<nodeVars, io, login, req, redisVars, linkVars, channel,
                 dbVars>>

-----------------------------------------------------------------------------
(* Faults *)

(* The command connection breaks; nothing reconnects it.                   *)
CommandLinkLost(n) ==
  /\ faults < MaxFaults /\ cmdUp[n]
  /\ cmdUp' = [cmdUp EXCEPT ![n] = FALSE]
  /\ faults' = faults + 1
  /\ UNCHANGED <<nodeVars, io, login, req, redisVars, subUp, badFrames,
                 subVars, dbVars, recv>>

(* The subscription breaks: the subscriber thread ends.                    *)
SubscriberLost(n) ==
  /\ faults < MaxFaults /\ subUp[n] /\ forward[n] = NoFrame
  /\ subUp' = [subUp EXCEPT ![n] = FALSE]
  /\ channel' = [channel EXCEPT ![n] = <<>>]
  /\ faults' = faults + 1
  /\ UNCHANGED <<nodeVars, io, login, req, redisVars, cmdUp, badFrames,
                 forward, dbVars, recv>>

(* The process dies and is started again (initRedis connects): Redis and   *)
(* MySQL keep what it wrote, connections and running handlers are gone.    *)
Restart(n) ==
  LET here(c) == c # None /\ NodeOf[c] = n IN
  /\ faults < MaxFaults
  /\ faults' = faults + 1
  /\ conn' = [c \in Conns |-> IF NodeOf[c] = n /\ conn[c] # "fresh"
                              THEN "down" ELSE conn[c]]
  /\ io' = [io EXCEPT ![n] = None]
  /\ userConnMap' = [userConnMap EXCEPT ![n] = [u \in Users |-> None]]
  /\ login' = [l \in Logins |->
       IF here(login[l].conn) /\ login[l].pc # "done"
       THEN [login[l] EXCEPT !.pc = "lost", !.batch = {}] ELSE login[l]]
  /\ leave' = [c \in Conns |-> IF NodeOf[c] = n THEN [pc |-> "idle", user |-> None]
                                               ELSE leave[c]]
  /\ req' = [r \in Requests |->
       IF ~here(req[r].conn) \/ req[r].pc \in {"done", "dup", "lost", "dropped"}
       THEN req[r]
       ELSE [req[r] EXCEPT !.local = {}, !.todo = {}, !.cur = None,
               !.pc = IF @ \in {"dedup", "cached"} THEN "dropped" ELSE "lost"]]
  /\ cmdUp' = [cmdUp EXCEPT ![n] = TRUE]
  /\ subUp' = [subUp EXCEPT ![n] = TRUE]
  /\ channel' = [channel EXCEPT ![n] = <<>>]
  /\ forward' = [forward EXCEPT ![n] = NoFrame]
  /\ UNCHANGED <<redisVars, badFrames, dbVars, recv>>

-----------------------------------------------------------------------------
(* The specification *)

LoginStep(l) == LoginMap(l) \/ LoginSadd(l) \/ LoginFetch(l) \/ LoginDeliver(l)
                \/ LoginRemove(l)
LeaveStep(c) == CloseScan(c) \/ LeaveState(c) \/ LeaveSrem(c)
RequestStep(r) ==
  \/ TryAcquireDedup(r) \/ GetCachedAck(r)
  \/ OneChatLocal(r) \/ OneChatRemote(r)
  \/ GroupChatRun(r) \/ GroupChatClassify(r) \/ GroupChatSendLocal(r)
  \/ \E u \in Users : Route(r, u)
  \/ Publish(r) \/ StoreOffline(r) \/ SendAck(r) \/ CacheAck(r)
SubStep(n) == SubLookup(n) \/ SubSend(n)

Server == \/ \E l \in Logins : LoginStep(l)
          \/ \E c \in Conns : LeaveStep(c)
          \/ \E r \in Requests : RequestStep(r)
          \/ \E n \in Nodes : SubStep(n)

Client == \E c \in Conns :
            \/ Accept(c) \/ ClientClose(c) \/ BadFrame(c) \/ ClosedAfterShutdown(c)
            \/ \E u \in Accounts[c] : LogoutErase(c, u)
            \/ \E l \in Logins, u \in Accounts[c] : \E k \in Watermarks(u) : LoginState(l, c, u, k)
            \/ \E r \in Requests, m \in Msgs : Receive(r, c, m)

Fault == \/ \E n \in Nodes : CommandLinkLost(n) \/ SubscriberLost(n) \/ Restart(n)
         \/ \E r \in Requests : StoreFails(r)

Next == Server \/ Client \/ Fault

Spec == Init /\ [][Next]_vars

(* I/O loops, pool threads and subscriber threads keep running; clients    *)
(* and faults owe nothing.                                                 *)
Fairness == /\ \A l \in Logins : WF_vars(LoginStep(l))
            /\ \A c \in Conns : WF_vars(LeaveStep(c))
            /\ \A r \in Requests : WF_vars(RequestStep(r))
            /\ \A n \in Nodes : WF_vars(SubStep(n))

FairSpec == Spec /\ Fairness

-----------------------------------------------------------------------------
(* Properties *)

(* However often a message with an id is sent, to whichever nodes, and     *)
(* whatever fails, its sender is told one outcome: every ACK that is not   *)
(* the default duplicate answer says the same (chatservice.cpp:284-311).   *)
OneAnswer ==
  \A q1, q2 \in Requests :
    /\ req[q1].ack \notin {None, "duplicate"}
    /\ req[q2].ack \notin {None, "duplicate"}
    /\ req[q1].msg.id # 0 /\ Key(req[q1].msg) = Key(req[q2].msg)
    => req[q1].ack = req[q2].ack

(* A connection gets a message with an id at most once per login made on   *)
(* it for a recipient, over all ways of delivery: this node, Pub/Sub and   *)
(* the offline table.                                                      *)
NoDuplicateDelivery ==
  \A c \in Conns, m \in Msgs : m.id # 0 =>
    recv[c][m] <= Cardinality({l \in Logins : /\ login[l].conn = c
                                             /\ login[l].user \in Receivers(m)})

(* Once a request is answered, every recipient that has never tried to log *)
(* in has its row in the offline table: the ACK that says stored is true   *)
(* for all of them (01_create_tables.sql:87).                              *)
OfflineRecipientsStored ==
  \A q \in {x \in Requests : req[x].pc \in {"ack", "cache", "done"}
                             /\ req[x].res # "nogroup"} :
    \A u \in Receivers(req[q].msg) :
      (\A l \in Logins : login[l].user # u) => [to |-> u, msg |-> req[q].msg] \in offline

(* Rows leave the offline table only after a connection of their user got  *)
(* the message (README.md:734).                                            *)
RemoveOnlyDelivered ==
  [][\A x \in offline \ offline' :
       \E c \in Conns : x.to \in Accounts[c] /\ recv[c][x.msg] > 0]_vars

Quiet == \A n \in Nodes : io[n] = None

(* Between handlers the records of presence agree: a user is in the Redis  *)
(* set, online in MySQL, and in some node's map, or in none of them        *)
(* (README.md:194); and no map holds a connection that its client has      *)
(* closed, so nobody is kept online by it (chatservice.cpp:236).           *)
PresenceAgrees ==
  /\ Quiet => \A u \in Users :
       /\ u \in online <=> userState[u] = "online"
       /\ u \in online <=> \E n \in Nodes : userConnMap[n][u] # None
  /\ badFrames = 0 => \A n \in Nodes, u \in Users :
       io[n] = None /\ userConnMap[n][u] # None => conn[userConnMap[n][u]] # "down"

(* A user that stays logged in gets every message accepted for it after    *)
(* its login, through whichever node it was sent (README.md:380-385).      *)
Settled(u) == /\ u \in online
              /\ \E n \in Nodes : subUp[n] /\ Reachable(n, u)

SettledUserIsReached ==
  \A q \in Requests, u \in Users :
    (ReqAt(q, "lookup") /\ u \in Receivers(req[q].msg) /\ Settled(u))
      ~> (\E c \in Conns : /\ u \in Accounts[c]
                           /\ req[q].msg # None /\ recv[c][req[q].msg] > 0)

(* Every private request is answered while its connection lasts, also a    *)
(* retransmission that arrives before the first one is through.            *)
RequestsAnswered ==
  \A q \in Requests :
    (ReqAt(q, "dedup") /\ req[q].msg.kind = "private")
      ~> (\/ req[q].ack # None
          \/ req[q].conn # None /\ ~Connected(req[q].conn))

=============================================================================
