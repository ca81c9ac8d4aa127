------------------------- MODULE ChatClusterProofs -------------------------
(* Proofs about ChatCluster for every set of nodes, users, connections,    *)
(* messages, transmissions and logins, and every number of faults.         *)
EXTENDS ChatCluster, FiniteSetTheorems, TLAPS

(* What the steps of a handler rely on besides the types: a handler that   *)
(* has started has its connection, its message and its recipient.          *)
LoginBound == \A l \in Logins :
  /\ login[l].pc # "free" => login[l].user \in Users /\ login[l].conn \in Conns
  /\ login[l].pc = "free" => login[l].conn = None
LeaveBound == \A c \in Conns : leave[c].pc \in {"state", "srem"} =>
                leave[c].user \in Users
ReqBound == \A r \in Requests :
  /\ req[r].pc # "free" => req[r].msg \in Msgs /\ req[r].conn \in Conns
  /\ req[r].pc = "free" => req[r].conn = None
  /\ req[r].pc \in {"publish", "store"} => req[r].cur \in Users
FrameBound == \A n \in Nodes : forward[n] # NoFrame =>
                forward[n].conn \in Conns /\ forward[n].msg \in Msgs

LoginRec == [pc : LoginPcs, user : Users \cup {None}, conn : Conns \cup {None},
             ackSeq : Nat, batch : SUBSET Rows]
ReqRec == [pc : ReqPcs, msg : Msgs \cup {None}, conn : Conns \cup {None},
           local : SUBSET (Users \X Conns), todo : SUBSET Users,
           cur : Users \cup {None}, res : Acks \cup {None}, ack : Acks \cup {None}]
ReqTyped == req \in [Requests -> ReqRec] /\ ReqBound

TypeInv == TypeOK /\ LoginBound /\ LeaveBound /\ ReqBound /\ FrameBound

(* A message names its recipients.                                         *)
LEMMA MsgType ==
  ASSUME NEW m \in Msgs
  PROVE  /\ m.from \in Users /\ m.to \subseteq Users
         /\ m.kind \in {"private", "group"} /\ m.id \in Nat /\ m.seq \in Nat
         /\ m # None /\ Key(m) \in Keys /\ Receivers(m) \subseteq Users
  BY ClusterAssumption DEF ClusterAssumption, Message, Key, Keys, Receivers

(* The frames for one connection among finitely many targets are counted   *)
(* by a natural number.                                                    *)
LEMMA TargetCount ==
  ASSUME NEW S \in SUBSET (Users \X Conns), NEW c
  PROVE  Cardinality({t \in S : t[2] = c}) \in Nat
<1>1. IsFiniteSet(Users) /\ IsFiniteSet(Conns)
  BY ClusterAssumption DEF ClusterAssumption
<1>2. IsFiniteSet(Users \X Conns)
  BY <1>1, FS_Product
<1>3. IsFiniteSet({t \in S : t[2] = c})
  BY <1>2, FS_Subset
<1> QED
  BY <1>3, FS_CardinalityType

LEMMA FramesType ==
  ASSUME recv \in [Conns -> [Msgs -> Nat]], NEW m,
         NEW S \in SUBSET (Users \X Conns), SendFrames(S, m)
  PROVE  recv' \in [Conns -> [Msgs -> Nat]]
<1> DEFINE count(c) == Cardinality({t \in S : t[2] = c})
<1>1. \A c : count(c) \in Nat
  BY TargetCount
<1>2. recv' = [c \in Conns |-> [x \in Msgs |-> IF x = m /\ Connected(c)
                               THEN recv[c][x] + count(c) ELSE recv[c][x]]]
  BY DEF SendFrames
<1> HIDE DEF count
<1> QED
  BY <1>1, <1>2

LEMMA TypeInit == Init => TypeInv
  BY ClusterAssumption DEF ClusterAssumption, Init, TypeInv, TypeOK, LoginBound, LeaveBound, ReqBound,
     FrameBound, NoLogin, NoReq, NoFrame, LoginPcs, LeavePcs, ReqPcs, Acks

(* The steps of connections and of the close and logout handlers.          *)
LEMMA ConnType ==
  ASSUME TypeInv, NEW c \in Conns,
         \/ Accept(c) \/ ClientClose(c) \/ BadFrame(c) \/ ClosedAfterShutdown(c)
         \/ CloseScan(c) \/ LeaveState(c) \/ LeaveSrem(c)
         \/ \E u \in Accounts[c] : LogoutErase(c, u)
  PROVE  TypeInv'
<1> USE ClusterAssumption DEF ClusterAssumption, nodeVars, redisVars, linkVars, subVars, dbVars,
      TypeInv, TypeOK, LoginBound, LeaveBound, ReqBound, FrameBound, IoTake, IoRelease,
      LeavePcs
<1>1. CASE Accept(c)
  BY <1>1 DEF Accept
<1>2. CASE ClientClose(c)
  BY <1>2 DEF ClientClose
<1>3. CASE BadFrame(c)
  BY <1>3 DEF BadFrame
<1>4. CASE ClosedAfterShutdown(c)
  BY <1>4 DEF ClosedAfterShutdown
<1>5. CASE CloseScan(c)
  <2>1. ASSUME leave' = [leave EXCEPT ![c].pc = "idle"], IoRelease(c),
               UNCHANGED userConnMap
        PROVE  TypeInv'
    <3>1. leave[c] \in [pc : LeavePcs, user : Users \cup {None}]
      OBVIOUS
    <3>2. leave' \in [Conns -> [pc : LeavePcs, user : Users \cup {None}]] /\ LeaveBound'
      BY <2>1, <3>1
    <3> QED
      BY <1>5, <2>1, <3>2 DEF CloseScan
  <2>2. ASSUME NEW u \in Users,
               userConnMap' = [userConnMap EXCEPT ![NodeOf[c]][u] = None],
               leave' = [leave EXCEPT ![c] = [pc |-> "state", user |-> u]],
               UNCHANGED io
        PROVE  TypeInv'
    BY <1>5, <2>2 DEF CloseScan
  <2> QED
    BY <1>5, <2>1, <2>2 DEF CloseScan, Mine
<1>6. CASE LeaveState(c)
  <2>1. leave[c].user \in Users /\ leave[c] \in [pc : LeavePcs, user : Users \cup {None}]
    BY <1>6 DEF LeaveState
  <2>2. leave' \in [Conns -> [pc : LeavePcs, user : Users \cup {None}]] /\ LeaveBound'
    BY <1>6, <2>1 DEF LeaveState
  <2> QED
    BY <1>6, <2>1, <2>2 DEF LeaveState
<1>7. CASE LeaveSrem(c)
  BY <1>7 DEF LeaveSrem, OnlineAfterLeave
<1>8. CASE \E u \in Accounts[c] : LogoutErase(c, u)
  BY <1>8 DEF LogoutErase
<1> QED
  BY <1>1, <1>2, <1>3, <1>4, <1>5, <1>6, <1>7, <1>8

(* The steps of a login attempt.                                           *)
LEMMA LoginType ==
  ASSUME TypeInv, NEW l \in Logins,
         \/ LoginStep(l)
         \/ \E c \in Conns, u \in Users, k \in Nat : LoginState(l, c, u, k)
  PROVE  TypeInv'
<1> USE ClusterAssumption DEF ClusterAssumption, nodeVars, redisVars, linkVars, subVars, dbVars,
      TypeInv, TypeOK, LoginBound, LeaveBound, ReqBound, FrameBound, IoTake, IoRelease,
      LoginPcs
<1>0. login[l] \in LoginRec
  BY DEF LoginRec
<1> USE DEF LoginRec
<1>1. CASE LoginMap(l)
  <2>1. login' \in [Logins -> LoginRec] /\ LoginBound'
    BY <1>0, <1>1 DEF LoginMap
  <2> QED
    BY <1>1, <2>1 DEF LoginMap
<1>2. CASE LoginSadd(l)
  <2>1. login' \in [Logins -> LoginRec] /\ LoginBound'
    BY <1>0, <1>2 DEF LoginSadd
  <2>2. online' \subseteq Users
    BY <1>2 DEF LoginSadd, OnlineAfterLogin
  <2> QED
    BY <1>2, <2>1, <2>2 DEF LoginSadd
<1>3. CASE LoginFetch(l)
  <2>1. login' \in [Logins -> LoginRec] /\ LoginBound'
    BY <1>0, <1>3 DEF LoginFetch
  <2> QED
    BY <1>3, <2>1 DEF LoginFetch
<1>4. CASE LoginDeliver(l)
  <2>1. login' \in [Logins -> LoginRec] /\ LoginBound'
    BY <1>0, <1>4 DEF LoginDeliver
  <2>2. recv' \in [Conns -> [Msgs -> Nat]]
    BY <1>4 DEF LoginDeliver
  <2> QED
    BY <1>4, <2>1, <2>2 DEF LoginDeliver
<1>5. CASE LoginRemove(l)
  <2>1. login' \in [Logins -> LoginRec] /\ LoginBound'
    BY <1>0, <1>5 DEF LoginRemove
  <2> QED
    BY <1>5, <2>1 DEF LoginRemove
<1>6. ASSUME NEW c \in Conns, NEW u \in Users, NEW k \in Nat, LoginState(l, c, u, k)
      PROVE  TypeInv'
  <2> DEFINE q == [NoLogin EXCEPT !.pc = "map", !.user = u, !.conn = c, !.ackSeq = k]
  <2>a. q \in LoginRec /\ q.pc = "map" /\ q.user = u /\ q.conn = c
    <3>1. NoLogin \in LoginRec
      BY DEF NoLogin
    <3> QED
      BY <3>1
  <2>b. login' = [login EXCEPT ![l] = q]
    BY <1>6 DEF LoginState
  <2>c. login \in [Logins -> LoginRec] /\ LoginBound
    OBVIOUS
  <2>1. login' \in [Logins -> LoginRec] /\ LoginBound'
    <3> HIDE DEF TypeInv, TypeOK
    <3> QED
      BY <1>6, <2>a, <2>b, <2>c
  <2> QED
    BY <1>6, <2>1 DEF LoginState
<1> QED
  BY <1>1, <1>2, <1>3, <1>4, <1>5, <1>6 DEF LoginStep

(* The steps of a chat request: its own record first, then the other       *)
(* variables.                                                              *)
LEMMA RequestRecord ==
  ASSUME TypeInv, NEW r \in Requests,
         \/ RequestStep(r) \/ StoreFails(r)
         \/ \E c \in Conns, m \in Msgs : Receive(r, c, m)
  PROVE  ReqTyped'
<1>0. ReqTyped /\ req[r] \in ReqRec
  BY DEF TypeInv, TypeOK, ReqTyped, ReqRec
<1>m. req[r].pc # "free" => /\ req[r].msg \in Msgs /\ Key(req[r].msg) \in Keys
                            /\ req[r].conn \in Conns
                            /\ req[r].msg.to \subseteq Users
                            /\ Receivers(req[r].msg) \subseteq Users
  BY <1>0, MsgType DEF ReqTyped, ReqBound
<1> USE <1>0 DEF ReqTyped, ReqBound, ReqAt, Goto, ReqRec, ReqPcs
<1>1. CASE TryAcquireDedup(r)
  BY <1>1 DEF TryAcquireDedup
<1>2. CASE GetCachedAck(r)
  <2>1. Answer(r) \in Acks \cup {None}
    BY <1>m, <1>2 DEF TypeInv, TypeOK, GetCachedAck, Answer, CachedAck, Acks
  <2>2. req' \in [Requests -> ReqRec]
    BY <1>2, <2>1 DEF GetCachedAck
  <2>3. ReqBound'
    BY <1>2 DEF GetCachedAck
  <2> QED
    BY <2>2, <2>3
<1>3. CASE OneChatLocal(r)
  <2>1. req' \in [Requests -> ReqRec]
    BY <1>3 DEF OneChatLocal, Acks
  <2>2. ReqBound'
    BY <1>3 DEF OneChatLocal
  <2> QED
    BY <2>1, <2>2
<1>4. CASE OneChatRemote(r)
  <2>1. req' \in [Requests -> ReqRec]
    BY <1>m, <1>4 DEF OneChatRemote
  <2>2. ReqBound'
    BY <1>4 DEF OneChatRemote
  <2> QED
    BY <2>1, <2>2
<1>5. CASE GroupChatRun(r)
  BY <1>5 DEF GroupChatRun
<1>6. CASE GroupChatClassify(r)
  <2> DEFINE here == {u \in Receivers(req[r].msg) : Reachable(ReqNode(r), u)}
             local == {<<u, userConnMap[ReqNode(r)][u]>> : u \in here}
  <2>1. here \subseteq Users /\ Receivers(req[r].msg) \ here \subseteq Users
    BY <1>m, <1>6 DEF GroupChatClassify
  <2>2. local \subseteq Users \X Conns
    BY <1>m, <1>6, ClusterAssumption
       DEF GroupChatClassify, Reachable, ReqNode, TypeInv, TypeOK, ClusterAssumption
  <2>3. req' = [req EXCEPT ![r] = req'[r]]
    BY <1>6 DEF GroupChatClassify
  <2>4. \/ req'[r] = [req[r] EXCEPT !.pc = "ack", !.res = "nogroup"]
        \/ req'[r] = [req[r] EXCEPT !.pc = "local", !.res = "sent", !.local = local,
                                   !.todo = Receivers(req[r].msg) \ here]
    BY <1>6 DEF GroupChatClassify
  <2>5. req'[r] \in ReqRec /\ req'[r].pc \in {"ack", "local"}
        /\ req'[r].msg = req[r].msg /\ req'[r].conn = req[r].conn
    <3> HIDE DEF here, local
    <3>1. CASE req'[r] = [req[r] EXCEPT !.pc = "ack", !.res = "nogroup"]
      BY <3>1 DEF Acks
    <3>2. CASE req'[r] = [req[r] EXCEPT !.pc = "local", !.res = "sent", !.local = local,
                                   !.todo = Receivers(req[r].msg) \ here]
      BY <2>1, <2>2, <3>2 DEF Acks
    <3> QED
      BY <2>4, <3>1, <3>2
  <2> QED
    BY <1>m, <1>6, <2>3, <2>5 DEF GroupChatClassify
<1>7. CASE GroupChatSendLocal(r)
  <2>1. req' \in [Requests -> ReqRec]
    BY <1>7 DEF GroupChatSendLocal
  <2>2. ReqBound'
    BY <1>7 DEF GroupChatSendLocal
  <2> QED
    BY <2>1, <2>2
<1>8. ASSUME NEW u \in Users, Route(r, u)
      PROVE  ReqTyped'
  <2>1. req' \in [Requests -> ReqRec]
    BY <1>8 DEF Route
  <2>2. ReqBound'
    BY <1>8 DEF Route
  <2> QED
    BY <2>1, <2>2
<1>9. ASSUME NEW way \in {"forwarded", "stored"}, Routed(r, way), req[r].pc # "free"
      PROVE  ReqTyped'
  <2> DEFINE res == IF req[r].msg.kind = "private" THEN way ELSE req[r].res
             pc == IF req[r].todo = {} THEN "ack" ELSE "route"
  <2>a. res \in Acks \cup {None} /\ pc \in {"ack", "route"}
    BY DEF Acks
  <2>b. req' = [req EXCEPT ![r].cur = None, ![r].pc = pc, ![r].res = res]
    BY <1>9 DEF Routed
  <2> HIDE DEF res, pc
  <2>1. req' \in [Requests -> ReqRec]
    BY <2>a, <2>b
  <2>2. ReqBound'
    BY <1>9, <2>a, <2>b
  <2> QED
    BY <2>1, <2>2
<1>10. CASE SendAck(r)
  <2>1. req' \in [Requests -> ReqRec]
    BY <1>10 DEF SendAck
  <2>2. ReqBound'
    BY <1>10 DEF SendAck
  <2> QED
    BY <2>1, <2>2
<1>11. CASE CacheAck(r)
  BY <1>11 DEF CacheAck
<1>12. ASSUME NEW c \in Conns, NEW m \in Msgs, Receive(r, c, m)
       PROVE  ReqTyped'
  <2>1. req' \in [Requests -> ReqRec]
    BY <1>12 DEF Receive, Enter, NoReq
  <2>2. ReqBound'
    BY <1>12 DEF Receive, Enter, NoReq
  <2> QED
    BY <2>1, <2>2
<1> QED
  BY <1>1, <1>2, <1>3, <1>4, <1>5, <1>6, <1>7, <1>8, <1>9, <1>10, <1>11, <1>12
     DEF RequestStep, Publish, StoreOffline, StoreFails

LEMMA RequestType ==
  ASSUME TypeInv, NEW r \in Requests,
         \/ RequestStep(r) \/ StoreFails(r)
         \/ \E c \in Conns, m \in Msgs : Receive(r, c, m)
  PROVE  TypeInv'
<1> USE ClusterAssumption DEF ClusterAssumption, nodeVars, redisVars, linkVars, subVars, dbVars,
      TypeInv, TypeOK, LoginBound, LeaveBound, FrameBound, IoTake, IoRelease
<1>0. ReqTyped' /\ req[r] \in ReqRec
  BY RequestRecord DEF ReqRec
<1>r. req' \in [Requests -> ReqRec] /\ ReqBound'
  BY <1>0 DEF ReqTyped
<1>m. req[r].pc # "free" => /\ req[r].msg \in Msgs /\ Key(req[r].msg) \in Keys
                            /\ req[r].conn \in Conns
                            /\ ReqNode(r) \in Nodes
                            /\ req[r].msg.to \subseteq Users
  BY MsgType DEF ReqBound, ReqNode
<1> USE <1>r DEF ReqRec
<1>1. CASE TryAcquireDedup(r)
  <2>1. dedup' \subseteq Keys
    BY <1>m, <1>1 DEF TryAcquireDedup, ReqAt
  <2> QED
    BY <1>1, <2>1 DEF TryAcquireDedup
<1>2. CASE GetCachedAck(r)
  BY <1>2 DEF GetCachedAck
<1>3. CASE OneChatLocal(r)
  <2>1. PICK u \in Users : /\ Reachable(ReqNode(r), u)
                           /\ SendFrames({<<u, userConnMap[ReqNode(r)][u]>>}, req[r].msg)
    BY <1>m, <1>3 DEF OneChatLocal, ReqAt
  <2>2. userConnMap[ReqNode(r)][u] \in Conns
    BY <1>m, <1>3, <2>1 DEF OneChatLocal, ReqAt, Reachable
  <2>3. {<<u, userConnMap[ReqNode(r)][u]>>} \in SUBSET (Users \X Conns)
    BY <2>2
  <2>4. recv' \in [Conns -> [Msgs -> Nat]]
    BY <2>1, <2>3, FramesType
  <2> QED
    BY <1>3, <2>4 DEF OneChatLocal
<1>4. CASE OneChatRemote(r)
  BY <1>4 DEF OneChatRemote
<1>5. CASE GroupChatRun(r)
  BY <1>5 DEF GroupChatRun
<1>6. CASE GroupChatClassify(r)
  BY <1>6 DEF GroupChatClassify
<1>7. CASE GroupChatSendLocal(r)
  <2>1. recv' \in [Conns -> [Msgs -> Nat]]
    BY <1>0, <1>7, FramesType DEF GroupChatSendLocal
  <2> QED
    BY <1>7, <2>1 DEF GroupChatSendLocal
<1>8. ASSUME NEW u \in Users, Route(r, u)
      PROVE  TypeInv'
  BY <1>8 DEF Route
<1>9. CASE Publish(r)
  <2>1. [to |-> req[r].cur, msg |-> req[r].msg] \in Rows
    BY <1>m, <1>9 DEF Publish, Rows, ReqAt, ReqBound
  <2>2. channel' \in [Nodes -> Seq(Rows)]
    BY <1>9, <2>1 DEF Publish
  <2> QED
    BY <1>9, <2>2 DEF Publish
<1>10. CASE StoreOffline(r)
  <2>1. [to |-> req[r].cur, msg |-> req[r].msg] \in Rows
    BY <1>m, <1>10 DEF StoreOffline, Rows, ReqAt, ReqBound
  <2>2. offline' \subseteq Rows
    BY <1>10, <2>1 DEF StoreOffline
  <2> QED
    BY <1>10, <2>2 DEF StoreOffline
<1>11. CASE StoreFails(r)
  BY <1>11 DEF StoreFails
<1>12. CASE SendAck(r)
  BY <1>12 DEF SendAck
<1>13. CASE CacheAck(r)
  <2>1. io' \in [Nodes -> Requests \cup Logins \cup Conns \cup {None}]
    BY <1>13 DEF CacheAck
  <2>2. ackCache' \in [Keys -> Acks \cup {None}]
    BY <1>0, <1>m, <1>13 DEF CacheAck, ReqAt
  <2> QED
    BY <1>13, <2>1, <2>2 DEF CacheAck
<1>14. ASSUME NEW c \in Conns, NEW m \in Msgs, Receive(r, c, m)
       PROVE  TypeInv'
  BY <1>14 DEF Receive, Enter
<1> QED
  BY <1>1, <1>2, <1>3, <1>4, <1>5, <1>6, <1>7, <1>8, <1>9, <1>10, <1>11, <1>12,
     <1>13, <1>14 DEF RequestStep

(* A restart leaves every login and every request a well-formed record.    *)
LEMMA RestartLogin ==
  ASSUME TypeInv, NEW n \in Nodes, Restart(n)
  PROVE  login' \in [Logins -> LoginRec] /\ LoginBound'
<1>1. login \in [Logins -> LoginRec] /\ LoginBound
  BY DEF TypeInv, TypeOK, LoginRec
<1>2. login' = [l \in Logins |->
         IF (login[l].conn # None /\ NodeOf[login[l].conn] = n) /\ login[l].pc # "done"
         THEN [login[l] EXCEPT !.pc = "lost", !.batch = {}] ELSE login[l]]
  BY DEF Restart
<1>3. ASSUME NEW l \in Logins
      PROVE  /\ login'[l] \in LoginRec /\ login'[l].user = login[l].user
             /\ login'[l].conn = login[l].conn
             /\ login'[l].pc = "free" <=> login[l].pc = "free"
  <2>1. login[l] \in LoginRec
    BY <1>1
  <2>2. [login[l] EXCEPT !.pc = "lost", !.batch = {}] \in LoginRec
    BY <2>1 DEF LoginRec, LoginPcs
  <2> QED
    BY <1>1, <1>2, <2>1, <2>2 DEF LoginRec, LoginBound
<1>4. login' \in [Logins -> LoginRec]
  BY <1>2, <1>3
<1> QED
  BY <1>1, <1>4, <1>2, <1>3 DEF LoginBound

LEMMA RestartReq ==
  ASSUME TypeInv, NEW n \in Nodes, Restart(n)
  PROVE  /\ ReqTyped'
         /\ \A q \in Requests :
              /\ req'[q].msg = req[q].msg /\ req'[q].conn = req[q].conn
              /\ req'[q].res = req[q].res /\ req'[q].ack = req[q].ack
              /\ \/ req'[q].pc = req[q].pc
                 \/ req[q].pc \in {"dedup", "cached"} /\ req'[q].pc = "dropped"
                 \/ /\ req[q].pc \notin {"free", "dedup", "cached", "done", "dup", "lost", "dropped"}
                    /\ req'[q].pc = "lost"
<1>1. ReqTyped
  BY DEF TypeInv, TypeOK, ReqTyped, ReqRec
<1> DEFINE ended(q) == req[q].pc \in {"done", "dup", "lost", "dropped"}
           pc(q) == IF req[q].pc \in {"dedup", "cached"} THEN "dropped" ELSE "lost"
           gone(q) == [req[q] EXCEPT !.local = {}, !.todo = {}, !.cur = None, !.pc = pc(q)]
<1>2. req' = [q \in Requests |->
                IF ~(req[q].conn # None /\ NodeOf[req[q].conn] = n) \/ ended(q)
                THEN req[q] ELSE gone(q)]
  BY DEF Restart
<1>3. ASSUME NEW q \in Requests
      PROVE  /\ gone(q) \in ReqRec
             /\ gone(q).msg = req[q].msg /\ gone(q).conn = req[q].conn
             /\ gone(q).res = req[q].res /\ gone(q).ack = req[q].ack
             /\ gone(q).pc = pc(q)
  BY <1>1 DEF ReqTyped, ReqRec, ReqPcs
<1>4. \A q \in Requests : req'[q] = req[q] \/ (~ended(q) /\ req[q].conn # None /\ req'[q] = gone(q))
  BY <1>2
<1> HIDE DEF gone
<1>5. req' \in [Requests -> ReqRec]
  BY <1>1, <1>2, <1>3 DEF ReqTyped
<1>6. ReqBound'
  BY <1>1, <1>3, <1>4 DEF ReqTyped, ReqBound
<1> QED
  <2>1. \A q \in Requests : req[q].conn # None => req[q].pc # "free"
    BY <1>1 DEF ReqTyped, ReqBound
  <2> QED
    BY <1>3, <1>4, <1>5, <1>6, <2>1 DEF ReqTyped

(* The steps of a node's subscriber thread and the faults of a node.       *)
LEMMA NodeType ==
  ASSUME TypeInv, NEW n \in Nodes,
         SubStep(n) \/ CommandLinkLost(n) \/ SubscriberLost(n) \/ Restart(n)
  PROVE  TypeInv'
<1> USE ClusterAssumption DEF ClusterAssumption, nodeVars, redisVars, linkVars, subVars, dbVars,
      TypeInv, TypeOK, LoginBound, LeaveBound, ReqBound, FrameBound
<1>1. CASE SubLookup(n)
  <2>1. /\ Head(channel[n]) \in Rows
        /\ channel' \in [Nodes -> Seq(Rows)]
    BY <1>1 DEF SubLookup
  <2>2. /\ forward' \in [Nodes -> [conn : Conns \cup {None}, msg : Msgs \cup {None}]]
        /\ FrameBound'
    BY <1>1, <2>1 DEF SubLookup, Rows, Reachable, NoFrame
  <2> QED
    BY <1>1, <2>1, <2>2 DEF SubLookup
<1>2. CASE SubSend(n)
  <2>1. recv' \in [Conns -> [Msgs -> Nat]]
    BY <1>2 DEF SubSend
  <2>2. /\ forward' \in [Nodes -> [conn : Conns \cup {None}, msg : Msgs \cup {None}]]
        /\ FrameBound'
    BY <1>2 DEF SubSend, NoFrame
  <2> QED
    BY <1>2, <2>1, <2>2 DEF SubSend
<1>3. CASE CommandLinkLost(n)
  BY <1>3 DEF CommandLinkLost
<1>4. CASE SubscriberLost(n)
  <2>1. channel' \in [Nodes -> Seq(Rows)]
    BY <1>4 DEF SubscriberLost
  <2> QED
    BY <1>4, <2>1 DEF SubscriberLost
<1>5. CASE Restart(n)
  <2>1. /\ conn' \in [Conns -> {"fresh", "up", "closing", "down"}]
        /\ io' \in [Nodes -> Requests \cup Logins \cup Conns \cup {None}]
        /\ userConnMap' \in [Nodes -> [Users -> Conns \cup {None}]]
    BY <1>5 DEF Restart
  <2>2. login' \in [Logins -> LoginRec] /\ LoginBound'
    BY <1>5, RestartLogin DEF LoginRec
  <2>3. /\ leave' \in [Conns -> [pc : LeavePcs, user : Users \cup {None}]]
        /\ LeaveBound'
    BY <1>5 DEF Restart, LeavePcs
  <2>4. req' \in [Requests -> ReqRec] /\ ReqBound'
    BY <1>5, RestartReq DEF ReqRec, ReqTyped
  <2>5. channel' \in [Nodes -> Seq(Rows)]
    <3>1. <<>> \in Seq(Rows)
      OBVIOUS
    <3> QED
      BY <1>5, <3>1 DEF Restart
  <2>6. /\ forward' \in [Nodes -> [conn : Conns \cup {None}, msg : Msgs \cup {None}]]
        /\ FrameBound'
    <3>1. NoFrame \in [conn : Conns \cup {None}, msg : Msgs \cup {None}]
      BY DEF NoFrame
    <3>2. forward' = [forward EXCEPT ![n] = NoFrame]
      BY <1>5 DEF Restart
    <3> QED
      BY <3>1, <3>2
  <2>7. /\ cmdUp' \in [Nodes -> BOOLEAN] /\ subUp' \in [Nodes -> BOOLEAN]
        /\ faults' \in Nat
        /\ UNCHANGED <<online, dedup, ackCache, userState, offline, recv, badFrames>>
    <3>1. /\ cmdUp' = [cmdUp EXCEPT ![n] = TRUE] /\ subUp' = [subUp EXCEPT ![n] = TRUE]
          /\ faults' = faults + 1
      BY <1>5 DEF Restart
    <3>2. UNCHANGED <<online, dedup, ackCache, userState, offline, recv, badFrames>>
      BY <1>5 DEF Restart
    <3> QED
      BY <3>1, <3>2
  <2> QED
    BY <2>1, <2>2, <2>3, <2>4, <2>5, <2>6, <2>7 DEF LoginRec, ReqRec
<1> QED
  BY <1>1, <1>2, <1>3, <1>4, <1>5 DEF SubStep

(* Every step of the system keeps the type invariant.                      *)
LEMMA TypeStep == TypeInv /\ [Next]_vars => TypeInv'
<1> SUFFICES ASSUME TypeInv, [Next]_vars
             PROVE  TypeInv'
  OBVIOUS
<1>1. CASE Server
  BY <1>1, LoginType, ConnType, RequestType, NodeType DEF Server, LeaveStep
<1>2. CASE Client
  <2>1. /\ \A c \in Conns : Accounts[c] \subseteq Users
        /\ \A u \in Users : Watermarks(u) \subseteq Nat
    BY MsgType, ClusterAssumption DEF ClusterAssumption, Watermarks
  <2>2. PICK c \in Conns :
          \/ Accept(c) \/ ClientClose(c) \/ BadFrame(c) \/ ClosedAfterShutdown(c)
          \/ \E u \in Accounts[c] : LogoutErase(c, u)
          \/ \E l \in Logins, u \in Accounts[c] : \E k \in Watermarks(u) : LoginState(l, c, u, k)
          \/ \E r \in Requests, m \in Msgs : Receive(r, c, m)
    BY <1>2 DEF Client
  <2>3. CASE \/ Accept(c) \/ ClientClose(c) \/ BadFrame(c) \/ ClosedAfterShutdown(c)
             \/ \E u \in Accounts[c] : LogoutErase(c, u)
    BY <2>3, ConnType
  <2>4. CASE \E l \in Logins, u \in Accounts[c] : \E k \in Watermarks(u) : LoginState(l, c, u, k)
    <3>1. PICK l \in Logins, u \in Accounts[c] : \E k \in Watermarks(u) : LoginState(l, c, u, k)
      BY <2>4
    <3>2. u \in Users
      BY <2>1
    <3>3. PICK k \in Watermarks(u) : LoginState(l, c, u, k)
      BY <3>1
    <3>4. k \in Nat
      BY <2>1, <3>2
    <3> QED
      BY <3>2, <3>3, <3>4, LoginType
  <2>5. CASE \E r \in Requests, m \in Msgs : Receive(r, c, m)
    BY <2>5, RequestType
  <2> QED
    BY <2>2, <2>3, <2>4, <2>5
<1>3. CASE Fault
  BY <1>3, NodeType, RequestType DEF Fault
<1>4. CASE UNCHANGED vars
  BY <1>4 DEF vars, nodeVars, redisVars, linkVars, subVars, dbVars, TypeInv, TypeOK,
     LoginBound, LeaveBound, ReqBound, FrameBound
<1> QED
  BY <1>1, <1>2, <1>3, <1>4 DEF Next

LEMMA TypeInvariant == Spec => []TypeInv
  BY TypeInit, TypeStep, PTL DEF Spec

(* Every variable keeps its type: a started handler, a queued row and a    *)
(* frame about to be sent always name existing users, connections and      *)
(* messages, through restarts and lost links.                              *)
THEOREM TypeCorrect == Spec => []TypeOK
  BY TypeInvariant, PTL DEF TypeInv

-----------------------------------------------------------------------------
(* One answer per message.  The idempotency mark admits one request per    *)
(* message id; only that request computes an outcome, and every other      *)
(* answer is a copy of it.                                                 *)

Working == {"lookup", "classify", "local", "route", "publish", "store", "ack"}
Ended   == {"done", "lost"}
Admitted(q) == req[q].pc \in Working \cup {"cache"} \cup Ended
KeyOf(q) == Key(req[q].msg)

(* q has its outcome, and it is a.                                         *)
Concluded(q, k, a) == req[q].pc \in Ended /\ KeyOf(q) = k /\ req[q].res = a

(* An admitted request with an id has set the mark, and no other request   *)
(* has been admitted for it.                                               *)
GateInv ==
  /\ \A q \in Requests : Admitted(q) /\ req[q].msg.id # 0 => KeyOf(q) \in dedup
  /\ \A q1, q2 \in Requests :
       Admitted(q1) /\ Admitted(q2) /\ req[q1].msg.id # 0 /\ KeyOf(q1) = KeyOf(q2) => q1 = q2

(* An admitted request is told its own outcome, a refused one the outcome  *)
(* of a concluded request, and nobody else has been told anything.         *)
AckInv ==
  \A q \in Requests :
    /\ Admitted(q) /\ req[q].ack # None =>
         req[q].ack = req[q].res /\ req[q].pc \in {"cache"} \cup Ended
    /\ req[q].pc \in {"free", "dedup", "cached", "dropped"} => req[q].ack = None
    /\ req[q].pc \in {"dedup", "cached", "dup", "dropped"} => req[q].msg.id # 0
    /\ req[q].pc = "dup" /\ req[q].ack \notin {None, "duplicate"} =>
         \E o \in Requests : Concluded(o, KeyOf(q), req[q].ack)

(* A cached ack is the outcome of a concluded request.                     *)
CacheInv ==
  \A k \in Keys : k[2] # 0 /\ ackCache[k] # None =>
    \E o \in Requests : Concluded(o, k, ackCache[k])

AnswerInv == GateInv /\ AckInv /\ CacheInv

(* What a step of request r does to it, to the marks and to the cache.     *)
Same(r) == req'[r].msg = req[r].msg /\ req'[r].ack = req[r].ack
Effect(r) ==
  \/ /\ req[r].pc = "free" /\ req'[r].ack = None
     /\ req'[r].pc = (IF req'[r].msg.id # 0 THEN "dedup" ELSE "lookup")
     /\ UNCHANGED <<dedup, ackCache>>
  \/ /\ req[r].pc = "dedup" /\ req'[r].pc = "lookup" /\ Same(r)
     /\ KeyOf(r) \notin dedup /\ dedup' = dedup \cup {KeyOf(r)}
     /\ UNCHANGED ackCache
  \/ /\ req[r].pc = "dedup" /\ req'[r].pc = "cached" /\ Same(r)
     /\ UNCHANGED <<dedup, ackCache>>
  \/ /\ req[r].pc = "cached" /\ req'[r].pc = "dup" /\ req'[r].msg = req[r].msg
     /\ req'[r].ack \in {None, "duplicate", ackCache[KeyOf(r)]}
     /\ UNCHANGED <<dedup, ackCache>>
  \/ /\ req[r].pc \in Working /\ req'[r].pc \in Working /\ Same(r)
     /\ UNCHANGED <<dedup, ackCache>>
  \/ /\ req[r].pc \in Working /\ req'[r].pc = "cache" /\ req'[r].msg = req[r].msg
     /\ req'[r].ack \in {None, req'[r].res}
     /\ UNCHANGED <<dedup, ackCache>>
  \/ /\ req[r].pc = "cache" /\ req'[r].pc = "done" /\ Same(r) /\ req'[r].res = req[r].res
     /\ ackCache' \in {ackCache, [ackCache EXCEPT ![KeyOf(r)] = req[r].res]}
     /\ UNCHANGED dedup

LEMMA AnswerInit == Init => AnswerInv
  BY DEF Init, AnswerInv, GateInv, AckInv, CacheInv, Admitted, Working, Ended, NoReq

(* Every step of a request has one of these effects, and leaves the other  *)
(* requests alone.                                                         *)
LEMMA StepEffect ==
  ASSUME TypeInv, NEW r \in Requests,
         \/ RequestStep(r) \/ StoreFails(r)
         \/ \E c \in Conns, m \in Msgs : Receive(r, c, m)
  PROVE  Effect(r) /\ \A q \in Requests \ {r} : req'[q] = req[q]
<1>0. req \in [Requests -> ReqRec] /\ req[r] \in ReqRec
  BY DEF TypeInv, TypeOK, ReqRec
<1> USE <1>0 DEF Same, Effect, Working, KeyOf, ReqAt, Goto, ReqRec, redisVars
<1>1. CASE TryAcquireDedup(r)
  BY <1>1 DEF TryAcquireDedup, Acquired
<1>2. CASE GetCachedAck(r)
  BY <1>2 DEF GetCachedAck, Answer, CachedAck
<1>3. CASE OneChatLocal(r)
  BY <1>3 DEF OneChatLocal
<1>4. CASE OneChatRemote(r)
  BY <1>4 DEF OneChatRemote
<1>5. CASE GroupChatRun(r)
  BY <1>5 DEF GroupChatRun
<1>6. CASE GroupChatClassify(r)
  BY <1>6 DEF GroupChatClassify
<1>7. CASE GroupChatSendLocal(r)
  BY <1>7 DEF GroupChatSendLocal
<1>8. ASSUME NEW u \in Users, Route(r, u)
      PROVE  Effect(r) /\ \A q \in Requests \ {r} : req'[q] = req[q]
  BY <1>8 DEF Route
<1>9. CASE Publish(r) \/ StoreOffline(r) \/ StoreFails(r)
  <2>1. PICK way : Routed(r, way) /\ UNCHANGED <<dedup, ackCache>>
                   /\ req[r].pc \in {"publish", "store"}
    BY <1>9 DEF Publish, StoreOffline, StoreFails
  <2>2. /\ req'[r].pc \in {"ack", "route"} /\ Same(r)
        /\ \A q \in Requests \ {r} : req'[q] = req[q]
    BY <2>1 DEF Routed
  <2> QED
    BY <2>1, <2>2
<1>10. CASE SendAck(r)
  BY <1>10 DEF SendAck
<1>11. CASE CacheAck(r)
  BY <1>11 DEF CacheAck
<1>12. ASSUME NEW c \in Conns, NEW m \in Msgs, Receive(r, c, m)
       PROVE  Effect(r) /\ \A q \in Requests \ {r} : req'[q] = req[q]
  BY <1>12 DEF Receive, Enter, NoReq
<1> QED
  BY <1>1, <1>2, <1>3, <1>4, <1>5, <1>6, <1>7, <1>8, <1>9, <1>10, <1>11, <1>12
     DEF RequestStep

LEMMA EffectKeeps ==
  ASSUME TypeInv, AnswerInv, NEW r \in Requests, Effect(r),
         \A q \in Requests \ {r} : req'[q] = req[q]
  PROVE  AnswerInv'
<1>0. /\ ackCache \in [Keys -> Acks \cup {None}]
      /\ req[r].pc # "free" => KeyOf(r) \in Keys
      /\ Working \cap Ended = {} /\ "cache" \notin Working \cup Ended
  BY MsgType DEF TypeInv, TypeOK, ReqBound, KeyOf, Working, Ended
<1>11. ASSUME NEW q1, NEW q2, KeyOf(q1) = KeyOf(q2)
      PROVE  req[q1].msg.id = req[q2].msg.id
  BY <1>11 DEF KeyOf, Key
<1>1. ASSUME NEW o \in Requests, NEW k, NEW a, Concluded(o, k, a)
      PROVE  Concluded(o, k, a)'
  BY <1>1 DEF Concluded, Effect, Working, Ended, KeyOf
<1>2. GateInv'
  <2>1. CASE UNCHANGED dedup
    <3>1. \A q \in Requests :
            Admitted(q)' /\ req'[q].msg.id # 0 => Admitted(q) /\ req'[q].msg = req[q].msg
      BY <2>1 DEF Effect, Same, Admitted, Working, Ended
    <3>2. ASSUME NEW q1 \in Requests, NEW q2 \in Requests, (KeyOf(q1) = KeyOf(q2))'
          PROVE  req'[q1].msg.id = req'[q2].msg.id
      BY <3>2 DEF KeyOf, Key
    <3> QED
      BY <2>1, <3>1, <3>2 DEF AnswerInv, GateInv, KeyOf
  <2>2. CASE dedup' # dedup
    <3>1. KeyOf(r) \notin dedup /\ dedup' = dedup \cup {KeyOf(r)} /\ req'[r].msg = req[r].msg
      BY <2>2 DEF Effect, Same
    <3>2. ~Admitted(r) \/ req[r].msg.id = 0
      BY <3>1 DEF AnswerInv, GateInv
    <3>3. \A q \in Requests \ {r} :
            Admitted(q) /\ req[q].msg.id # 0 => KeyOf(q) \in dedup /\ KeyOf(q) # KeyOf(r)
      BY <3>1 DEF AnswerInv, GateInv
    <3>4. \A q \in Requests : KeyOf(q)' = KeyOf(q) /\ req'[q].msg = req[q].msg
      BY <3>1 DEF KeyOf
    <3>5. \A q \in Requests \ {r} : Admitted(q)' <=> Admitted(q)
      BY DEF Admitted
    <3>6. \A q1, q2 \in Requests : KeyOf(q1) = KeyOf(q2) => req[q1].msg.id = req[q2].msg.id
      BY <1>11
    <3> QED
      BY <3>1, <3>3, <3>4, <3>5, <3>6 DEF AnswerInv, GateInv
  <2> QED
    BY <2>1, <2>2
<1>3. AckInv'
  <2> SUFFICES ASSUME NEW q \in Requests
               PROVE  /\ Admitted(q)' /\ req'[q].ack # None =>
                           req'[q].ack = req'[q].res /\ req'[q].pc \in {"cache"} \cup Ended
                      /\ req'[q].pc \in {"free", "dedup", "cached", "dropped"} => req'[q].ack = None
                      /\ req'[q].pc \in {"dedup", "cached", "dup", "dropped"} => req'[q].msg.id # 0
                      /\ req'[q].pc = "dup" /\ req'[q].ack \notin {None, "duplicate"} =>
                           \E o \in Requests : Concluded(o, KeyOf(q), req[q].ack)'
    BY DEF AckInv
  <2>1. CASE q # r
    <3>1. req'[q] = req[q] /\ KeyOf(q)' = KeyOf(q)
      BY <2>1 DEF KeyOf
    <3> QED
      BY <1>1, <3>1 DEF AnswerInv, AckInv, Admitted
  <2>2. CASE q = r
    <3>1. req'[r].pc = "dup" /\ req'[r].ack \notin {None, "duplicate"} =>
            \E o \in Requests : Concluded(o, KeyOf(r), req[r].ack)'
      <4> SUFFICES ASSUME req'[r].pc = "dup", req'[r].ack \notin {None, "duplicate"}
                   PROVE  \E o \in Requests : Concluded(o, KeyOf(r), req[r].ack)'
        OBVIOUS
      <4>1. /\ req[r].pc = "cached" /\ KeyOf(r)' = KeyOf(r)
            /\ req'[r].ack = ackCache[KeyOf(r)]
        BY DEF Effect, KeyOf, Working
      <4>2. KeyOf(r) \in Keys /\ KeyOf(r)[2] # 0
        BY <1>0, <4>1 DEF AnswerInv, AckInv, KeyOf, Key
      <4>3. PICK o \in Requests : Concluded(o, KeyOf(r), ackCache[KeyOf(r)])
        BY <4>1, <4>2 DEF AnswerInv, CacheInv
      <4> QED
        BY <1>1, <4>1, <4>3
    <3>2. /\ Admitted(r)' /\ req'[r].ack # None =>
               req'[r].ack = req'[r].res /\ req'[r].pc \in {"cache"} \cup Ended
          /\ req'[r].pc \in {"free", "dedup", "cached", "dropped"} => req'[r].ack = None
          /\ req'[r].pc \in {"dedup", "cached", "dup", "dropped"} => req'[r].msg.id # 0
      BY DEF AnswerInv, AckInv, Effect, Same, Admitted, Working, Ended
    <3> QED
      BY <2>2, <3>1, <3>2
  <2> QED
    BY <2>1, <2>2
<1>4. CacheInv'
  <2> SUFFICES ASSUME NEW k \in Keys, k[2] # 0, ackCache'[k] # None
               PROVE  \E o \in Requests : Concluded(o, k, ackCache[k])'
    BY DEF CacheInv
  <2>1. CASE ackCache'[k] = ackCache[k]
    BY <1>1, <2>1 DEF AnswerInv, CacheInv
  <2>2. CASE ackCache'[k] # ackCache[k]
    <3>1. /\ k = KeyOf(r) /\ ackCache'[k] = req[r].res
          /\ req'[r].pc = "done" /\ req'[r].res = req[r].res /\ Same(r)
      BY <1>0, <2>2 DEF Effect
    <3>2. Concluded(r, k, ackCache[k])'
      BY <3>1 DEF Concluded, Ended, KeyOf, Same
    <3> QED
      BY <3>2
  <2> QED
    BY <2>1, <2>2
<1> QED
  BY <1>2, <1>3, <1>4 DEF AnswerInv

(* A restart turns a running request into a lost one and nothing else.     *)
LEMMA RestartKeeps ==
  ASSUME TypeInv, AnswerInv, NEW n \in Nodes, Restart(n)
  PROVE  AnswerInv'
<1>1. /\ UNCHANGED <<dedup, ackCache>>
      /\ \A q \in Requests :
           /\ req'[q].msg = req[q].msg /\ req'[q].res = req[q].res /\ req'[q].ack = req[q].ack
           /\ \/ req'[q].pc = req[q].pc
              \/ req[q].pc \in {"dedup", "cached"} /\ req'[q].pc = "dropped"
              \/ Admitted(q) /\ req'[q].pc = "lost"
  BY RestartReq DEF Restart, redisVars, TypeInv, TypeOK, ReqPcs, Admitted, Working, Ended
<1>2. ASSUME NEW o \in Requests, NEW k, NEW a, Concluded(o, k, a)
      PROVE  Concluded(o, k, a)'
  BY <1>1, <1>2 DEF Concluded, Ended, KeyOf
<1>3. \A q \in Requests : (Admitted(q)' <=> Admitted(q)) /\ KeyOf(q)' = KeyOf(q)
  BY <1>1 DEF Admitted, Working, Ended, KeyOf
<1>4. GateInv'
  BY <1>1, <1>3 DEF AnswerInv, GateInv
<1>5. AckInv'
  BY <1>1, <1>2, <1>3 DEF AnswerInv, AckInv, Ended, Admitted
<1>6. CacheInv'
  BY <1>1, <1>2 DEF AnswerInv, CacheInv
<1> QED
  BY <1>4, <1>5, <1>6 DEF AnswerInv

LEMMA AnswerStep == TypeInv /\ AnswerInv /\ [Next]_vars => AnswerInv'
<1> SUFFICES ASSUME TypeInv, AnswerInv, [Next]_vars
             PROVE  AnswerInv'
  OBVIOUS
<1>1. ASSUME UNCHANGED <<req, dedup, ackCache>>
      PROVE  AnswerInv'
  BY <1>1 DEF AnswerInv, GateInv, AckInv, CacheInv, Admitted, KeyOf, Concluded
<1>2. ASSUME NEW r \in Requests,
             \/ RequestStep(r) \/ StoreFails(r)
             \/ \E c \in Conns, m \in Msgs : Receive(r, c, m)
      PROVE  AnswerInv'
  BY <1>2, StepEffect, EffectKeeps
<1>3. CASE Server
  BY <1>1, <1>2, <1>3 DEF Server, LoginStep, LeaveStep, SubStep, LoginMap, LoginSadd, LoginFetch,
     LoginDeliver, LoginRemove, CloseScan, LeaveState, LeaveSrem, SubLookup, SubSend, redisVars
<1>4. CASE Client
  BY <1>1, <1>2, <1>4 DEF Client, Accept, ClientClose, BadFrame, ClosedAfterShutdown, LogoutErase,
     LoginState, redisVars
<1>5. CASE Fault
  BY <1>1, <1>2, <1>5, RestartKeeps DEF Fault, CommandLinkLost, SubscriberLost, redisVars
<1>6. CASE UNCHANGED vars
  BY <1>1, <1>6 DEF vars, redisVars
<1> QED
  BY <1>3, <1>4, <1>5, <1>6 DEF Next

(* However often a message with an id is transmitted, to whichever nodes   *)
(* and with whatever crashes, lost Redis links and failed INSERTs, its     *)
(* sender is told one outcome (chatservice.cpp:284-311).                   *)
THEOREM OneAnswerHolds == Spec => []OneAnswer
<1>1. TypeInv /\ AnswerInv => OneAnswer
  <2> SUFFICES ASSUME TypeInv, AnswerInv, NEW q1 \in Requests, NEW q2 \in Requests,
                      req[q1].ack \notin {None, "duplicate"},
                      req[q2].ack \notin {None, "duplicate"},
                      req[q1].msg.id # 0, Key(req[q1].msg) = Key(req[q2].msg)
               PROVE  req[q1].ack = req[q2].ack
    BY DEF OneAnswer
  <2>1. ASSUME NEW q \in Requests, req[q].ack \notin {None, "duplicate"}
        PROVE  \E o \in Requests : Admitted(o) /\ KeyOf(o) = KeyOf(q) /\ req[o].res = req[q].ack
    <3>1. req[q].pc \in ReqPcs
      BY DEF TypeInv, TypeOK
    <3>2. CASE Admitted(q)
      BY <2>1, <3>2 DEF AnswerInv, AckInv
    <3>3. CASE req[q].pc = "dup"
      BY <2>1, <3>3 DEF AnswerInv, AckInv, Concluded, Admitted
    <3> QED
      BY <2>1, <3>1, <3>2, <3>3 DEF AnswerInv, AckInv, ReqPcs, Admitted, Working, Ended
  <2>2. PICK o1 \in Requests : Admitted(o1) /\ KeyOf(o1) = KeyOf(q1) /\ req[o1].res = req[q1].ack
    BY <2>1
  <2>3. PICK o2 \in Requests : Admitted(o2) /\ KeyOf(o2) = KeyOf(q2) /\ req[o2].res = req[q2].ack
    BY <2>1
  <2>4. req[o1].msg.id # 0 /\ KeyOf(o1) = KeyOf(o2)
    BY <2>2, <2>3 DEF KeyOf, Key
  <2>5. o1 = o2
    BY <2>2, <2>3, <2>4 DEF AnswerInv, GateInv
  <2> QED
    BY <2>2, <2>3, <2>5
<1>2. Spec => [](TypeInv /\ AnswerInv)
  BY TypeInvariant, AnswerInit, AnswerStep, PTL DEF Spec
<1> QED
  BY <1>1, <1>2, PTL

-----------------------------------------------------------------------------
(* No duplicate delivery.  A message with an id is routed to a recipient   *)
(* at most once, by the one admitted request; from then on it is in one    *)
(* place: a channel, a frame about to be sent, the offline table, or the   *)
(* batches fetched from it.  A login is spent for the message once nothing *)
(* can hand it to that login's connection on its behalf any more.          *)

(* Request q may still hand its message to user u.                         *)
Routing(q, u) ==
  \/ req[q].pc \in {"lookup", "classify"}
  \/ u \in req[q].todo
  \/ req[q].pc \in {"publish", "store"} /\ req[q].cur = u
Routable(u, m) ==
  \/ Key(m) \notin dedup
  \/ \E q \in Requests : req[q].msg = m /\ Routing(q, u)

Row(u, m)       == [to |-> u, msg |-> m]
InChannel(n, x) == \E i \in DOMAIN channel[n] : channel[n][i] = x
InBatch(x)      == \E l \in Logins : x \in login[l].batch

(* What a request is still to do is done for recipients of its message.    *)
RouteInv == \A q \in Requests :
  /\ req[q].todo # {} => req[q].pc \in {"local", "route", "publish", "store"}
  /\ req[q].local # {} => req[q].pc = "local"
  /\ req[q].pc # "free" => req[q].todo \subseteq Receivers(req[q].msg)
  /\ req[q].pc \in {"publish", "store"} => /\ req[q].cur \in Receivers(req[q].msg)
                                           /\ req[q].cur \notin req[q].todo

(* A map entry comes from a login, and a node sends on its own connections.*)
MapInv == \A n \in Nodes, u \in Users : userConnMap[n][u] # None =>
  /\ NodeOf[userConnMap[n][u]] = n
  /\ \E l \in Logins : login[l].conn = userConnMap[n][u] /\ login[l].user = u
FrameInv == \A n \in Nodes : forward[n] # NoFrame => NodeOf[forward[n].conn] = n
BatchInv == \A l \in Logins : \A x \in login[l].batch :
  login[l].pc \in {"deliver", "remove"} /\ x.to = login[l].user

(* A message on its way to a user is past routing, and there once.         *)
WayInv ==
  /\ \A x \in Rows : (\E n \in Nodes : InChannel(n, x)) \/ InBatch(x) \/ x \in offline =>
       x.to \in Receivers(x.msg) /\ (x.msg.id # 0 => ~Routable(x.to, x.msg))
  /\ \A x \in Rows : x.msg.id # 0 /\ (\E n \in Nodes : InChannel(n, x)) =>
       x \notin offline /\ ~InBatch(x)
  /\ \A n \in Nodes : \A i, j \in DOMAIN channel[n] :
       channel[n][i] = channel[n][j] /\ channel[n][i].msg.id # 0 => i = j

(* Login l is spent for message m.                                         *)
Spent(l, m) ==
  LET x == Row(login[l].user, m) IN
  /\ x.to \in Receivers(m) /\ ~Routable(x.to, m)
  /\ ~InChannel(NodeOf[login[l].conn], x)
  /\ login[l].pc \in {"remove", "done", "lost"} \/ (x \notin offline /\ x \notin login[l].batch)
SpentOn(c, m) == {l \in Logins : login[l].conn = c /\ Spent(l, m)}

(* Frames of m for connection c that a task or a subscriber thread will    *)
(* send.                                                                   *)
PendingOn(c, m) == {t \in Users \X Conns :
  t[2] = c /\ \E q \in Requests : req[q].msg = m /\ t \in req[q].local}
Sending(c, m) == IF forward[NodeOf[c]] = [conn |-> c, msg |-> m] THEN 1 ELSE 0
Total(c, m) == recv[c][m] + Sending(c, m) + Cardinality(PendingOn(c, m))

(* Every frame sent or about to be sent has a spent login of its own.      *)
Started == {l \in Logins : login[l].pc # "free"}
CountInv ==
  /\ IsFiniteSet(Started)
  /\ \A c \in Conns, m \in Msgs : m.id # 0 => Total(c, m) <= Cardinality(SpentOn(c, m))

OnceInv == RouteInv /\ MapInv /\ FrameInv /\ BatchInv /\ WayInv /\ CountInv
CoreInv == TypeInv /\ AnswerInv /\ OnceInv

(* One step of request r, the other requests unchanged.                    *)
Steps(r) == \/ RequestStep(r) \/ StoreFails(r)
            \/ \E c \in Conns, m \in Msgs : Receive(r, c, m)

LEMMA RoutingAdmitted ==
  ASSUME TypeInv, RouteInv, NEW q \in Requests, NEW u, Routing(q, u)
  PROVE  Admitted(q) /\ req[q].pc \in Working
  BY DEF RouteInv, Routing, Admitted, Working

(* Once the admitted request for m is through with u, nothing routes m to  *)
(* u any more.                                                             *)
LEMMA Settles ==
  ASSUME TypeInv, AnswerInv, RouteInv, NEW r \in Requests,
         Admitted(r), req[r].msg.id # 0, UNCHANGED dedup,
         req'[r].msg = req[r].msg, \A q \in Requests \ {r} : req'[q] = req[q],
         NEW u, ~Routing(r, u)'
  PROVE  ~Routable(u, req[r].msg)'
<1>1. KeyOf(r) \in dedup
  BY DEF AnswerInv, GateInv
<1>2. ASSUME NEW q \in Requests, req'[q].msg = req[r].msg, Routing(q, u)'
      PROVE  FALSE
  <2>1. q # r
    BY <1>2
  <2>2. req'[q] = req[q]
    BY <2>1
  <2>3. Routing(q, u) /\ req[q].msg = req[r].msg
    BY <1>2, <2>2 DEF Routing
  <2>4. Admitted(q) /\ KeyOf(q) = KeyOf(r)
    BY <2>3, RoutingAdmitted DEF KeyOf
  <2> QED
    BY <2>1, <2>4 DEF AnswerInv, GateInv
<1> QED
  BY <1>1, <1>2 DEF Routable, KeyOf

(* A request takes up no recipient anew.                                   *)
LEMMA RouteStep ==
  ASSUME TypeInv, RouteInv, NEW r \in Requests, Steps(r)
  PROVE  /\ RouteInv'
         /\ \A u : Routing(r, u)' /\ req'[r].msg.id # 0 =>
              /\ req'[r].msg = req[r].msg
              /\ Routing(r, u) \/ KeyOf(r) \notin dedup
<1>0. req \in [Requests -> ReqRec] /\ req[r] \in ReqRec
  BY DEF TypeInv, TypeOK, ReqRec
<1> DEFINE Good(q) ==
      /\ req[q].todo # {} => req[q].pc \in {"local", "route", "publish", "store"}
      /\ req[q].local # {} => req[q].pc = "local"
      /\ req[q].pc # "free" => req[q].todo \subseteq Receivers(req[q].msg)
      /\ req[q].pc \in {"publish", "store"} => /\ req[q].cur \in Receivers(req[q].msg)
                                               /\ req[q].cur \notin req[q].todo
           News == \A u : Routing(r, u)' /\ req'[r].msg.id # 0 =>
              /\ req'[r].msg = req[r].msg
              /\ Routing(r, u) \/ KeyOf(r) \notin dedup
<1>1. Good(r)
  BY DEF RouteInv
<1>2. SUFFICES Good(r)' /\ News
  <2>1. \A q \in Requests \ {r} : req'[q] = req[q]
    BY StepEffect DEF Steps
  <2>2. \A q \in Requests \ {r} : Good(q)'
    BY <2>1 DEF RouteInv
  <2>3. ASSUME Good(r)' PROVE RouteInv'
    BY <2>2, <2>3 DEF RouteInv
  <2> QED
    BY <2>3
<1> USE <1>0, <1>1 DEF ReqRec, ReqAt, Goto, Routing
<1>3. CASE TryAcquireDedup(r)
  BY <1>3 DEF TryAcquireDedup, Acquired, KeyOf
<1>4. CASE GetCachedAck(r)
  BY <1>4 DEF GetCachedAck
<1>5. CASE OneChatLocal(r)
  BY <1>5 DEF OneChatLocal
<1>6. CASE OneChatRemote(r)
  BY <1>6, MsgType DEF OneChatRemote, Receivers, TypeInv, ReqBound
<1>7. CASE GroupChatRun(r)
  BY <1>7 DEF GroupChatRun
<1>8. CASE GroupChatClassify(r)
  BY <1>8 DEF GroupChatClassify
<1>9. CASE GroupChatSendLocal(r)
  BY <1>9 DEF GroupChatSendLocal
<1>10. ASSUME NEW v \in Users, Route(r, v)
       PROVE  Good(r)' /\ News
  BY <1>10 DEF Route
<1>11. CASE Publish(r) \/ StoreOffline(r) \/ StoreFails(r)
  <2>1. PICK way : Routed(r, way) /\ req[r].pc \in {"publish", "store"}
    BY <1>11 DEF Publish, StoreOffline, StoreFails
  <2> QED
    BY <2>1 DEF Routed
<1>12. CASE SendAck(r)
  BY <1>12 DEF SendAck
<1>13. CASE CacheAck(r)
  BY <1>13 DEF CacheAck
<1>14. ASSUME NEW c \in Conns, NEW m \in Msgs, Receive(r, c, m)
       PROVE  Good(r)' /\ News
  BY <1>14 DEF Receive, Enter, NoReq
<1> QED
  BY <1>3, <1>4, <1>5, <1>6, <1>7, <1>8, <1>9, <1>10, <1>11, <1>12, <1>13, <1>14
     DEF Steps, RequestStep

(* A restart ends the requests of its node.                                *)
LEMMA RouteRestart ==
  ASSUME TypeInv, RouteInv, NEW n \in Nodes, Restart(n)
  PROVE  /\ RouteInv'
         /\ \A q \in Requests : /\ req'[q].msg = req[q].msg
                                /\ req'[q].local \subseteq req[q].local
                                /\ \A u : Routing(q, u)' => Routing(q, u)
<1>0. req \in [Requests -> ReqRec]
  BY DEF TypeInv, TypeOK, ReqRec
<1>1. ASSUME NEW q \in Requests
      PROVE  \/ req'[q] = req[q]
             \/ /\ req'[q].msg = req[q].msg /\ req'[q].todo = {} /\ req'[q].local = {}
                /\ req'[q].pc \in {"dropped", "lost"}
  <2>1. req[q] \in ReqRec
    BY <1>0
  <2> QED
    BY <2>1 DEF Restart, ReqRec
<1>2. RouteInv'
  <2> SUFFICES ASSUME NEW q \in Requests
               PROVE
      /\ req'[q].todo # {} => req'[q].pc \in {"local", "route", "publish", "store"}
      /\ req'[q].local # {} => req'[q].pc = "local"
      /\ req'[q].pc # "free" => req'[q].todo \subseteq Receivers(req'[q].msg)
      /\ req'[q].pc \in {"publish", "store"} => /\ req'[q].cur \in Receivers(req'[q].msg)
                                               /\ req'[q].cur \notin req'[q].todo
    BY DEF RouteInv, Receivers
  <2> QED
    BY <1>1 DEF RouteInv
<1> QED
  BY <1>1, <1>2 DEF Routing

(* A step that moves messages along: it adds the rows A to channels and    *)
(* the rows B to the offline table, which routing had not settled before.  *)
Flow(A, B) ==
  /\ A \subseteq Rows /\ B \subseteq Rows /\ (A = {} \/ B = {})
  /\ \A x \in A \cup B : /\ x.to \in Receivers(x.msg)
                         /\ x.msg.id # 0 => /\ Routable(x.to, x.msg)
                                            /\ ~Routable(x.to, x.msg)'
  /\ \A u \in Users, m \in Msgs : m.id # 0 /\ Routable(u, m)' => Routable(u, m)
  /\ \A n \in Nodes, x \in Rows : InChannel(n, x)' => InChannel(n, x) \/ x \in A
  /\ offline' \subseteq offline \cup B
  /\ \A l \in Logins :
       /\ login'[l].batch \subseteq login[l].batch \cup offline
       /\ login[l].pc # "free" => login'[l].user = login[l].user /\ login'[l].conn = login[l].conn
       /\ login[l].pc \in {"remove", "done", "lost"} => login'[l].pc \in {"remove", "done", "lost"}

(* No channel holds a message with an id twice for the same user.          *)
ChannelOnce == \A n \in Nodes : \A i, j \in DOMAIN channel[n] :
  channel[n][i] = channel[n][j] /\ channel[n][i].msg.id # 0 => i = j

LEMMA RowParts == \A x \in Rows : x.to \in Users /\ x.msg \in Msgs /\ x = Row(x.to, x.msg)
  BY DEF Rows, Row

LEMMA FlowWay ==
  ASSUME WayInv, NEW A, NEW B, Flow(A, B), ChannelOnce'
  PROVE  WayInv'
<1>1. ASSUME NEW x \in Rows, (\E n \in Nodes : InChannel(n, x))'
      PROVE  x \in A \/ \E n \in Nodes : InChannel(n, x)
  BY <1>1 DEF Flow
<1>2. ASSUME NEW x \in Rows, InBatch(x)'
      PROVE  InBatch(x) \/ x \in offline
  BY <1>2 DEF Flow, InBatch
<1>3. ASSUME NEW x \in Rows, x \in offline'
      PROVE  x \in offline \/ x \in B
  BY <1>3 DEF Flow
<1>4. ASSUME NEW x \in Rows,
             (\E n \in Nodes : InChannel(n, x))' \/ InBatch(x)' \/ x \in offline'
      PROVE  x.to \in Receivers(x.msg) /\ (x.msg.id # 0 => ~Routable(x.to, x.msg)')
  <2>1. CASE x \in A \cup B
    BY <2>1 DEF Flow
  <2>2. CASE x \notin A \cup B
    <3>1. x.to \in Receivers(x.msg) /\ (x.msg.id # 0 => ~Routable(x.to, x.msg))
      BY <1>1, <1>2, <1>3, <1>4, <2>2 DEF WayInv
    <3> QED
      BY <3>1, RowParts DEF Flow
  <2> QED
    BY <2>1, <2>2
<1>5. ASSUME NEW x \in Rows, x.msg.id # 0, (\E n \in Nodes : InChannel(n, x))'
      PROVE  x \notin offline' /\ ~InBatch(x)'
  <2>1. CASE x \in A
    <3>1. Routable(x.to, x.msg) /\ x \notin B
      BY <1>5, <2>1 DEF Flow
    <3>2. x \notin offline /\ ~InBatch(x)
      BY <1>5, <3>1 DEF WayInv
    <3> QED
      BY <1>2, <1>3, <3>1, <3>2
  <2>2. CASE x \notin A
    <3>1. \E n \in Nodes : InChannel(n, x)
      BY <1>1, <1>5, <2>2
    <3>2. x \notin offline /\ ~InBatch(x) /\ ~Routable(x.to, x.msg)
      BY <1>5, <3>1 DEF WayInv
    <3>3. x \notin B
      BY <1>5, <3>2 DEF Flow
    <3> QED
      BY <1>2, <1>3, <3>2, <3>3
  <2> QED
    BY <2>1, <2>2
<1>6. \A x \in Rows : (\E n \in Nodes : InChannel(n, x))' \/ InBatch(x)' \/ x \in offline' =>
        x.to \in Receivers(x.msg) /\ (x.msg.id # 0 => ~Routable(x.to, x.msg)')
  BY <1>4
<1>7. \A x \in Rows : x.msg.id # 0 /\ (\E n \in Nodes : InChannel(n, x))' =>
        x \notin offline' /\ ~InBatch(x)'
  BY <1>5
<1> QED
  BY <1>6, <1>7 DEF WayInv, ChannelOnce, Receivers

(* A spent login stays spent.                                              *)
LEMMA FlowSpent ==
  ASSUME TypeInv, NEW A, NEW B, Flow(A, B), NEW c \in Conns, NEW m \in Msgs, m.id # 0
  PROVE  SpentOn(c, m) \subseteq SpentOn(c, m)'
<1> SUFFICES ASSUME NEW l \in Logins, login[l].conn = c, Spent(l, m)
             PROVE  login'[l].conn = c /\ Spent(l, m)'
  BY DEF SpentOn
<1>1. login[l].pc # "free"
  BY ClusterAssumption DEF TypeInv, LoginBound, ClusterAssumption
<1>2. /\ login'[l].conn = c /\ login'[l].user = login[l].user
      /\ login[l].pc \in {"remove", "done", "lost"} => login'[l].pc \in {"remove", "done", "lost"}
      /\ login'[l].batch \subseteq login[l].batch \cup offline
  BY <1>1 DEF Flow
<1>3. /\ login[l].user \in Users /\ NodeOf[c] \in Nodes
      /\ Row(login[l].user, m) \in Rows
  BY <1>1, ClusterAssumption DEF TypeInv, LoginBound, Row, Rows, ClusterAssumption
<1>4. PICK u \in Users, x \in Rows : u = login[l].user /\ x = Row(u, m)
  BY <1>3
<1>5. /\ x.to = u /\ x.msg = m /\ u \in Receivers(m) /\ ~Routable(u, m)
      /\ ~InChannel(NodeOf[c], x)
      /\ login[l].pc \in {"remove", "done", "lost"} \/ (x \notin offline /\ x \notin login[l].batch)
  BY <1>4 DEF Spent, Row
<1>6. ~Routable(u, m)' /\ x \notin A \cup B
  BY <1>5 DEF Flow
<1>7. ~InChannel(NodeOf[c], x)'
  BY <1>3, <1>5, <1>6 DEF Flow
<1>8. x \notin offline => x \notin offline'
  BY <1>6 DEF Flow
<1>9. login'[l].pc \in {"remove", "done", "lost"} \/ (x \notin offline' /\ x \notin login'[l].batch)
  BY <1>2, <1>5, <1>8
<1>10. login'[l].user = u
  BY <1>2, <1>4
<1> QED
  BY <1>2, <1>4, <1>5, <1>6, <1>7, <1>9, <1>10 DEF Spent

(* The numbers compared are natural numbers.                               *)
LEMMA CountType == TypeInv /\ IsFiniteSet(Started) => \A c \in Conns, m \in Msgs :
  /\ IsFiniteSet(SpentOn(c, m)) /\ Cardinality(SpentOn(c, m)) \in Nat
  /\ IsFiniteSet(PendingOn(c, m)) /\ Cardinality(PendingOn(c, m)) \in Nat
  /\ Sending(c, m) \in {0, 1} /\ recv[c][m] \in Nat
  /\ Total(c, m) \in Nat
<1> SUFFICES ASSUME TypeInv, IsFiniteSet(Started), NEW c \in Conns, NEW m \in Msgs
             PROVE  /\ IsFiniteSet(SpentOn(c, m)) /\ Cardinality(SpentOn(c, m)) \in Nat
                    /\ IsFiniteSet(PendingOn(c, m)) /\ Cardinality(PendingOn(c, m)) \in Nat
                    /\ Sending(c, m) \in {0, 1} /\ recv[c][m] \in Nat
                    /\ Total(c, m) \in Nat
  OBVIOUS
<1>1. SpentOn(c, m) \subseteq Started
  BY ClusterAssumption DEF SpentOn, Started, TypeInv, LoginBound, ClusterAssumption
<1>2. IsFiniteSet(SpentOn(c, m))
  BY <1>1, FS_Subset
<1>3. IsFiniteSet(Users \X Conns)
  BY FS_Product, ClusterAssumption DEF ClusterAssumption
<1>4. IsFiniteSet(PendingOn(c, m))
  BY <1>3, FS_Subset DEF PendingOn
<1>5. Sending(c, m) \in {0, 1} /\ recv[c][m] \in Nat
  BY DEF Sending, TypeInv, TypeOK
<1>6. Cardinality(SpentOn(c, m)) \in Nat /\ Cardinality(PendingOn(c, m)) \in Nat
  BY <1>2, <1>4, FS_CardinalityType
<1> QED
  BY <1>2, <1>4, <1>5, <1>6 DEF Total

LEMMA CountTypeNext ==
  (TypeInv /\ IsFiniteSet(Started))' => \A c \in Conns, m \in Msgs :
    /\ IsFiniteSet(SpentOn(c, m)') /\ Cardinality(SpentOn(c, m)') \in Nat
    /\ Sending(c, m)' \in {0, 1} /\ recv'[c][m] \in Nat
    /\ Cardinality(PendingOn(c, m)') \in Nat
    /\ Total(c, m)' = recv'[c][m] + Sending(c, m)' + Cardinality(PendingOn(c, m)')
<1>1. (TypeInv /\ IsFiniteSet(Started))' => (\A c \in Conns, m \in Msgs :
         /\ IsFiniteSet(SpentOn(c, m)) /\ Cardinality(SpentOn(c, m)) \in Nat
         /\ IsFiniteSet(PendingOn(c, m)) /\ Cardinality(PendingOn(c, m)) \in Nat
         /\ Sending(c, m) \in {0, 1} /\ recv[c][m] \in Nat
         /\ Total(c, m) \in Nat)'
  BY CountType, PTL
<1> QED
  BY <1>1 DEF Total

(* Fewer tasks waiting to send, fewer frames.                              *)
LEMMA PendingShrinks ==
  ASSUME TypeInv, IsFiniteSet(Started), NEW c \in Conns, NEW m \in Msgs,
         \A q \in Requests : req'[q].local # {} =>
           req'[q].msg = req[q].msg /\ req'[q].local \subseteq req[q].local
  PROVE  Cardinality(PendingOn(c, m))' <= Cardinality(PendingOn(c, m))
<1>1. PendingOn(c, m)' \subseteq PendingOn(c, m)
  BY DEF PendingOn
<1> QED
  BY <1>1, CountType, FS_Subset, Zenon

(* The count goes on holding if at most as many frames are sent or under   *)
(* way, or one more and a login was spent for it.                          *)
LEMMA CountKeeps ==
  ASSUME TypeInv, TypeInv', IsFiniteSet(Started), IsFiniteSet(Started)',
         NEW c \in Conns, NEW m \in Msgs,
         Total(c, m) <= Cardinality(SpentOn(c, m)), SpentOn(c, m) \subseteq SpentOn(c, m)',
         \/ Total(c, m)' <= Total(c, m)
         \/ Total(c, m)' <= Total(c, m) + 1 /\ ~(SpentOn(c, m)' \subseteq SpentOn(c, m))
  PROVE  Total(c, m)' <= Cardinality(SpentOn(c, m))'
<1> DEFINE S == SpentOn(c, m)
           T == SpentOn(c, m)'
<1>1. /\ Total(c, m) \in Nat /\ IsFiniteSet(S) /\ Cardinality(S) \in Nat
  BY CountType
<1>2. Total(c, m)' \in Nat /\ IsFiniteSet(T) /\ Cardinality(T) \in Nat
  BY CountTypeNext
<1>3. Cardinality(S) <= Cardinality(T)
  BY <1>2, FS_Subset
<1>4. ~(T \subseteq S) => Cardinality(S) + 1 <= Cardinality(T)
  <2> SUFFICES ASSUME NEW l \in T, l \notin S
               PROVE  Cardinality(S) + 1 <= Cardinality(T)
    OBVIOUS
  <2>1. IsFiniteSet(S \cup {l}) /\ Cardinality(S \cup {l}) = Cardinality(S) + 1
    BY <1>1, FS_AddElement
  <2>2. S \cup {l} \in SUBSET T
    OBVIOUS
  <2> QED
    BY <1>2, <2>1, <2>2, FS_Subset
<1> HIDE DEF S, T
<1>5. Total(c, m) <= Cardinality(S)
  BY DEF S
<1>6. \/ Total(c, m)' <= Total(c, m)
      \/ Total(c, m)' <= Total(c, m) + 1 /\ ~(T \subseteq S)
  BY DEF S, T
<1>7. Cardinality(SpentOn(c, m))' = Cardinality(T)
  BY DEF T
<1> QED
  BY <1>1, <1>2, <1>3, <1>4, <1>5, <1>6, <1>7

LEMMA FlowKeeps ==
  ASSUME CoreInv, TypeInv', NEW A, NEW B, Flow(A, B),
         RouteInv', MapInv', FrameInv', BatchInv', ChannelOnce', IsFiniteSet(Started)',
         \A c \in Conns, m \in Msgs : m.id # 0 =>
           \/ Total(c, m)' <= Total(c, m)
           \/ Total(c, m)' <= Total(c, m) + 1 /\ ~(SpentOn(c, m)' \subseteq SpentOn(c, m))
           \/ Total(c, m)' <= Cardinality(SpentOn(c, m))'
  PROVE  OnceInv'
<1>1. WayInv'
  BY FlowWay DEF CoreInv, OnceInv
<1>2. ASSUME NEW c \in Conns, NEW m \in Msgs, m.id # 0
      PROVE  Total(c, m)' <= Cardinality(SpentOn(c, m))'
  <2>1. TypeInv /\ IsFiniteSet(Started) /\ Total(c, m) <= Cardinality(SpentOn(c, m))
    BY <1>2 DEF CoreInv, OnceInv, CountInv
  <2>2. SpentOn(c, m) \subseteq SpentOn(c, m)'
    BY <1>2, <2>1, FlowSpent
  <2>3. \/ Total(c, m)' <= Total(c, m)
        \/ Total(c, m)' <= Total(c, m) + 1 /\ ~(SpentOn(c, m)' \subseteq SpentOn(c, m))
        \/ Total(c, m)' <= Cardinality(SpentOn(c, m))'
    BY <1>2
  <2> QED
    BY <2>1, <2>2, <2>3, CountKeeps
<1>3. \A c \in Conns, m \in Msgs : m.id # 0 => Total(c, m)' <= Cardinality(SpentOn(c, m))'
  BY <1>2
<1> QED
  BY <1>1, <1>3 DEF OnceInv, CountInv

LEMMA TotalKeeps ==
  ASSUME TypeInv, IsFiniteSet(Started), TypeInv', IsFiniteSet(Started)', UNCHANGED <<recv, forward>>,
         \A q \in Requests : req'[q].local # {} =>
           req'[q].msg = req[q].msg /\ req'[q].local \subseteq req[q].local,
         NEW c \in Conns, NEW m \in Msgs
  PROVE  Total(c, m)' <= Total(c, m)
<1>1. Cardinality(PendingOn(c, m))' <= Cardinality(PendingOn(c, m))
  BY PendingShrinks
<1>2. /\ Sending(c, m) \in {0, 1} /\ recv[c][m] \in Nat /\ Cardinality(PendingOn(c, m)) \in Nat
      /\ Cardinality(PendingOn(c, m)') \in Nat
      /\ Total(c, m)' = recv'[c][m] + Sending(c, m)' + Cardinality(PendingOn(c, m)')
  BY CountType, CountTypeNext
<1>3. Sending(c, m)' = Sending(c, m) /\ recv' = recv
  BY DEF Sending
<1> QED
  BY <1>1, <1>2, <1>3 DEF Total

(* Without a step of a request the routing is what it was.                 *)
LEMMA RoutableSame ==
  ASSUME UNCHANGED <<req, dedup>>, NEW u, NEW m
  PROVE  Routable(u, m)' <=> Routable(u, m)
  BY DEF Routable, Routing

LEMMA MapKeeps ==
  ASSUME TypeInv, MapInv, NEW A, NEW B, Flow(A, B),
         \A n \in Nodes, u \in Users : userConnMap'[n][u] \in {None, userConnMap[n][u]}
  PROVE  MapInv'
<1> SUFFICES ASSUME NEW n \in Nodes, NEW u \in Users, userConnMap'[n][u] # None
             PROVE  /\ NodeOf[userConnMap'[n][u]] = n
                    /\ \E l \in Logins : login'[l].conn = userConnMap'[n][u] /\ login'[l].user = u
  BY DEF MapInv
<1>1. userConnMap'[n][u] = userConnMap[n][u] /\ userConnMap[n][u] # None
  OBVIOUS
<1>2. PICK l \in Logins : login[l].conn = userConnMap[n][u] /\ login[l].user = u
  BY <1>1 DEF MapInv
<1>3. login[l].pc # "free"
  BY <1>1, <1>2 DEF TypeInv, LoginBound
<1>4. login'[l].conn = login[l].conn /\ login'[l].user = login[l].user
  BY <1>3 DEF Flow
<1> QED
  BY <1>1, <1>2, <1>4 DEF MapInv

(* Steps that leave messages, requests and logins alone.                   *)
LEMMA OnceConn ==
  ASSUME CoreInv, TypeInv',
         UNCHANGED <<req, dedup, channel, forward, offline, login, recv>>,
         \A n \in Nodes, u \in Users : userConnMap'[n][u] \in {None, userConnMap[n][u]}
  PROVE  OnceInv'
<1> USE DEF CoreInv, OnceInv
<1>1. Flow({}, {})
  <2>1. \A n, x : InChannel(n, x)' <=> InChannel(n, x)
    BY DEF InChannel
  <2> QED
    BY <2>1, RoutableSame DEF Flow
<1>2. /\ RouteInv' /\ FrameInv' /\ BatchInv' /\ ChannelOnce' /\ IsFiniteSet(Started)
      /\ IsFiniteSet(Started)'
  BY DEF RouteInv, FrameInv, BatchInv, ChannelOnce, Started, CountInv, WayInv, Receivers
<1>3. MapInv'
  BY <1>1, MapKeeps
<1>4. \A c \in Conns, m \in Msgs : Total(c, m)' <= Total(c, m)
  BY <1>2, TotalKeeps
<1> QED
  BY <1>1, <1>2, <1>3, <1>4, FlowKeeps

LEMMA OnceClient ==
  ASSUME CoreInv, TypeInv', NEW c \in Conns,
         \/ Accept(c) \/ ClientClose(c) \/ BadFrame(c) \/ ClosedAfterShutdown(c)
         \/ LeaveStep(c)
         \/ \E u \in Accounts[c] : LogoutErase(c, u)
  PROVE  OnceInv'
<1> DEFINE Apart == UNCHANGED <<req, dedup, channel, forward, offline, login, recv>>
           Erases == \A n \in Nodes, u \in Users : userConnMap'[n][u] \in {None, userConnMap[n][u]}
<1> USE DEF nodeVars, redisVars, linkVars, subVars, dbVars
<1>1. CASE Accept(c) \/ ClientClose(c) \/ BadFrame(c) \/ ClosedAfterShutdown(c)
  BY <1>1, OnceConn DEF Accept, ClientClose, BadFrame, ClosedAfterShutdown
<1>2. CASE LeaveState(c) \/ LeaveSrem(c)
  BY <1>2, OnceConn DEF LeaveState, LeaveSrem
<1>3. CASE CloseScan(c)
  <2>1. Apart
    BY <1>3 DEF CloseScan
  <2>2. Erases
    <3>1. userConnMap \in [Nodes -> [Users -> Conns \cup {None}]] /\ NodeOf[c] \in Nodes
      BY ClusterAssumption DEF CoreInv, TypeInv, TypeOK, ClusterAssumption
    <3>2. \/ UNCHANGED userConnMap
          \/ \E u \in Users : userConnMap' = [userConnMap EXCEPT ![NodeOf[c]][u] = None]
      BY <1>3 DEF CloseScan, Mine
    <3> QED
      BY <3>1, <3>2
  <2> QED
    BY <2>1, <2>2, OnceConn
<1>4. CASE \E u \in Accounts[c] : LogoutErase(c, u)
  <2>1. Apart
    BY <1>4 DEF LogoutErase
  <2>2. Erases
    BY <1>4, ClusterAssumption DEF LogoutErase, CoreInv, TypeInv, TypeOK, ClusterAssumption
  <2> QED
    BY <2>1, <2>2, OnceConn
<1> QED
  BY <1>1, <1>2, <1>3, <1>4 DEF LeaveStep

(* Steps of a login.                                                       *)
LEMMA OnceLogin ==
  ASSUME CoreInv, TypeInv', NEW l \in Logins,
         \/ LoginMap(l) \/ LoginSadd(l) \/ LoginFetch(l) \/ LoginRemove(l)
         \/ \E c \in Conns, u \in Users, k \in Nat : LoginState(l, c, u, k)
  PROVE  OnceInv'
<1> USE DEF CoreInv, OnceInv, nodeVars, redisVars, linkVars, subVars, dbVars
<1>0. /\ UNCHANGED <<req, dedup, channel, forward, recv>>
      /\ \A k \in Logins \ {l} : login'[k] = login[k]
  BY DEF LoginMap, LoginSadd, LoginFetch, LoginRemove, LoginState, TypeInv, TypeOK
<1>1. /\ login[l].pc # "free" => login'[l].user = login[l].user /\ login'[l].conn = login[l].conn
      /\ login[l].pc \in {"remove", "done", "lost"} => login'[l].pc \in {"remove", "done", "lost"}
      /\ login'[l].batch \subseteq login[l].batch \cup offline
      /\ \A x \in login'[l].batch : login'[l].pc \in {"deliver", "remove"} /\ x.to = login'[l].user
  <2>1. login[l] \in LoginRec
    BY DEF TypeInv, TypeOK, LoginRec
  <2>2. \A x \in login[l].batch : login[l].pc \in {"deliver", "remove"} /\ x.to = login[l].user
    BY DEF BatchInv
  <2>t. login \in [Logins -> LoginRec]
    BY DEF TypeInv, TypeOK, LoginRec
  <2> USE <2>1, <2>2, <2>t DEF LoginRec
  <2>3. CASE LoginMap(l)
    BY <2>3 DEF LoginMap
  <2>4. CASE LoginSadd(l)
    BY <2>4 DEF LoginSadd
  <2>5. CASE LoginFetch(l)
    BY <2>5 DEF LoginFetch
  <2>6. CASE LoginRemove(l)
    BY <2>6 DEF LoginRemove
  <2>7. CASE \E c \in Conns, u \in Users, k \in Nat : LoginState(l, c, u, k)
    <3>1. PICK c \in Conns, u \in Users, k \in Nat : LoginState(l, c, u, k)
      BY <2>7
    <3>2. login[l].pc = "free" /\ login'[l].batch = {}
      BY <3>1 DEF LoginState, NoLogin
    <3> QED
      BY <3>2
  <2> QED
    BY <2>3, <2>4, <2>5, <2>6, <2>7
<1>2. offline' \subseteq offline
  BY DEF LoginMap, LoginSadd, LoginFetch, LoginRemove, LoginState
<1>3. Flow({}, {})
  <2>1. \A n, x : InChannel(n, x)' <=> InChannel(n, x)
    BY <1>0 DEF InChannel
  <2>2. \A u, m : Routable(u, m)' <=> Routable(u, m)
    BY <1>0, RoutableSame
  <2> QED
    BY <1>0, <1>1, <1>2, <2>1, <2>2 DEF Flow
<1>4. RouteInv' /\ FrameInv' /\ ChannelOnce'
  BY <1>0 DEF RouteInv, FrameInv, ChannelOnce, WayInv, Receivers
<1>5. BatchInv'
  BY <1>0, <1>1 DEF BatchInv
<1>6. IsFiniteSet(Started) /\ IsFiniteSet(Started)'
  <2>1. Started' \subseteq Started \cup {l}
    BY <1>0 DEF Started
  <2>2. IsFiniteSet(Started)
    BY DEF CountInv
  <2>3. IsFiniteSet(Started \cup {l})
    BY <2>2, FS_AddElement
  <2> QED
    BY <2>1, <2>2, <2>3, FS_Subset
<1>7. MapInv'
  <2>1. CASE LoginMap(l)
    <3>1. login[l].conn \in Conns /\ login[l].user \in Users
      BY <2>1 DEF LoginMap, TypeInv, LoginBound
    <3>2. userConnMap' = [userConnMap EXCEPT ![NodeOf[login[l].conn]][login[l].user] = login[l].conn]
      BY <2>1 DEF LoginMap
    <3>3. \A k \in Logins : login'[k].conn = login[k].conn /\ login'[k].user = login[k].user
      BY <1>0, <1>1, <2>1 DEF LoginMap
    <3> QED
      BY <3>1, <3>2, <3>3, ClusterAssumption DEF MapInv, TypeInv, TypeOK, ClusterAssumption
  <2>2. CASE UNCHANGED userConnMap
    BY <1>3, <2>2, MapKeeps
  <2> QED
    BY <2>1, <2>2 DEF LoginSadd, LoginFetch, LoginRemove, LoginState
<1>8. \A c \in Conns, m \in Msgs : Total(c, m)' <= Total(c, m)
  BY <1>0, <1>6, TotalKeeps
<1> QED
  BY <1>3, <1>4, <1>5, <1>6, <1>7, <1>8, FlowKeeps

(* The offline messages of a login are sent once for it: the login was not *)
(* spent before, and is now.                                               *)
LEMMA OnceDeliver ==
  ASSUME CoreInv, TypeInv', NEW l \in Logins, LoginDeliver(l)
  PROVE  OnceInv'
<1> USE DEF CoreInv, OnceInv
<1>0. /\ UNCHANGED <<req, dedup, channel, forward, offline, userConnMap>>
      /\ login[l].pc = "deliver" /\ login \in [Logins -> LoginRec]
      /\ login' = [login EXCEPT ![l].pc = "remove"]
  BY DEF LoginDeliver, TypeInv, TypeOK, LoginRec, nodeVars, redisVars, subVars, dbVars
<1>1. /\ \A k \in Logins \ {l} : login'[k] = login[k]
      /\ login'[l].pc = "remove" /\ login'[l].user = login[l].user
      /\ login'[l].conn = login[l].conn /\ login'[l].batch = login[l].batch
      /\ login[l].conn \in Conns /\ login[l].user \in Users
  BY <1>0 DEF LoginRec, TypeInv, LoginBound
<1>2. Flow({}, {})
  <2>1. \A n, x : InChannel(n, x)' <=> InChannel(n, x)
    BY <1>0 DEF InChannel
  <2>2. \A u, m : Routable(u, m)' <=> Routable(u, m)
    BY <1>0, RoutableSame
  <2>3. \A k \in Logins :
       /\ login'[k].batch \subseteq login[k].batch \cup offline
       /\ login[k].pc # "free" => login'[k].user = login[k].user /\ login'[k].conn = login[k].conn
       /\ login[k].pc \in {"remove", "done", "lost"} => login'[k].pc \in {"remove", "done", "lost"}
    BY <1>0, <1>1
  <2> QED
    BY <1>0, <2>1, <2>2, <2>3 DEF Flow
<1>3. RouteInv' /\ FrameInv' /\ ChannelOnce' /\ MapInv'
  <2>1. MapInv'
    BY <1>0, <1>2, MapKeeps
  <2> QED
    BY <1>0, <2>1 DEF RouteInv, FrameInv, ChannelOnce, WayInv, Receivers
<1>4. BatchInv'
  BY <1>0, <1>1 DEF BatchInv
<1>5. IsFiniteSet(Started) /\ IsFiniteSet(Started)'
  <2>1. Started' \subseteq Started
    BY <1>0, <1>1 DEF Started
  <2>2. IsFiniteSet(Started)
    BY DEF CountInv
  <2> QED
    BY <2>1, <2>2, FS_Subset
<1>6. ASSUME NEW c \in Conns, NEW m \in Msgs, m.id # 0
      PROVE  \/ Total(c, m)' <= Total(c, m)
             \/ Total(c, m)' <= Total(c, m) + 1 /\ ~(SpentOn(c, m)' \subseteq SpentOn(c, m))
  <2>1. /\ Cardinality(PendingOn(c, m)) \in Nat /\ recv[c][m] \in Nat /\ Sending(c, m) \in {0, 1}
        /\ Cardinality(PendingOn(c, m)') \in Nat /\ recv'[c][m] \in Nat
        /\ Total(c, m)' = recv'[c][m] + Sending(c, m)' + Cardinality(PendingOn(c, m)')
    BY <1>5, CountType, CountTypeNext
  <2>2. Cardinality(PendingOn(c, m)') <= Cardinality(PendingOn(c, m))
    BY <1>0, <1>5, PendingShrinks
  <2>3. Sending(c, m)' = Sending(c, m)
    BY <1>0 DEF Sending
  <2>4. PICK x \in Rows : x = Row(login[l].user, m)
    BY <1>1 DEF Row, Rows
  <2>5. CASE c = login[l].conn /\ x \in login[l].batch
    <3>1. recv'[c][m] <= recv[c][m] + 1
      BY <2>1 DEF LoginDeliver, TypeInv, TypeOK
    <3>2. x.msg = m /\ x.to = login[l].user
      BY <2>4 DEF Row
    <3>3. InBatch(x)
      BY <2>5 DEF InBatch
    <3>4. x.to \in Receivers(m) /\ ~Routable(x.to, m) /\ \A n \in Nodes : ~InChannel(n, x)
      BY <1>6, <3>2, <3>3 DEF WayInv
    <3>5. NodeOf[c] \in Nodes
      BY ClusterAssumption DEF ClusterAssumption
    <3>6. ~Spent(l, m)
      BY <1>0, <2>4, <2>5 DEF Spent
    <3>7. Spent(l, m)'
      <4>1. ~Routable(x.to, m)' /\ ~InChannel(NodeOf[c], x)'
        BY <1>0, <3>4, <3>5, RoutableSame DEF InChannel
      <4>2. Row(login'[l].user, m) = x /\ login'[l].conn = c
        BY <1>1, <2>4, <2>5
      <4> QED
        BY <1>1, <3>4, <4>1, <4>2 DEF Spent
    <3>8. l \in SpentOn(c, m)' /\ l \notin SpentOn(c, m)
      BY <1>1, <2>5, <3>6, <3>7 DEF SpentOn
    <3> QED
      BY <2>1, <2>2, <2>3, <3>1, <3>8 DEF Total
  <2>6. CASE ~(c = login[l].conn /\ x \in login[l].batch)
    <3>1. recv'[c][m] = recv[c][m]
      BY <2>1, <2>4, <2>6 DEF LoginDeliver, Unseen, Row, TypeInv, TypeOK
    <3> QED
      BY <2>1, <2>2, <2>3, <3>1 DEF Total
  <2> QED
    BY <2>5, <2>6
<1> QED
  BY <1>2, <1>3, <1>4, <1>5, <1>6, FlowKeeps

(* Steps of a subscriber thread.                                           *)
LEMMA LogFlow ==
  ASSUME UNCHANGED <<req, dedup, offline, login>>,
         \A n \in Nodes, x \in Rows : InChannel(n, x)' => InChannel(n, x)
  PROVE  Flow({}, {})
  BY RoutableSame DEF Flow

LEMMA OnceLookup ==
  ASSUME CoreInv, TypeInv', NEW n \in Nodes, SubLookup(n)
  PROVE  OnceInv'
<1> USE DEF CoreInv, OnceInv
<1>0. /\ UNCHANGED <<req, dedup, offline, login, userConnMap, recv>>
      /\ channel' = [channel EXCEPT ![n] = Tail(channel[n])]
      /\ channel \in [Nodes -> Seq(Rows)] /\ channel[n] # <<>> /\ forward[n] = NoFrame
  BY DEF SubLookup, TypeInv, TypeOK, nodeVars, redisVars, subVars, dbVars
<1>1. /\ \A k \in Nodes \ {n} : channel'[k] = channel[k]
      /\ channel[n] \in Seq(Rows) /\ Len(channel[n]) \in Nat \ {0}
      /\ DOMAIN channel[n] = 1 .. Len(channel[n]) /\ 1 \in DOMAIN channel[n]
      /\ DOMAIN channel'[n] = 1 .. (Len(channel[n]) - 1)
      /\ \A i \in DOMAIN channel'[n] : i + 1 \in DOMAIN channel[n] /\ i + 1 # 1
                                       /\ channel'[n][i] = channel[n][i + 1]
  BY <1>0
<1>2. PICK x \in Rows : x = Head(channel[n]) /\ x = channel[n][1]
  BY <1>1
<1>3. Flow({}, {}) /\ ChannelOnce'
  <2>1. \A k \in Nodes, y \in Rows : InChannel(k, y)' => InChannel(k, y)
    BY <1>1 DEF InChannel
  <2>2. ChannelOnce'
    <3> SUFFICES ASSUME NEW k \in Nodes, NEW i \in DOMAIN channel'[k], NEW j \in DOMAIN channel'[k],
                        channel'[k][i] = channel'[k][j], channel'[k][i].msg.id # 0
                 PROVE  i = j
      BY DEF ChannelOnce
    <3>1. CASE k # n
      BY <1>1, <3>1 DEF WayInv
    <3>2. CASE k = n
      <4>1. i + 1 = j + 1
        BY <1>1, <3>2 DEF WayInv
      <4>2. i \in Int /\ j \in Int
        BY <1>1, <3>2
      <4> QED
        BY <4>1, <4>2
    <3> QED
      BY <3>1, <3>2
  <2> QED
    BY <1>0, <2>1, <2>2, LogFlow
<1>4. RouteInv' /\ MapInv' /\ BatchInv'
  <2>1. RouteInv'
    BY <1>0 DEF RouteInv, Receivers
  <2>2. MapInv'
    BY <1>0 DEF MapInv
  <2>3. BatchInv'
    BY <1>0 DEF BatchInv
  <2> QED
    BY <2>1, <2>2, <2>3
<1>5. IsFiniteSet(Started) /\ IsFiniteSet(Started)'
  BY <1>0 DEF Started, CountInv
<1>6. CASE ~Reachable(n, x.to)
  <2>1. UNCHANGED forward
    BY <1>2, <1>6 DEF SubLookup
  <2>2. FrameInv'
    BY <2>1 DEF FrameInv
  <2>3. \A c \in Conns, m \in Msgs : Total(c, m)' <= Total(c, m)
    BY <1>0, <1>5, <2>1, TotalKeeps
  <2> QED
    BY <1>3, <1>4, <1>5, <2>2, <2>3, FlowKeeps
<1>7. CASE Reachable(n, x.to)
  <2>1. PICK d \in Conns : d = userConnMap[n][x.to] /\ NodeOf[d] = n
    BY <1>7 DEF Reachable, MapInv, TypeInv, TypeOK, Rows
  <2>2. forward' = [forward EXCEPT ![n] = [conn |-> d, msg |-> x.msg]]
    BY <1>2, <1>7, <2>1 DEF SubLookup
  <2>f. forward \in [Nodes -> [conn : Conns \cup {None}, msg : Msgs \cup {None}]]
    BY DEF TypeInv, TypeOK
  <2>3. FrameInv'
    BY <2>1, <2>2, <2>f DEF FrameInv
  <2>4. ASSUME NEW c \in Conns, NEW m \in Msgs, m.id # 0
        PROVE  \/ Total(c, m)' <= Total(c, m)
               \/ Total(c, m)' <= Total(c, m) + 1 /\ ~(SpentOn(c, m)' \subseteq SpentOn(c, m))
    <3>1. /\ Cardinality(PendingOn(c, m)) \in Nat /\ recv[c][m] \in Nat /\ Sending(c, m) \in {0, 1}
          /\ Cardinality(PendingOn(c, m)') \in Nat /\ Sending(c, m)' \in {0, 1}
          /\ Total(c, m)' = recv'[c][m] + Sending(c, m)' + Cardinality(PendingOn(c, m)')
      BY <1>5, CountType, CountTypeNext
    <3>2. Cardinality(PendingOn(c, m)') <= Cardinality(PendingOn(c, m)) /\ recv'[c][m] = recv[c][m]
      BY <1>0, <1>5, PendingShrinks
    <3>3. CASE Sending(c, m)' <= Sending(c, m)
      BY <3>1, <3>2, <3>3 DEF Total
    <3>4. CASE ~(Sending(c, m)' <= Sending(c, m))
      <4>1. Sending(c, m)' = 1 /\ Sending(c, m) = 0
        BY <3>1, <3>4
      <4>2. forward'[NodeOf[c]] = [conn |-> c, msg |-> m] /\ forward[NodeOf[c]] # [conn |-> c, msg |-> m]
        BY <4>1 DEF Sending
      <4>3. NodeOf[c] = n /\ c = d /\ m = x.msg
        BY <2>2, <2>f, <4>2, ClusterAssumption DEF ClusterAssumption
      <4>4. PICK l \in Logins : login[l].conn = c /\ login[l].user = x.to
        BY <1>7, <2>1, <4>3 DEF MapInv, Reachable, Rows
      <4>5. x = Row(login[l].user, m)
        BY <4>3, <4>4, RowParts
      <4>6. InChannel(n, x)
        BY <1>1, <1>2 DEF InChannel
      <4>7. l \notin SpentOn(c, m)
        BY <4>3, <4>4, <4>5, <4>6 DEF SpentOn, Spent
      <4>8. x.to \in Receivers(m) /\ ~Routable(x.to, m) /\ x \notin offline /\ x \notin login[l].batch
        BY <2>4, <4>3, <4>6 DEF WayInv, InBatch
      <4>9. ~InChannel(n, x)'
        <5> SUFFICES ASSUME NEW i \in DOMAIN channel'[n], channel'[n][i] = x
                     PROVE  FALSE
          BY DEF InChannel
        <5>1. channel[n][i + 1] = channel[n][1] /\ channel[n][i + 1].msg.id # 0
          BY <1>1, <1>2, <2>4, <4>3
        <5> QED
          BY <1>1, <5>1 DEF WayInv
      <4>10. Spent(l, m)'
        <5>1. ~Routable(x.to, m)'
          BY <1>0, <4>8, RoutableSame
        <5>2. Row(login'[l].user, m) = x /\ login'[l] = login[l]
          BY <1>0, <4>5
        <5> QED
          BY <1>0, <4>3, <4>4, <4>8, <4>9, <5>1, <5>2 DEF Spent
      <4>11. l \in SpentOn(c, m)'
        BY <1>0, <4>4, <4>10 DEF SpentOn
      <4> QED
        BY <3>1, <3>2, <4>1, <4>7, <4>11 DEF Total
    <3> QED
      BY <3>3, <3>4
  <2> QED
    BY <1>3, <1>4, <1>5, <2>3, <2>4, FlowKeeps
<1> QED
  BY <1>6, <1>7

LEMMA OnceSend ==
  ASSUME CoreInv, TypeInv', NEW n \in Nodes, SubSend(n)
  PROVE  OnceInv'
<1> USE DEF CoreInv, OnceInv
<1>0. /\ UNCHANGED <<req, dedup, offline, login, userConnMap, channel>>
      /\ forward[n] # NoFrame /\ forward' = [forward EXCEPT ![n] = NoFrame]
      /\ forward \in [Nodes -> [conn : Conns \cup {None}, msg : Msgs \cup {None}]]
      /\ recv \in [Conns -> [Msgs -> Nat]]
  BY DEF SubSend, TypeInv, TypeOK, nodeVars, redisVars, subVars, dbVars
<1>1. PICK d \in Conns, x \in Msgs : /\ forward[n].conn = d /\ forward[n].msg = x
                                     /\ forward[n] = [conn |-> d, msg |-> x] /\ NodeOf[d] = n
  BY <1>0 DEF TypeInv, FrameBound, FrameInv
<1>2. Flow({}, {})
  BY <1>0, LogFlow DEF InChannel
<1>3. RouteInv' /\ MapInv' /\ BatchInv' /\ ChannelOnce'
  <2>1. RouteInv'
    BY <1>0 DEF RouteInv, Receivers
  <2>2. MapInv'
    BY <1>0 DEF MapInv
  <2>3. BatchInv' /\ ChannelOnce'
    BY <1>0 DEF BatchInv, ChannelOnce, WayInv
  <2> QED
    BY <2>1, <2>2, <2>3
<1>4. IsFiniteSet(Started) /\ IsFiniteSet(Started)'
  BY <1>0 DEF Started, CountInv
<1>5. FrameInv'
  BY <1>0 DEF FrameInv
<1>6. ASSUME NEW c \in Conns, NEW m \in Msgs
      PROVE  Total(c, m)' <= Total(c, m)
  <2>1. /\ Cardinality(PendingOn(c, m)) \in Nat /\ recv[c][m] \in Nat /\ Sending(c, m) \in {0, 1}
        /\ Cardinality(PendingOn(c, m)') \in Nat /\ Sending(c, m)' \in {0, 1} /\ recv'[c][m] \in Nat
        /\ Total(c, m)' = recv'[c][m] + Sending(c, m)' + Cardinality(PendingOn(c, m)')
    BY <1>4, CountType, CountTypeNext
  <2>2. Cardinality(PendingOn(c, m)') <= Cardinality(PendingOn(c, m))
    BY <1>0, <1>4, PendingShrinks
  <2>c. NodeOf[c] \in Nodes
    BY ClusterAssumption DEF ClusterAssumption
  <2>3. CASE c = d /\ m = x
    <3>1. Sending(c, m) = 1
      BY <1>1, <2>3 DEF Sending
    <3>2. NoFrame # [conn |-> c, msg |-> m]
      BY <1>0, <1>1, <2>3
    <3>3. Sending(c, m)' = 0
      BY <1>0, <1>1, <2>3, <3>2 DEF Sending
    <3>4. recv'[c][m] <= recv[c][m] + 1
      BY <1>0, <1>1, <2>1 DEF SubSend
    <3> QED
      BY <2>1, <2>2, <3>1, <3>3, <3>4 DEF Total
  <2>4. CASE ~(c = d /\ m = x)
    <3>1. recv'[c][m] = recv[c][m]
      BY <1>0, <1>1, <2>4 DEF SubSend
    <3>2. NoFrame # [conn |-> c, msg |-> m]
      BY ClusterAssumption DEF ClusterAssumption, NoFrame
    <3>3. Sending(c, m)' <= Sending(c, m)
      BY <1>0, <2>1, <2>c, <3>2 DEF Sending
    <3> QED
      BY <2>1, <2>2, <3>1, <3>3 DEF Total
  <2> QED
    BY <2>3, <2>4
<1> QED
  BY <1>2, <1>3, <1>4, <1>5, <1>6, FlowKeeps

LEMMA OnceSubscriberLost ==
  ASSUME CoreInv, TypeInv', NEW n \in Nodes, SubscriberLost(n)
  PROVE  OnceInv'
<1> USE DEF CoreInv, OnceInv
<1>0. /\ UNCHANGED <<req, dedup, offline, login, userConnMap, forward, recv>>
      /\ channel' = [channel EXCEPT ![n] = <<>>] /\ channel \in [Nodes -> Seq(Rows)]
  BY DEF SubscriberLost, TypeInv, TypeOK, nodeVars, redisVars, subVars, dbVars
<1>1. Flow({}, {})
  <2>1. \A k \in Nodes, y \in Rows : InChannel(k, y)' => InChannel(k, y)
    BY <1>0 DEF InChannel
  <2> QED
    BY <1>0, <2>1, LogFlow
<1>2. RouteInv' /\ MapInv'
  <2>1. RouteInv'
    BY <1>0 DEF RouteInv, Receivers
  <2>2. MapInv'
    BY <1>0 DEF MapInv
  <2> QED
    BY <2>1, <2>2
<1>3. FrameInv' /\ BatchInv'
  BY <1>0 DEF FrameInv, BatchInv
<1>4. ChannelOnce'
  BY <1>0 DEF ChannelOnce, WayInv
<1>5. IsFiniteSet(Started) /\ IsFiniteSet(Started)'
  BY <1>0 DEF Started, CountInv
<1>6. \A c \in Conns, m \in Msgs : Total(c, m)' <= Total(c, m)
  BY <1>0, <1>5, TotalKeeps
<1> QED
  BY <1>1, <1>2, <1>3, <1>4, <1>5, <1>6, FlowKeeps

LEMMA OnceRestart ==
  ASSUME CoreInv, TypeInv', NEW n \in Nodes, Restart(n)
  PROVE  OnceInv'
<1> USE DEF CoreInv, OnceInv
<1>0. /\ UNCHANGED <<dedup, offline, recv>>
      /\ channel' = [channel EXCEPT ![n] = <<>>] /\ channel \in [Nodes -> Seq(Rows)]
      /\ forward' = [forward EXCEPT ![n] = NoFrame]
      /\ forward \in [Nodes -> [conn : Conns \cup {None}, msg : Msgs \cup {None}]]
      /\ userConnMap' = [userConnMap EXCEPT ![n] = [u \in Users |-> None]]
      /\ userConnMap \in [Nodes -> [Users -> Conns \cup {None}]]
  BY DEF Restart, TypeInv, TypeOK, redisVars, dbVars
<1>1. /\ RouteInv'
      /\ \A q \in Requests : /\ req'[q].msg = req[q].msg
                             /\ req'[q].local \subseteq req[q].local
                             /\ \A u : Routing(q, u)' => Routing(q, u)
  BY RouteRestart
<1>2. \A l \in Logins :
        /\ login'[l].user = login[l].user /\ login'[l].conn = login[l].conn
        /\ \/ login'[l].pc = login[l].pc /\ login'[l].batch = login[l].batch
           \/ login'[l].pc = "lost" /\ login'[l].batch = {}
        /\ login[l].pc = "free" => login'[l].pc = "free"
        /\ login[l].pc = "done" => login'[l].pc = "done"
  <2> SUFFICES ASSUME NEW l \in Logins
               PROVE  /\ login'[l].user = login[l].user /\ login'[l].conn = login[l].conn
                      /\ \/ login'[l].pc = login[l].pc /\ login'[l].batch = login[l].batch
                         \/ login'[l].pc = "lost" /\ login'[l].batch = {}
                      /\ login[l].pc = "free" => login'[l].pc = "free"
                      /\ login[l].pc = "done" => login'[l].pc = "done"
    OBVIOUS
  <2>1. login[l] \in LoginRec
    BY DEF TypeInv, TypeOK, LoginRec
  <2>2. login'[l] = IF (login[l].conn # None /\ NodeOf[login[l].conn] = n) /\ login[l].pc # "done"
                    THEN [login[l] EXCEPT !.pc = "lost", !.batch = {}] ELSE login[l]
    BY DEF Restart
  <2>3. login[l].pc = "free" => login[l].conn = None
    BY DEF TypeInv, LoginBound
  <2>4. [login[l] EXCEPT !.pc = "lost", !.batch = {}].pc = "lost"
        /\ [login[l] EXCEPT !.pc = "lost", !.batch = {}].batch = {}
        /\ [login[l] EXCEPT !.pc = "lost", !.batch = {}].user = login[l].user
        /\ [login[l] EXCEPT !.pc = "lost", !.batch = {}].conn = login[l].conn
    BY <2>1 DEF LoginRec
  <2>5. CASE login'[l] = login[l]
    BY <2>5
  <2>6. CASE login'[l] # login[l]
    BY <2>2, <2>3, <2>4, <2>6
  <2> QED
    BY <2>5, <2>6
<1>3. Flow({}, {})
  <2>1. \A k \in Nodes, y \in Rows : InChannel(k, y)' => InChannel(k, y)
    BY <1>0 DEF InChannel
  <2>2. \A u, m : Routable(u, m)' => Routable(u, m)
    BY <1>0, <1>1 DEF Routable
  <2>3. \A l \in Logins :
       /\ login'[l].batch \subseteq login[l].batch \cup offline
       /\ login[l].pc # "free" => login'[l].user = login[l].user /\ login'[l].conn = login[l].conn
       /\ login[l].pc \in {"remove", "done", "lost"} => login'[l].pc \in {"remove", "done", "lost"}
    BY <1>2
  <2> QED
    BY <1>0, <2>1, <2>2, <2>3 DEF Flow
<1>4. MapInv'
  <2>1. \A k \in Nodes, u \in Users : userConnMap'[k][u] \in {None, userConnMap[k][u]}
    BY <1>0
  <2> QED
    BY <1>3, <2>1, MapKeeps
<1>5. FrameInv'
  BY <1>0 DEF FrameInv
<1>6. BatchInv'
  BY <1>2 DEF BatchInv
<1>7. ChannelOnce'
  BY <1>0 DEF ChannelOnce, WayInv
<1>8. IsFiniteSet(Started) /\ IsFiniteSet(Started)'
  <2>1. Started' \subseteq Started
    BY <1>2 DEF Started
  <2>2. IsFiniteSet(Started)
    BY DEF CountInv
  <2> QED
    BY <2>1, <2>2, FS_Subset
<1>9. ASSUME NEW c \in Conns, NEW m \in Msgs
      PROVE  Total(c, m)' <= Total(c, m)
  <2>1. /\ Cardinality(PendingOn(c, m)) \in Nat /\ recv[c][m] \in Nat /\ Sending(c, m) \in {0, 1}
        /\ Cardinality(PendingOn(c, m)') \in Nat /\ Sending(c, m)' \in {0, 1}
        /\ Total(c, m)' = recv'[c][m] + Sending(c, m)' + Cardinality(PendingOn(c, m)')
    BY <1>8, CountType, CountTypeNext
  <2>2. Cardinality(PendingOn(c, m)') <= Cardinality(PendingOn(c, m)) /\ recv' = recv
    BY <1>0, <1>1, <1>8, PendingShrinks
  <2>3. Sending(c, m)' <= Sending(c, m)
    <3>1. NoFrame # [conn |-> c, msg |-> m]
      BY ClusterAssumption DEF ClusterAssumption, NoFrame
    <3>2. NodeOf[c] \in Nodes
      BY ClusterAssumption DEF ClusterAssumption
    <3> QED
      BY <1>0, <2>1, <3>1, <3>2 DEF Sending
  <2> QED
    BY <2>1, <2>2, <2>3 DEF Total
<1> QED
  BY <1>1, <1>3, <1>4, <1>5, <1>6, <1>7, <1>8, <1>9, FlowKeeps

(* Steps of a request.  Only rows of the recipient being dealt with are    *)
(* added, and it is settled with that.                                     *)
LEMMA NoRevival ==
  ASSUME CoreInv, NEW r \in Requests, Steps(r), NEW u, NEW m, m.id # 0, Routable(u, m)'
  PROVE  Routable(u, m)
<1>1. Effect(r) /\ \A q \in Requests \ {r} : req'[q] = req[q]
  BY StepEffect DEF CoreInv, Steps
<1>2. dedup \subseteq dedup'
  BY <1>1 DEF Effect
<1>3. CASE Key(m) \notin dedup'
  BY <1>2, <1>3 DEF Routable
<1>4. ASSUME NEW q \in Requests, req'[q].msg = m, Routing(q, u)'
      PROVE  Routable(u, m)
  <2>1. CASE q # r
    <3>1. req'[q] = req[q]
      BY <1>1, <2>1
    <3> QED
      BY <1>4, <3>1 DEF Routable, Routing
  <2>2. CASE q = r
    <3>1. req'[r].msg = req[r].msg /\ (Routing(r, u) \/ KeyOf(r) \notin dedup)
      BY <1>4, <2>2, RouteStep DEF CoreInv, OnceInv
    <3> QED
      BY <1>4, <2>2, <3>1 DEF Routable, KeyOf
  <2> QED
    BY <2>1, <2>2
<1> QED
  BY <1>3, <1>4 DEF Routable

(* What every step of a request leaves alone.                              *)
LEMMA RequestFrame ==
  ASSUME CoreInv, NEW r \in Requests, Steps(r)
  PROVE  /\ UNCHANGED <<login, userConnMap, forward>>
         /\ RouteInv' /\ MapInv' /\ FrameInv' /\ BatchInv'
         /\ IsFiniteSet(Started) /\ IsFiniteSet(Started)'
         /\ \A q \in Requests \ {r} : req'[q] = req[q]
<1>1. UNCHANGED <<login, userConnMap, forward>>
  BY DEF Steps, RequestStep, TryAcquireDedup, GetCachedAck, OneChatLocal, OneChatRemote,
     GroupChatRun, GroupChatClassify, GroupChatSendLocal, Route, Publish, StoreOffline,
     StoreFails, SendAck, CacheAck, Receive, nodeVars, subVars
<1>2. \A q \in Requests \ {r} : req'[q] = req[q]
  BY StepEffect DEF CoreInv, Steps
<1>3. RouteInv'
  BY RouteStep DEF CoreInv, OnceInv
<1>4. MapInv' /\ FrameInv'
  BY <1>1 DEF CoreInv, OnceInv, MapInv, FrameInv
<1>5. BatchInv' /\ IsFiniteSet(Started) /\ IsFiniteSet(Started)'
  BY <1>1 DEF CoreInv, OnceInv, BatchInv, CountInv, Started
<1> QED
  BY <1>1, <1>2, <1>3, <1>4, <1>5

(* Steps that hand nothing over.                                           *)
LEMMA QuietFlow ==
  ASSUME CoreInv, NEW r \in Requests, Steps(r), UNCHANGED <<channel, offline>>
  PROVE  Flow({}, {}) /\ ChannelOnce'
<1>1. \A u \in Users, m \in Msgs : m.id # 0 /\ Routable(u, m)' => Routable(u, m)
  BY NoRevival
<1>2. \A n \in Nodes, x \in Rows : InChannel(n, x)' => InChannel(n, x)
  BY DEF InChannel
<1>3. UNCHANGED login
  BY RequestFrame
<1>4. ChannelOnce'
  BY DEF CoreInv, OnceInv, WayInv, ChannelOnce
<1> QED
  BY <1>1, <1>2, <1>3, <1>4 DEF Flow

LEMMA OnceQuiet ==
  ASSUME CoreInv, TypeInv', NEW r \in Requests,
         \/ TryAcquireDedup(r) \/ GetCachedAck(r) \/ OneChatRemote(r) \/ GroupChatRun(r)
         \/ \E u \in Users : Route(r, u)
         \/ StoreFails(r) \/ SendAck(r) \/ CacheAck(r)
         \/ \E c \in Conns, m \in Msgs : Receive(r, c, m)
  PROVE  OnceInv'
<1>1. Steps(r)
  BY DEF Steps, RequestStep
<1>2. UNCHANGED <<channel, offline, recv, forward>>
  BY DEF TryAcquireDedup, GetCachedAck, OneChatRemote, GroupChatRun, Route,
     StoreFails, SendAck, CacheAck, Receive, subVars, dbVars
<1>3. /\ RouteInv' /\ MapInv' /\ FrameInv' /\ BatchInv'
      /\ IsFiniteSet(Started) /\ IsFiniteSet(Started)'
      /\ \A q \in Requests \ {r} : req'[q] = req[q]
  BY <1>1, RequestFrame
<1>4. req'[r].local # {} => req'[r].msg = req[r].msg /\ req'[r].local \subseteq req[r].local
  <2>1. req \in [Requests -> ReqRec] /\ req[r] \in ReqRec
    BY DEF CoreInv, TypeInv, TypeOK, ReqRec
  <2> USE <2>1 DEF ReqRec, Goto
  <2>2. CASE \/ TryAcquireDedup(r) \/ GetCachedAck(r) \/ OneChatRemote(r) \/ GroupChatRun(r)
             \/ SendAck(r) \/ CacheAck(r)
    BY <2>2 DEF TryAcquireDedup, GetCachedAck, OneChatRemote, GroupChatRun, SendAck, CacheAck
  <2>3. CASE StoreFails(r) \/ \E u \in Users : Route(r, u)
    <3>1. CASE StoreFails(r)
      BY <3>1 DEF StoreFails, Routed
    <3>2. ASSUME NEW u \in Users, Route(r, u)
          PROVE  req'[r].msg = req[r].msg /\ req'[r].local = req[r].local
      BY <3>2 DEF Route
    <3> QED
      BY <2>3, <3>1, <3>2
  <2>4. CASE \E c \in Conns, m \in Msgs : Receive(r, c, m)
    <3>1. PICK c \in Conns, m \in Msgs : Receive(r, c, m)
      BY <2>4
    <3>2. req' = [req EXCEPT ![r] = req'[r]] /\ req'[r].local = {}
      BY <3>1 DEF Receive, Enter, NoReq
    <3> QED
      BY <3>2
  <2> QED
    BY <2>2, <2>3, <2>4
<1>5. \A c \in Conns, m \in Msgs : Total(c, m)' <= Total(c, m)
  BY <1>2, <1>3, <1>4, TotalKeeps DEF CoreInv
<1>6. Flow({}, {}) /\ ChannelOnce'
  BY <1>1, <1>2, QuietFlow
<1> QED
  BY <1>3, <1>5, <1>6, FlowKeeps

(* A request at the look-up still has every recipient before it, so nobody *)
(* was sent its message and no login is spent for it.                      *)
LEMMA NothingYet ==
  ASSUME CoreInv, NEW r \in Requests, req[r].pc \in {"lookup", "classify"},
         req[r].msg.id # 0, NEW c \in Conns
  PROVE  LET m == req[r].msg IN
         /\ m \in Msgs /\ SpentOn(c, m) = {}
         /\ recv[c][m] = 0 /\ Sending(c, m) = 0 /\ PendingOn(c, m) = {}
         /\ \A u \in Users : Row(u, m) \notin offline /\ ~InBatch(Row(u, m))
                             /\ \A n \in Nodes : ~InChannel(n, Row(u, m))
<1> DEFINE m == req[r].msg
<1>1. m \in Msgs
  BY DEF CoreInv, TypeInv, ReqBound
<1>2. \A u : Routable(u, m)
  BY DEF Routable, Routing
<1>3. SpentOn(c, m) = {}
  BY <1>2 DEF SpentOn, Spent
<1>4. IsFiniteSet(Started) /\ TypeInv
  BY DEF CoreInv, OnceInv, CountInv
<1>5. Total(c, m) <= 0
  BY <1>1, <1>3, FS_EmptySet DEF CoreInv, OnceInv, CountInv
<1>6. /\ recv[c][m] \in Nat /\ Sending(c, m) \in {0, 1} /\ Cardinality(PendingOn(c, m)) \in Nat
      /\ IsFiniteSet(PendingOn(c, m))
  BY <1>1, <1>4, CountType
<1>7. recv[c][m] = 0 /\ Sending(c, m) = 0 /\ Cardinality(PendingOn(c, m)) = 0
  BY <1>5, <1>6 DEF Total
<1>8. PendingOn(c, m) = {}
  BY <1>6, <1>7, FS_EmptySet
<1>9. ASSUME NEW u \in Users
      PROVE  Row(u, m) \notin offline /\ ~InBatch(Row(u, m))
             /\ \A n \in Nodes : ~InChannel(n, Row(u, m))
  <2>0. Row(u, m) \in Rows /\ Row(u, m).to = u /\ Row(u, m).msg = m
    BY <1>1 DEF Row, Rows
  <2>1. PICK x \in Rows : x = Row(u, m) /\ x.to = u /\ x.msg = m
    BY <2>0
  <2>2. m.id # 0 /\ Routable(x.to, x.msg)
    BY <1>2, <2>1
  <2>3. WayInv
    BY DEF CoreInv, OnceInv
  <2>4. ~((\E n \in Nodes : InChannel(n, x)) \/ InBatch(x) \/ x \in offline)
    BY <2>1, <2>2, <2>3 DEF WayInv
  <2> QED
    BY <2>1, <2>4
<1> HIDE DEF m
<1> QED
  BY <1>1, <1>3, <1>7, <1>8, <1>9 DEF m

(* The frames and tasks of the other messages are as before.               *)
LEMMA OtherPending ==
  ASSUME CoreInv, NEW r \in Requests, Steps(r), req[r].pc # "free",
         req'[r].msg = req[r].msg, NEW c, NEW m, m # req[r].msg
  PROVE  PendingOn(c, m)' = PendingOn(c, m)
<1>1. \A q \in Requests \ {r} : req'[q] = req[q]
  BY RequestFrame
<1> QED
  BY <1>1 DEF PendingOn

(* The one admitted request is the only one with frames of its message.    *)
LEMMA OwnPending ==
  ASSUME CoreInv, NEW r \in Requests, Admitted(r), req[r].msg.id # 0, NEW c
  PROVE  PendingOn(c, req[r].msg) = {t \in Users \X Conns : t[2] = c /\ t \in req[r].local}
<1>1. ASSUME NEW q \in Requests, req[q].msg = req[r].msg, req[q].local # {}
      PROVE  q = r
  <2>1. Admitted(q) /\ KeyOf(q) = KeyOf(r)
    BY <1>1 DEF CoreInv, OnceInv, RouteInv, Admitted, Working, KeyOf
  <2> QED
    BY <2>1 DEF CoreInv, AnswerInv, GateInv
<1> QED
  BY <1>1 DEF PendingOn

(* The private message is sent on the connection of the recipient's login. *)
LEMMA OnceLocal ==
  ASSUME CoreInv, TypeInv', NEW r \in Requests, OneChatLocal(r)
  PROVE  OnceInv'
<1> USE DEF CoreInv, OnceInv
<1>0. Steps(r) /\ UNCHANGED <<channel, offline, forward, dedup, login>>
  BY DEF Steps, RequestStep, OneChatLocal, redisVars, subVars, dbVars
<1>1. /\ RouteInv' /\ MapInv' /\ FrameInv' /\ BatchInv'
      /\ IsFiniteSet(Started) /\ IsFiniteSet(Started)'
      /\ \A q \in Requests \ {r} : req'[q] = req[q]
  BY <1>0, RequestFrame
<1>2. Flow({}, {}) /\ ChannelOnce'
  BY <1>0, QuietFlow
<1>3. /\ req[r].pc = "lookup" /\ req'[r].pc = "cache" /\ req'[r].msg = req[r].msg
      /\ req[r].local = {} /\ req'[r].local = {} /\ req[r].todo = {} /\ req'[r].todo = {}
      /\ req[r].msg \in Msgs /\ req[r].msg.kind = "private" /\ ReqNode(r) \in Nodes
  <2>1. req \in [Requests -> ReqRec] /\ req[r] \in ReqRec
    BY DEF TypeInv, TypeOK, ReqRec
  <2> QED
    BY <2>1, ClusterAssumption
       DEF OneChatLocal, ReqAt, ReqRec, RouteInv, TypeInv, ReqBound, ReqNode, ClusterAssumption
<1>4. PICK u \in Users : /\ u \in Receivers(req[r].msg)
                         /\ Reachable(ReqNode(r), u)
                         /\ SendFrames({<<u, userConnMap[ReqNode(r)][u]>>}, req[r].msg)
  BY <1>3, MsgType DEF OneChatLocal, Receivers
<1>5. PICK d \in Conns, l \in Logins :
        d = userConnMap[ReqNode(r)][u] /\ login[l].conn = d /\ login[l].user = u
  BY <1>3, <1>4 DEF Reachable, MapInv, TypeInv, TypeOK
<1>6. PICK mm \in Msgs : mm = req[r].msg
  BY <1>3
<1>7. ASSUME NEW c \in Conns, NEW m \in Msgs, m.id # 0
      PROVE  \/ Total(c, m)' <= Total(c, m)
             \/ Total(c, m)' <= Total(c, m) + 1 /\ ~(SpentOn(c, m)' \subseteq SpentOn(c, m))
  <2>1. /\ Cardinality(PendingOn(c, m)) \in Nat /\ recv[c][m] \in Nat /\ Sending(c, m) \in {0, 1}
        /\ Cardinality(PendingOn(c, m)') \in Nat /\ Sending(c, m)' \in {0, 1}
        /\ Total(c, m)' = recv'[c][m] + Sending(c, m)' + Cardinality(PendingOn(c, m)')
    BY <1>1, CountType, CountTypeNext
  <2>2. Cardinality(PendingOn(c, m)') <= Cardinality(PendingOn(c, m)) /\ Sending(c, m)' = Sending(c, m)
    <3>1. \A q \in Requests : req'[q].local # {} =>
            req'[q].msg = req[q].msg /\ req'[q].local \subseteq req[q].local
      BY <1>1, <1>3
    <3> QED
      BY <1>0, <1>1, <3>1, PendingShrinks DEF Sending
  <2> DEFINE hits == {t \in {<<u, d>>} : t[2] = c}
  <2>3. recv'[c][m] = IF m = mm /\ Connected(c) THEN recv[c][m] + Cardinality(hits)
                                                ELSE recv[c][m]
    BY <1>4, <1>5, <1>6 DEF SendFrames
  <2>4. CASE m = mm /\ c = d
    <3>1. hits = {<<u, d>>}
      BY <2>4
    <3> HIDE DEF hits
    <3>a. Cardinality(hits) = 1
      BY <3>1, FS_Singleton
    <3>2. recv'[c][m] <= recv[c][m] + 1 /\ recv'[c][m] \in Nat
      BY <2>1, <2>3, <3>a
    <3>3. /\ SpentOn(c, m) = {} /\ Row(u, m) \notin offline /\ ~InBatch(Row(u, m))
          /\ \A n \in Nodes : ~InChannel(n, Row(u, m))
      BY <1>3, <1>6, <1>7, <2>4, NothingYet
    <3>4. ~Routable(u, m)'
      <4>1. ~Routing(r, u)' /\ Admitted(r)
        BY <1>3 DEF Routing, Admitted, Working
      <4> QED
        BY <1>0, <1>1, <1>3, <1>6, <1>7, <2>4, <4>1, Settles
    <3>5. Spent(l, m)'
      <4>1. NodeOf[login[l].conn] \in Nodes /\ login' = login
        BY <1>0, <1>5, ClusterAssumption DEF ClusterAssumption
      <4>2. ~InChannel(NodeOf[login[l].conn], Row(u, m))' /\ Row(u, m) \notin offline'
            /\ Row(u, m) \notin login'[l].batch
        BY <1>0, <3>3, <4>1 DEF InChannel, InBatch
      <4>3. u \in Receivers(m) /\ Row(u, m).to = u
        BY <1>4, <1>6, <2>4 DEF Row
      <4> QED
        BY <1>5, <3>4, <4>1, <4>2, <4>3 DEF Spent
    <3>6. l \in SpentOn(c, m)'
      BY <1>0, <1>5, <2>4, <3>5 DEF SpentOn
    <3> QED
      BY <2>1, <2>2, <3>2, <3>3, <3>6 DEF Total
  <2>5. CASE ~(m = mm /\ c = d)
    <3>1. c # d => hits = {}
      OBVIOUS
    <3> HIDE DEF hits
    <3>a. c # d => Cardinality(hits) = 0
      BY <3>1, FS_EmptySet
    <3>2. recv'[c][m] = recv[c][m]
      BY <2>1, <2>3, <2>5, <3>a
    <3> QED
      BY <2>1, <2>2, <3>2 DEF Total
  <2> QED
    BY <2>4, <2>5
<1> QED
  BY <1>1, <1>2, <1>7, FlowKeeps

(* The frames for the members found here are as many as they have logins.  *)
LEMMA OnceClassify ==
  ASSUME CoreInv, TypeInv', NEW r \in Requests, GroupChatClassify(r)
  PROVE  OnceInv'
<1> USE DEF CoreInv, OnceInv
<1>0. Steps(r) /\ UNCHANGED <<channel, offline, forward, dedup, login, recv>>
  BY DEF Steps, RequestStep, GroupChatClassify, redisVars, subVars, dbVars
<1>1. /\ RouteInv' /\ MapInv' /\ FrameInv' /\ BatchInv'
      /\ IsFiniteSet(Started) /\ IsFiniteSet(Started)'
      /\ \A q \in Requests \ {r} : req'[q] = req[q]
  BY <1>0, RequestFrame
<1>2. Flow({}, {}) /\ ChannelOnce'
  BY <1>0, QuietFlow
<1>r. req \in [Requests -> ReqRec] /\ req[r] \in ReqRec
  BY DEF TypeInv, TypeOK, ReqRec
<1>3. /\ req[r].pc = "classify" /\ req'[r].pc \in {"ack", "local"} /\ req'[r].msg = req[r].msg
      /\ req[r].local = {} /\ req[r].todo = {} /\ req[r].msg \in Msgs /\ ReqNode(r) \in Nodes
  BY <1>r, ClusterAssumption
     DEF GroupChatClassify, ReqAt, ReqRec, RouteInv, TypeInv, ReqBound, ReqNode, ClusterAssumption
<1>4. PICK mm \in Msgs : mm = req[r].msg
  BY <1>3
<1>5. ASSUME NEW t \in req'[r].local
      PROVE  /\ t[1] \in Users /\ t[1] \in Receivers(mm) /\ Reachable(ReqNode(r), t[1])
             /\ t = <<t[1], userConnMap[ReqNode(r)][t[1]]>> /\ t[1] \notin req'[r].todo
  BY <1>r, <1>3, <1>4, <1>5, MsgType DEF GroupChatClassify, ReqRec
<1>6. ASSUME NEW c \in Conns, NEW m \in Msgs, m.id # 0
      PROVE  \/ Total(c, m)' <= Total(c, m)
             \/ Total(c, m)' <= Cardinality(SpentOn(c, m))'
  <2>1. /\ Cardinality(PendingOn(c, m)) \in Nat /\ recv[c][m] \in Nat /\ Sending(c, m) \in {0, 1}
        /\ Cardinality(PendingOn(c, m)') \in Nat /\ Sending(c, m)' \in {0, 1}
        /\ Total(c, m)' = recv'[c][m] + Sending(c, m)' + Cardinality(PendingOn(c, m)')
        /\ IsFiniteSet(SpentOn(c, m)') /\ Cardinality(SpentOn(c, m)') \in Nat
    BY <1>1, CountType, CountTypeNext
  <2>2. Sending(c, m)' = Sending(c, m) /\ recv'[c][m] = recv[c][m]
    BY <1>0 DEF Sending
  <2>3. CASE m # mm
    <3>1. PendingOn(c, m)' = PendingOn(c, m)
      BY <1>0, <1>3, <1>4, <2>3, OtherPending
    <3> QED
      BY <2>1, <2>2, <3>1 DEF Total
  <2>4. CASE m = mm
    <3>1. /\ recv[c][m] = 0 /\ Sending(c, m) = 0
          /\ \A u \in Users : Row(u, m) \notin offline /\ ~InBatch(Row(u, m))
                             /\ \A n \in Nodes : ~InChannel(n, Row(u, m))
      BY <1>3, <1>4, <1>6, <2>4, NothingYet
    <3> DEFINE P == PendingOn(c, m)'
    <3>2. ASSUME NEW t \in P
          PROVE  t \in req'[r].local /\ t[2] = c
      <4>1. PICK q \in Requests : req'[q].msg = m /\ t \in req'[q].local
        BY DEF PendingOn
      <4>2. q = r
        <5>1. CASE q # r
          <6>1. req[q].msg = m /\ req[q].local # {}
            BY <1>1, <4>1, <5>1
          <6>2. Admitted(q) /\ Admitted(r) /\ KeyOf(q) = KeyOf(r) /\ req[q].msg.id # 0
            BY <1>3, <1>4, <1>6, <2>4, <6>1 DEF RouteInv, Admitted, Working, KeyOf
          <6> QED
            BY <6>2 DEF AnswerInv, GateInv
        <5> QED
          BY <5>1
      <4> QED
        BY <4>1, <4>2 DEF PendingOn
    <3>3. ASSUME NEW t \in P
          PROVE  \E l \in SpentOn(c, m)' : login[l].user = t[1]
      <4>1. /\ t[1] \in Users /\ t[1] \in Receivers(m) /\ Reachable(ReqNode(r), t[1])
            /\ t = <<t[1], c>> /\ t[1] \notin req'[r].todo /\ userConnMap[ReqNode(r)][t[1]] = c
        BY <1>5, <2>4, <3>2
      <4>2. PICK l \in Logins : login[l].conn = c /\ login[l].user = t[1]
        BY <1>3, <4>1 DEF Reachable, MapInv
      <4>3. PICK u \in Users : u = t[1]
        BY <4>1
      <4>4. ~Routable(u, m)'
        <5>1. ~Routing(r, u)' /\ Admitted(r)
          BY <1>3, <4>1, <4>3 DEF Routing, Admitted, Working
        <5> QED
          BY <1>0, <1>1, <1>3, <1>4, <1>6, <2>4, <5>1, Settles
      <4>5. Spent(l, m)'
        <5>1. NodeOf[login[l].conn] \in Nodes /\ login' = login
          BY <1>0, <4>2, ClusterAssumption DEF ClusterAssumption
        <5>2. ~InChannel(NodeOf[login[l].conn], Row(u, m))' /\ Row(u, m) \notin offline'
              /\ Row(u, m) \notin login'[l].batch
          BY <1>0, <3>1, <5>1 DEF InChannel, InBatch
        <5>3. u \in Receivers(m) /\ Row(u, m).to = u
          BY <4>1, <4>3 DEF Row
        <5> QED
          BY <4>2, <4>3, <4>4, <5>1, <5>2, <5>3 DEF Spent
      <4>6. l \in SpentOn(c, m)'
        BY <1>0, <4>2, <4>5 DEF SpentOn
      <4> QED
        BY <4>2, <4>6
    <3>4. Cardinality(P) <= Cardinality(SpentOn(c, m)')
      <4> DEFINE S == SpentOn(c, m)'
                 f == [t \in P |-> CHOOSE l \in S : login[l].user = t[1]]
      <4>1. \A t \in P : f[t] \in S /\ login[f[t]].user = t[1] /\ t = <<t[1], c>>
        <5>1. \A t \in P : \E l \in S : login[l].user = t[1]
          BY <3>3
        <5>2. \A t \in P : t = <<t[1], c>>
          BY DEF PendingOn
        <5> HIDE DEF S, P
        <5> QED
          BY <5>1, <5>2
      <4> HIDE DEF S, P
      <4>2. f \in Injection(P, S)
        <5>1. f \in [P -> S]
          BY <4>1
        <5>2. ASSUME NEW t1 \in P, NEW t2 \in P, f[t1] = f[t2]
              PROVE  t1 = t2
          <6>1. t1[1] = t2[1] /\ t1 = <<t1[1], c>> /\ t2 = <<t2[1], c>>
            BY <4>1, <5>2
          <6> QED
            BY <6>1
        <5> HIDE DEF f
        <5> QED
          BY <5>1, <5>2 DEF Injection, IsInjective
      <4> HIDE DEF f
      <4>3. IsFiniteSet(S)
        BY <2>1 DEF S
      <4>4. Cardinality(P) <= Cardinality(S)
        BY <4>2, <4>3, FS_Injection
      <4> QED
        BY <4>4 DEF S
    <3>5. Total(c, m)' = Cardinality(P)
      BY <2>1, <2>2, <3>1
    <3> QED
      BY <2>1, <3>4, <3>5
  <2> QED
    BY <2>3, <2>4
<1> QED
  BY <1>1, <1>2, <1>6, FlowKeeps

(* The frames for the members found here are sent, and none is left.       *)
LEMMA OnceSendLocal ==
  ASSUME CoreInv, TypeInv', NEW r \in Requests, GroupChatSendLocal(r)
  PROVE  OnceInv'
<1> USE DEF CoreInv, OnceInv
<1>0. Steps(r) /\ UNCHANGED <<channel, offline, forward, dedup, login>>
  BY DEF Steps, RequestStep, GroupChatSendLocal, redisVars, subVars, dbVars
<1>1. /\ RouteInv' /\ MapInv' /\ FrameInv' /\ BatchInv'
      /\ IsFiniteSet(Started) /\ IsFiniteSet(Started)'
      /\ \A q \in Requests \ {r} : req'[q] = req[q]
  BY <1>0, RequestFrame
<1>2. Flow({}, {}) /\ ChannelOnce'
  BY <1>0, QuietFlow
<1>3. /\ req[r].pc = "local" /\ req'[r].pc \in {"ack", "route"} /\ req'[r].msg = req[r].msg
      /\ req'[r].local = {} /\ req[r].local \in SUBSET (Users \X Conns)
      /\ SendFrames(req[r].local, req[r].msg) /\ req[r].msg \in Msgs
  <2>1. req \in [Requests -> ReqRec] /\ req[r] \in ReqRec
    BY DEF TypeInv, TypeOK, ReqRec
  <2> QED
    BY <2>1 DEF GroupChatSendLocal, ReqAt, ReqRec, TypeInv, ReqBound
<1>4. PICK mm \in Msgs, loc \in SUBSET (Users \X Conns) : mm = req[r].msg /\ loc = req[r].local
  BY <1>3
<1>5. ASSUME NEW c \in Conns, NEW m \in Msgs, m.id # 0
      PROVE  Total(c, m)' <= Total(c, m)
  <2>1. /\ Cardinality(PendingOn(c, m)) \in Nat /\ recv[c][m] \in Nat /\ Sending(c, m) \in {0, 1}
        /\ Cardinality(PendingOn(c, m)') \in Nat /\ Sending(c, m)' \in {0, 1} /\ recv'[c][m] \in Nat
        /\ Total(c, m)' = recv'[c][m] + Sending(c, m)' + Cardinality(PendingOn(c, m)')
    BY <1>1, CountType, CountTypeNext
  <2>2. Sending(c, m)' = Sending(c, m)
    BY <1>0 DEF Sending
  <2> DEFINE hits == {t \in loc : t[2] = c}
  <2>3. recv'[c][m] = IF m = mm /\ Connected(c) THEN recv[c][m] + Cardinality(hits)
                                                ELSE recv[c][m]
    BY <1>3, <1>4 DEF SendFrames
  <2>4. CASE m # mm
    <3>1. PendingOn(c, m)' = PendingOn(c, m)
      BY <1>0, <1>3, <1>4, <2>4, OtherPending
    <3> HIDE DEF hits
    <3>2. recv'[c][m] = recv[c][m]
      BY <2>3, <2>4
    <3> QED
      BY <2>1, <2>2, <3>1, <3>2 DEF Total
  <2>5. CASE m = mm
    <3>1. PendingOn(c, m) = hits
      <4>1. Admitted(r)
        BY <1>3 DEF Admitted, Working
      <4>2. PendingOn(c, req[r].msg) = {t \in Users \X Conns : t[2] = c /\ t \in req[r].local}
        BY <1>4, <1>5, <2>5, <4>1, OwnPending
      <4> QED
        BY <1>4, <2>5, <4>2
    <3>2. PendingOn(c, m)' = {}
      <4> SUFFICES ASSUME NEW q \in Requests, req'[q].msg = m, req'[q].local # {}
                   PROVE  FALSE
        BY DEF PendingOn
      <4>1. q # r
        BY <1>3
      <4>2. req[q].msg = m /\ req[q].local # {}
        BY <1>1, <4>1
      <4>3. Admitted(q) /\ Admitted(r) /\ KeyOf(q) = KeyOf(r) /\ req[q].msg.id # 0
        BY <1>3, <1>4, <1>5, <2>5, <4>2 DEF RouteInv, Admitted, Working, KeyOf
      <4> QED
        BY <4>1, <4>3 DEF AnswerInv, GateInv
    <3>3. Cardinality(PendingOn(c, m)') = 0
      BY <3>2, FS_EmptySet
    <3> HIDE DEF hits
    <3>4. Cardinality(PendingOn(c, m)) = Cardinality(hits)
      BY <3>1
    <3>5. recv'[c][m] <= recv[c][m] + Cardinality(hits)
      BY <2>1, <2>3, <3>4
    <3> QED
      BY <2>1, <2>2, <3>3, <3>4, <3>5 DEF Total
  <2> QED
    BY <2>4, <2>5
<1> QED
  BY <1>1, <1>2, <1>5, FlowKeeps

(* The row that a published or stored message is.                          *)
LEMMA RoutedRow ==
  ASSUME CoreInv, NEW r \in Requests, Steps(r), NEW way, Routed(r, way),
         req[r].pc \in {"publish", "store"}, UNCHANGED dedup
  PROVE  \E x \in Rows :
           /\ x = [to |-> req[r].cur, msg |-> req[r].msg] /\ x.to \in Receivers(x.msg)
           /\ x.msg.id # 0 => Routable(x.to, x.msg) /\ ~Routable(x.to, x.msg)'
           /\ req'[r].msg = req[r].msg /\ req'[r].local = {}
<1> USE DEF CoreInv, OnceInv
<1>1. req \in [Requests -> ReqRec] /\ req[r] \in ReqRec
  BY DEF TypeInv, TypeOK, ReqRec
<1>2. /\ req[r].cur \in Users /\ req[r].msg \in Msgs /\ req[r].cur \in Receivers(req[r].msg)
      /\ req[r].cur \notin req[r].todo /\ req[r].local = {}
  BY DEF TypeInv, ReqBound, RouteInv
<1>3. /\ req'[r].msg = req[r].msg /\ req'[r].todo = req[r].todo /\ req'[r].local = {}
      /\ req'[r].pc \in {"ack", "route"}
  BY <1>1, <1>2 DEF Routed, ReqRec
<1>4. PICK u \in Users, m \in Msgs : u = req[r].cur /\ m = req[r].msg
  BY <1>2
<1>5. Routing(r, u) /\ ~Routing(r, u)' /\ Admitted(r)
  BY <1>2, <1>3, <1>4 DEF Routing, Admitted, Working
<1>6. Routable(u, m)
  BY <1>4, <1>5 DEF Routable
<1>7. m.id # 0 => ~Routable(u, m)'
  <2>1. \A q \in Requests \ {r} : req'[q] = req[q]
    BY RequestFrame
  <2> QED
    BY <1>3, <1>4, <1>5, <2>1, Settles
<1>8. [to |-> u, msg |-> m] \in Rows
  BY DEF Rows
<1>9. PICK x \in Rows : x = [to |-> u, msg |-> m] /\ x.to = u /\ x.msg = m
  BY <1>8
<1> QED
  BY <1>2, <1>3, <1>4, <1>6, <1>7, <1>9

LEMMA RoutedTotal ==
  ASSUME CoreInv, TypeInv', NEW r \in Requests, Steps(r), UNCHANGED <<recv, forward>>,
         req'[r].local = {}, NEW c \in Conns, NEW m \in Msgs
  PROVE  Total(c, m)' <= Total(c, m)
<1>1. /\ IsFiniteSet(Started) /\ IsFiniteSet(Started)'
      /\ \A q \in Requests \ {r} : req'[q] = req[q]
  BY RequestFrame
<1>2. \A q \in Requests : req'[q].local # {} =>
        req'[q].msg = req[q].msg /\ req'[q].local \subseteq req[q].local
  BY <1>1
<1> QED
  BY <1>1, <1>2, TotalKeeps DEF CoreInv

LEMMA OncePublish ==
  ASSUME CoreInv, TypeInv', NEW r \in Requests, Publish(r)
  PROVE  OnceInv'
<1> USE DEF CoreInv, OnceInv
<1>0. /\ Steps(r) /\ UNCHANGED <<offline, forward, dedup, login, recv>>
      /\ req[r].pc = "publish" /\ Routed(r, "forwarded")
      /\ channel \in [Nodes -> Seq(Rows)]
  BY DEF Steps, RequestStep, Publish, ReqAt, redisVars, dbVars, TypeInv, TypeOK
<1>1. /\ RouteInv' /\ MapInv' /\ FrameInv' /\ BatchInv'
      /\ IsFiniteSet(Started) /\ IsFiniteSet(Started)'
  BY <1>0, RequestFrame
<1>2. PICK x \in Rows :
           /\ x = [to |-> req[r].cur, msg |-> req[r].msg] /\ x.to \in Receivers(x.msg)
           /\ x.msg.id # 0 => Routable(x.to, x.msg) /\ ~Routable(x.to, x.msg)'
           /\ req'[r].msg = req[r].msg /\ req'[r].local = {}
  BY <1>0, RoutedRow
<1>3. \A n \in Nodes : channel'[n] = channel[n] \/ channel'[n] = Append(channel[n], x)
  BY <1>2 DEF Publish
<1>4. ASSUME NEW n \in Nodes, NEW i \in DOMAIN channel'[n]
      PROVE  \/ i \in DOMAIN channel[n] /\ channel'[n][i] = channel[n][i]
             \/ i = Len(channel[n]) + 1 /\ channel'[n][i] = x
  <2>1. channel[n] \in Seq(Rows)
    BY <1>0
  <2>2. CASE channel'[n] = channel[n]
    BY <1>4, <2>2
  <2>3. CASE channel'[n] = Append(channel[n], x)
    <3>1. DOMAIN channel'[n] = 1 .. (Len(channel[n]) + 1) /\ DOMAIN channel[n] = 1 .. Len(channel[n])
      BY <2>1, <2>3
    <3> QED
      BY <1>4, <2>1, <2>3, <3>1
  <2> QED
    BY <1>3, <2>2, <2>3
<1>5. Flow({x}, {})
  <2>1. \A u \in Users, m \in Msgs : m.id # 0 /\ Routable(u, m)' => Routable(u, m)
    BY <1>0, NoRevival
  <2>2. \A n \in Nodes, y \in Rows : InChannel(n, y)' => InChannel(n, y) \/ y \in {x}
    BY <1>4 DEF InChannel
  <2> QED
    BY <1>0, <1>2, <2>1, <2>2 DEF Flow
<1>6. ChannelOnce'
  <2> SUFFICES ASSUME NEW n \in Nodes, NEW i \in DOMAIN channel'[n], NEW j \in DOMAIN channel'[n],
                      channel'[n][i] = channel'[n][j], channel'[n][i].msg.id # 0
               PROVE  i = j
    BY DEF ChannelOnce
  <2>1. CASE x.msg.id = 0
    <3>1. i \in DOMAIN channel[n] /\ j \in DOMAIN channel[n]
          /\ channel'[n][i] = channel[n][i] /\ channel'[n][j] = channel[n][j]
      BY <1>4, <2>1
    <3> QED
      BY <3>1 DEF WayInv
  <2>2. CASE x.msg.id # 0
    <3>1. \A k \in DOMAIN channel[n] : channel[n][k] # x
      BY <1>2, <2>2 DEF WayInv, InChannel
    <3> QED
      BY <1>4, <3>1 DEF WayInv
  <2> QED
    BY <2>1, <2>2
<1>7. \A c \in Conns, m \in Msgs : Total(c, m)' <= Total(c, m)
  BY <1>0, <1>2, RoutedTotal
<1> QED
  BY <1>1, <1>5, <1>6, <1>7, FlowKeeps

LEMMA OnceStore ==
  ASSUME CoreInv, TypeInv', NEW r \in Requests, StoreOffline(r)
  PROVE  OnceInv'
<1> USE DEF CoreInv, OnceInv
<1>0. /\ Steps(r) /\ UNCHANGED <<channel, forward, dedup, login, recv>>
      /\ req[r].pc = "store" /\ Routed(r, "stored")
  BY DEF Steps, RequestStep, StoreOffline, ReqAt, redisVars, subVars
<1>1. /\ RouteInv' /\ MapInv' /\ FrameInv' /\ BatchInv'
      /\ IsFiniteSet(Started) /\ IsFiniteSet(Started)'
  BY <1>0, RequestFrame
<1>2. PICK x \in Rows :
           /\ x = [to |-> req[r].cur, msg |-> req[r].msg] /\ x.to \in Receivers(x.msg)
           /\ x.msg.id # 0 => Routable(x.to, x.msg) /\ ~Routable(x.to, x.msg)'
           /\ req'[r].msg = req[r].msg /\ req'[r].local = {}
  BY <1>0, RoutedRow
<1>3. offline' \subseteq offline \cup {x}
  BY <1>2 DEF StoreOffline
<1>4. Flow({}, {x})
  <2>1. \A u \in Users, m \in Msgs : m.id # 0 /\ Routable(u, m)' => Routable(u, m)
    BY <1>0, NoRevival
  <2>2. \A n \in Nodes, y \in Rows : InChannel(n, y)' => InChannel(n, y)
    BY <1>0 DEF InChannel
  <2> QED
    BY <1>0, <1>2, <1>3, <2>1, <2>2 DEF Flow
<1>5. ChannelOnce'
  BY <1>0 DEF ChannelOnce, WayInv
<1>6. \A c \in Conns, m \in Msgs : Total(c, m)' <= Total(c, m)
  BY <1>0, <1>2, RoutedTotal
<1> QED
  BY <1>1, <1>4, <1>5, <1>6, FlowKeeps

LEMMA OnceInit == Init => OnceInv
<1> SUFFICES ASSUME Init
             PROVE  OnceInv
  OBVIOUS
<1>1. RouteInv
  BY DEF Init, RouteInv, NoReq
<1>2. MapInv /\ FrameInv /\ BatchInv
  BY DEF Init, MapInv, FrameInv, BatchInv, NoLogin
<1>3. WayInv
  <2>1. \A n \in Nodes : DOMAIN channel[n] = {}
    BY DEF Init
  <2>2. \A x : ~InBatch(x)
    BY DEF Init, InBatch, NoLogin
  <2>3. offline = {}
    BY DEF Init
  <2> QED
    BY <2>1, <2>2, <2>3 DEF WayInv, InChannel
<1>4. Started = {}
  BY DEF Init, Started, NoLogin
<1>5. ASSUME NEW c \in Conns, NEW m \in Msgs
      PROVE  Total(c, m) <= Cardinality(SpentOn(c, m))
  <2>1. TypeInv /\ IsFiniteSet(Started)
    BY <1>4, TypeInit, FS_EmptySet
  <2>2. Cardinality(SpentOn(c, m)) \in Nat
    BY <2>1, CountType
  <2>3. PendingOn(c, m) = {}
    BY DEF Init, PendingOn, NoReq
  <2>4. Sending(c, m) = 0
    <3>1. NodeOf[c] \in Nodes
      BY ClusterAssumption DEF ClusterAssumption
    <3>2. NoFrame # [conn |-> c, msg |-> m]
      BY ClusterAssumption DEF ClusterAssumption, NoFrame
    <3> QED
      BY <3>1, <3>2 DEF Init, Sending
  <2>5. recv[c][m] = 0
    BY DEF Init
  <2> QED
    BY <2>2, <2>3, <2>4, <2>5, FS_EmptySet DEF Total
<1>6. CountInv
  BY <1>4, <1>5, FS_EmptySet DEF CountInv
<1> QED
  BY <1>1, <1>2, <1>3, <1>6 DEF OnceInv

LEMMA OnceStep == CoreInv /\ TypeInv' /\ [Next]_vars => OnceInv'
<1> SUFFICES ASSUME CoreInv, TypeInv', [Next]_vars
             PROVE  OnceInv'
  OBVIOUS
<1>1. CASE Server
  <2>1. ASSUME NEW l \in Logins, LoginStep(l)
        PROVE  OnceInv'
    BY <2>1, OnceLogin, OnceDeliver DEF LoginStep
  <2>2. ASSUME NEW c \in Conns, LeaveStep(c)
        PROVE  OnceInv'
    BY <2>2, OnceClient
  <2>3. ASSUME NEW r \in Requests, RequestStep(r)
        PROVE  OnceInv'
    BY <2>3, OnceQuiet, OnceLocal, OnceClassify, OnceSendLocal, OncePublish, OnceStore
       DEF RequestStep
  <2>4. ASSUME NEW n \in Nodes, SubStep(n)
        PROVE  OnceInv'
    BY <2>4, OnceLookup, OnceSend DEF SubStep
  <2> QED
    BY <1>1, <2>1, <2>2, <2>3, <2>4 DEF Server
<1>2. CASE Client
  <2>1. /\ \A c \in Conns : Accounts[c] \subseteq Users
        /\ \A u \in Users : Watermarks(u) \subseteq Nat
    BY MsgType, ClusterAssumption DEF ClusterAssumption, Watermarks
  <2>2. PICK c \in Conns :
          \/ Accept(c) \/ ClientClose(c) \/ BadFrame(c) \/ ClosedAfterShutdown(c)
          \/ \E u \in Accounts[c] : LogoutErase(c, u)
          \/ \E l \in Logins, u \in Accounts[c] : \E k \in Watermarks(u) : LoginState(l, c, u, k)
          \/ \E r \in Requests, m \in Msgs : Receive(r, c, m)
    BY <1>2 DEF Client
  <2>3. CASE \/ Accept(c) \/ ClientClose(c) \/ BadFrame(c) \/ ClosedAfterShutdown(c)
             \/ \E u \in Accounts[c] : LogoutErase(c, u)
    BY <2>3, OnceClient
  <2>4. CASE \E l \in Logins, u \in Accounts[c] : \E k \in Watermarks(u) : LoginState(l, c, u, k)
    <3>1. PICK l \in Logins, u \in Accounts[c] : \E k \in Watermarks(u) : LoginState(l, c, u, k)
      BY <2>4
    <3>2. u \in Users
      BY <2>1
    <3>3. PICK k \in Watermarks(u) : LoginState(l, c, u, k)
      BY <3>1
    <3>4. k \in Nat
      BY <2>1, <3>2
    <3> QED
      BY <3>2, <3>3, <3>4, OnceLogin
  <2>5. CASE \E r \in Requests, m \in Msgs : Receive(r, c, m)
    BY <2>5, OnceQuiet
  <2> QED
    BY <2>2, <2>3, <2>4, <2>5
<1>3. CASE Fault
  <2>1. ASSUME NEW n \in Nodes, CommandLinkLost(n)
        PROVE  OnceInv'
    BY <2>1, OnceConn DEF CommandLinkLost, nodeVars, redisVars, subVars, dbVars
  <2> QED
    BY <1>3, <2>1, OnceSubscriberLost, OnceRestart, OnceQuiet DEF Fault
<1>4. CASE UNCHANGED vars
  BY <1>4, OnceConn DEF vars, nodeVars, redisVars, subVars, dbVars
<1> QED
  BY <1>1, <1>2, <1>3, <1>4 DEF Next

LEMMA CoreInvariant == Spec => []CoreInv
<1>1. Init => CoreInv
  BY TypeInit, AnswerInit, OnceInit DEF CoreInv
<1>2. CoreInv /\ [Next]_vars => CoreInv'
  BY TypeStep, AnswerStep, OnceStep DEF CoreInv
<1> QED
  BY <1>1, <1>2, PTL DEF Spec

(* Over all ways of delivery, crashes and restarts, lost Redis links and   *)
(* retransmissions included, a connection gets a message with an id at     *)
(* most once per login made on it for a recipient (chatservice.cpp:284).    *)
THEOREM NoDuplicateDeliveryHolds == Spec => []NoDuplicateDelivery
<1>1. CoreInv => NoDuplicateDelivery
  <2> SUFFICES ASSUME CoreInv, NEW c \in Conns, NEW m \in Msgs, m.id # 0
               PROVE  recv[c][m] <= Cardinality({l \in Logins :
                        /\ login[l].conn = c /\ login[l].user \in Receivers(m)})
    BY DEF NoDuplicateDelivery
  <2> DEFINE T == {l \in Logins : login[l].conn = c /\ login[l].user \in Receivers(m)}
  <2>1. TypeInv /\ IsFiniteSet(Started)
    BY DEF CoreInv, OnceInv, CountInv
  <2>2. /\ Total(c, m) <= Cardinality(SpentOn(c, m)) /\ Total(c, m) \in Nat
        /\ recv[c][m] \in Nat /\ Sending(c, m) \in {0, 1} /\ Cardinality(PendingOn(c, m)) \in Nat
        /\ Cardinality(SpentOn(c, m)) \in Nat
    BY <2>1, CountType DEF CoreInv, OnceInv, CountInv
  <2>3. T \subseteq Started
    BY <2>1, ClusterAssumption DEF Started, TypeInv, LoginBound, ClusterAssumption
  <2>4. IsFiniteSet(T) /\ Cardinality(T) \in Nat
    BY <2>1, <2>3, FS_Subset, FS_CardinalityType
  <2>5. SpentOn(c, m) \subseteq T
    BY DEF SpentOn, Spent, Row
  <2>6. Cardinality(SpentOn(c, m)) <= Cardinality(T)
    BY <2>4, <2>5, FS_Subset
  <2> HIDE DEF T
  <2>7. recv[c][m] <= Cardinality(T)
    BY <2>2, <2>4, <2>6 DEF Total
  <2> QED
    BY <2>7 DEF T
<1> QED
  BY <1>1, CoreInvariant, PTL

-----------------------------------------------------------------------------
(* The records of presence                                                *)

(* Users whose connections all come to one node, one user per connection.  *)
Pinned == \A c, d \in Conns : Accounts[c] \cap Accounts[d] # {} => NodeOf[c] = NodeOf[d]
OneAccount == \A c \in Conns : \A u, w \in Accounts[c] : u = w

(* The I/O thread of its node belongs to a handler until it is through.    *)
LoggingIn(l) == login[l].pc \in {"map", "sadd"}
AtGate(q) == req[q].pc \in {"dedup", "cached", "lookup"}
HandlerInv ==
  /\ \A l \in Logins : LoggingIn(l) => io[NodeOf[login[l].conn]] = l
  /\ \A c \in Conns : leave[c].pc # "idle" => io[NodeOf[c]] = c
  /\ \A q \in Requests : AtGate(q) => io[NodeOf[req[q].conn]] = q

(* Map entries and handlers name users of their own connection, and an     *)
(* entry is on the node of its connection.                                 *)
HomeInv ==
  /\ \A n \in Nodes, u \in Users : userConnMap[n][u] # None =>
       NodeOf[userConnMap[n][u]] = n /\ u \in Accounts[userConnMap[n][u]]
  /\ \A l \in Logins : login[l].pc # "free" => login[l].user \in Accounts[login[l].conn]
  /\ \A c \in Conns : leave[c].pc \in {"state", "srem"} => leave[c].user \in Accounts[c]

(* The three records of presence agree but for the handler under way.      *)
Entering(u, pc) == \E l \in Logins : login[l].pc = pc /\ login[l].user = u
Leaving(u, pc) == \E c \in Conns : leave[c].pc = pc /\ leave[c].user = u
Somewhere(u) == \E n \in Nodes : userConnMap[n][u] # None
AgreeAt(u) ==
  /\ Entering(u, "map") \/ Leaving(u, "state") \/ ((userState[u] = "online") <=> Somewhere(u))
  /\ Entering(u, "sadd") \/ Leaving(u, "state") \/ Leaving(u, "srem") \/ (u \in online <=> Somewhere(u))
  /\ Entering(u, "map") => userState[u] = "online"
  /\ Entering(u, "sadd") => Somewhere(u)
  /\ Leaving(u, "state") \/ Leaving(u, "srem") => ~Somewhere(u)
  /\ Leaving(u, "srem") => userState[u] = "offline"
AgreeInv == \A u \in Users : AgreeAt(u)

(* A map entry whose connection is closed is about to be erased, unless a  *)
(* frame with an invalid length shut the connection down.                  *)
OpenInv ==
  /\ \A c \in Conns : conn[c] = "closing" => badFrames > 0
  /\ \A l \in Logins : login[l].pc = "map" => conn[login[l].conn] = "up"
  /\ \A n \in Nodes, u \in Users :
       userConnMap[n][u] # None /\ conn[userConnMap[n][u]] = "down" =>
         badFrames > 0 \/ leave[userConnMap[n][u]].pc = "scan"

LinksUp == \A n \in Nodes : cmdUp[n]
PresInv == LinksUp /\ HandlerInv /\ HomeInv /\ AgreeInv /\ OpenInv

(* A handler that takes or leaves an I/O thread that is free or its own    *)
(* keeps the other handlers' threads.                                      *)
LEMMA HandlerKeeps ==
  ASSUME TypeInv, HandlerInv, NEW h,
         \/ UNCHANGED io
         \/ \E n \in Nodes : /\ io[n] \in {None, h}
                             /\ \A k \in Nodes \ {n} : io'[k] = io[k],
         \A l \in Logins : l # h =>
           (LoggingIn(l)' => LoggingIn(l) /\ login'[l].conn = login[l].conn),
         \A c \in Conns : c # h => (leave'[c].pc # "idle" => leave[c].pc # "idle"),
         \A q \in Requests : q # h =>
           (AtGate(q)' => AtGate(q) /\ req'[q].conn = req[q].conn),
         h \in Logins => (LoggingIn(h)' => io'[NodeOf[login'[h].conn]] = h),
         h \in Conns => (leave'[h].pc # "idle" => io'[NodeOf[h]] = h),
         h \in Requests => (AtGate(h)' => io'[NodeOf[req'[h].conn]] = h)
  PROVE  HandlerInv'
<1>1. ASSUME NEW x, NEW c \in Conns, x # h, x # None, io[NodeOf[c]] = x
      PROVE  io'[NodeOf[c]] = x
  BY <1>1, ClusterAssumption DEF ClusterAssumption
<1>2. \A l \in Logins : LoggingIn(l)' => io'[NodeOf[login'[l].conn]] = l
  <2> SUFFICES ASSUME NEW l \in Logins, LoggingIn(l)', l # h
               PROVE  io'[NodeOf[login'[l].conn]] = l
    OBVIOUS
  <2>1. LoggingIn(l) /\ login'[l].conn = login[l].conn
    OBVIOUS
  <2>2. login[l].conn \in Conns
    BY <2>1 DEF TypeInv, LoginBound, LoggingIn
  <2>3. io[NodeOf[login[l].conn]] = l /\ l # None
    BY <2>1, ClusterAssumption DEF HandlerInv, ClusterAssumption
  <2> QED
    BY <1>1, <2>1, <2>2, <2>3
<1>3. \A c \in Conns : leave'[c].pc # "idle" => io'[NodeOf[c]] = c
  <2> SUFFICES ASSUME NEW c \in Conns, leave'[c].pc # "idle", c # h
               PROVE  io'[NodeOf[c]] = c
    OBVIOUS
  <2>1. io[NodeOf[c]] = c /\ c # None
    BY ClusterAssumption DEF HandlerInv, ClusterAssumption
  <2> QED
    BY <1>1, <2>1
<1>4. \A q \in Requests : AtGate(q)' => io'[NodeOf[req'[q].conn]] = q
  <2> SUFFICES ASSUME NEW q \in Requests, AtGate(q)', q # h
               PROVE  io'[NodeOf[req'[q].conn]] = q
    OBVIOUS
  <2>1. AtGate(q) /\ req'[q].conn = req[q].conn
    OBVIOUS
  <2>2. req[q].conn \in Conns
    BY <2>1 DEF TypeInv, ReqBound, AtGate
  <2>3. io[NodeOf[req[q].conn]] = q /\ q # None
    BY <2>1, ClusterAssumption DEF HandlerInv, ClusterAssumption
  <2> QED
    BY <1>1, <2>1, <2>2, <2>3
<1> QED
  BY <1>2, <1>3, <1>4 DEF HandlerInv

(* All handlers for a user run on the one node of its connections, where   *)
(* its map entry is.                                                       *)
LEMMA Handlers ==
  ASSUME TypeInv, HandlerInv, HomeInv, Pinned, NEW c \in Conns, NEW u \in Accounts[c]
  PROVE  /\ \A l \in Logins : LoggingIn(l) /\ login[l].user = u => io[NodeOf[c]] = l
         /\ \A d \in Conns : leave[d].pc \in {"state", "srem"} /\ leave[d].user = u =>
              io[NodeOf[c]] = d
         /\ \A n \in Nodes : userConnMap[n][u] # None => n = NodeOf[c]
<1>0. u \in Users /\ \A d \in Conns : u \in Accounts[d] => NodeOf[d] = NodeOf[c]
  BY ClusterAssumption DEF ClusterAssumption, Pinned
<1>1. ASSUME NEW l \in Logins, LoggingIn(l), login[l].user = u
      PROVE  io[NodeOf[c]] = l
  <2>1. login[l].conn \in Conns
    BY <1>1 DEF TypeInv, LoginBound, LoggingIn
  <2>2. u \in Accounts[login[l].conn]
    BY <1>1 DEF HomeInv, LoggingIn
  <2> QED
    BY <1>0, <1>1, <2>1, <2>2 DEF HandlerInv
<1>2. ASSUME NEW d \in Conns, leave[d].pc \in {"state", "srem"}, leave[d].user = u
      PROVE  io[NodeOf[c]] = d
  BY <1>0, <1>2 DEF HandlerInv, HomeInv
<1>3. ASSUME NEW n \in Nodes, userConnMap[n][u] # None
      PROVE  n = NodeOf[c]
  <2>1. userConnMap[n][u] \in Conns
    BY <1>0, <1>3 DEF TypeInv, TypeOK
  <2> QED
    BY <1>0, <1>3, <2>1 DEF HomeInv
<1> QED
  BY <1>1, <1>2, <1>3

(* The records of presence as a request or a subscriber leaves them.       *)
presence == <<conn, userConnMap, leave, login, online, userState, cmdUp, badFrames>>

LEMMA RequestPresence ==
  ASSUME NEW q \in Requests,
         RequestStep(q) \/ \E c \in Conns, m \in Msgs : Receive(q, c, m)
  PROVE  UNCHANGED presence
<1> USE DEF presence, nodeVars, redisVars, linkVars, subVars, dbVars
<1>1. CASE \E c \in Conns, m \in Msgs : Receive(q, c, m)
  BY <1>1 DEF Receive
<1>2. CASE TryAcquireDedup(q) \/ GetCachedAck(q) \/ OneChatLocal(q) \/ OneChatRemote(q)
  BY <1>2 DEF TryAcquireDedup, GetCachedAck, OneChatLocal, OneChatRemote
<1>3. CASE GroupChatRun(q) \/ GroupChatClassify(q) \/ GroupChatSendLocal(q)
  BY <1>3 DEF GroupChatRun, GroupChatClassify, GroupChatSendLocal
<1>4. CASE \E u \in Users : Route(q, u)
  BY <1>4 DEF Route
<1>5. CASE Publish(q) \/ StoreOffline(q) \/ SendAck(q) \/ CacheAck(q)
  BY <1>5 DEF Publish, StoreOffline, SendAck, CacheAck
<1> QED
  BY <1>1, <1>2, <1>3, <1>4, <1>5 DEF RequestStep

LEMMA HandlerRequest ==
  ASSUME TypeInv, HandlerInv, NEW q \in Requests,
         RequestStep(q) \/ \E c \in Conns, m \in Msgs : Receive(q, c, m)
  PROVE  HandlerInv'
<1>0. /\ UNCHANGED <<login, leave>> /\ q \notin Logins /\ q \notin Conns /\ q # None
      /\ req \in [Requests -> ReqRec] /\ io \in [Nodes -> Requests \cup Logins \cup Conns \cup {None}]
      /\ NodeOf \in [Conns -> Nodes] /\ (req[q].pc # "free" => req[q].conn \in Conns)
  BY RequestPresence, ClusterAssumption DEF presence, ClusterAssumption, TypeInv, TypeOK, ReqRec, ReqBound
<1> DEFINE n == NodeOf[req'[q].conn]
<1>1. /\ \A p \in Requests \ {q} : req'[p] = req[p]
      /\ \/ io' = io
         \/ \E k \in Nodes : io[k] \in {None, q} /\ \A j \in Nodes \ {k} : io'[j] = io[j]
      /\ AtGate(q)' => io'[n] = q
  <2>1. CASE \E c \in Conns, m \in Msgs : Receive(q, c, m)
    <3>1. PICK c \in Conns, m \in Msgs : Receive(q, c, m)
      BY <2>1
    <3>2. /\ io[NodeOf[c]] = None /\ io' = [io EXCEPT ![NodeOf[c]] = q]
          /\ \E x : x.conn = c /\ req' = [req EXCEPT ![q] = x]
      BY <3>1 DEF Receive, Enter, IoTake, IoFree, NoReq
    <3>3. req'[q].conn = c /\ \A p \in Requests \ {q} : req'[p] = req[p]
      BY <1>0, <3>2
    <3> QED
      BY <1>0, <3>2, <3>3
  <2>2. CASE TryAcquireDedup(q)
    BY <1>0, <2>2 DEF TryAcquireDedup, ReqAt, Goto, AtGate, ReqRec, HandlerInv
  <2>3. CASE GetCachedAck(q)
    <3>1. /\ req' = [req EXCEPT ![q].pc = "dup", ![q].ack = Answer(q)]
          /\ io' = [io EXCEPT ![NodeOf[req[q].conn]] = None] /\ req[q].pc = "cached"
      BY <2>3 DEF GetCachedAck, ReqAt, IoRelease
    <3>2. io[NodeOf[req[q].conn]] = q /\ NodeOf[req[q].conn] \in Nodes
      BY <1>0, <3>1 DEF HandlerInv, AtGate
    <3>3. req'[q].pc = "dup" /\ \A p \in Requests \ {q} : req'[p] = req[p]
      BY <1>0, <3>1 DEF ReqRec
    <3> QED
      BY <1>0, <3>1, <3>2, <3>3 DEF AtGate
  <2>4. CASE OneChatLocal(q)
    BY <1>0, <2>4 DEF OneChatLocal, ReqAt, AtGate, ReqRec
  <2>5. CASE OneChatRemote(q)
    <3>1. /\ req' = [req EXCEPT ![q].pc = "route", ![q].todo = req[q].msg.to]
          /\ io' = [io EXCEPT ![NodeOf[req[q].conn]] = None] /\ req[q].pc = "lookup"
      BY <2>5 DEF OneChatRemote, ReqAt, IoRelease
    <3>2. io[NodeOf[req[q].conn]] = q /\ NodeOf[req[q].conn] \in Nodes
      BY <1>0, <3>1 DEF HandlerInv, AtGate
    <3>3. req'[q].pc = "route" /\ \A p \in Requests \ {q} : req'[p] = req[p]
      BY <1>0, <3>1 DEF ReqRec
    <3> QED
      BY <1>0, <3>1, <3>2, <3>3 DEF AtGate
  <2>6. CASE GroupChatRun(q)
    <3>1. /\ req' = [req EXCEPT ![q].pc = "classify"]
          /\ io' = [io EXCEPT ![NodeOf[req[q].conn]] = None] /\ req[q].pc = "lookup"
      BY <2>6 DEF GroupChatRun, ReqAt, IoRelease, Goto
    <3>2. io[NodeOf[req[q].conn]] = q /\ NodeOf[req[q].conn] \in Nodes
      BY <1>0, <3>1 DEF HandlerInv, AtGate
    <3>3. req'[q].pc = "classify" /\ \A p \in Requests \ {q} : req'[p] = req[p]
      BY <1>0, <3>1 DEF ReqRec
    <3> QED
      BY <1>0, <3>1, <3>2, <3>3 DEF AtGate
  <2>7. CASE GroupChatClassify(q)
    <3>1. io' = io /\ \A p \in Requests \ {q} : req'[p] = req[p]
      BY <1>0, <2>7 DEF GroupChatClassify
    <3>2. req[q].msg.to = {} => req'[q].pc = "ack"
      BY <1>0, <2>7 DEF GroupChatClassify, ReqRec
    <3>3. req[q].msg.to # {} => req'[q].pc = "local"
      BY <1>0, <2>7 DEF GroupChatClassify, ReqRec
    <3> QED
      BY <3>1, <3>2, <3>3 DEF AtGate
  <2>8. CASE GroupChatSendLocal(q) \/ Publish(q) \/ StoreOffline(q) \/ SendAck(q)
    <3>1. io' = io /\ \A p \in Requests \ {q} : req'[p] = req[p]
      BY <1>0, <2>8 DEF GroupChatSendLocal, Publish, StoreOffline, SendAck, Routed
    <3>2. CASE GroupChatSendLocal(q)
      BY <1>0, <3>1, <3>2 DEF GroupChatSendLocal, AtGate, ReqRec
    <3>3. CASE Publish(q) \/ StoreOffline(q)
      <4>1. \/ Routed(q, "forwarded") \/ Routed(q, "stored")
        BY <3>3 DEF Publish, StoreOffline
      <4>2. ASSUME NEW way, Routed(q, way)
            PROVE  req'[q].pc \in {"ack", "route"}
        <5> DEFINE res == IF req[q].msg.kind = "private" THEN way ELSE req[q].res
                   pc == IF req[q].todo = {} THEN "ack" ELSE "route"
        <5>1. req' = [req EXCEPT ![q] = [req[q] EXCEPT !.cur = None, !.pc = pc, !.res = res]]
          BY <1>0, <4>2 DEF Routed
        <5>2. pc \in {"ack", "route"}
          OBVIOUS
        <5> HIDE DEF res, pc
        <5> QED
          BY <1>0, <5>1, <5>2 DEF ReqRec
      <4> QED
        BY <3>1, <4>1, <4>2 DEF AtGate
    <3>4. CASE SendAck(q)
      BY <1>0, <3>1, <3>4 DEF SendAck, AtGate, ReqRec
    <3> QED
      BY <2>8, <3>2, <3>3, <3>4
  <2>9. CASE \E u \in Users : Route(q, u)
    BY <1>0, <2>9 DEF Route, AtGate, ReqRec
  <2>10. CASE CacheAck(q)
    BY <1>0, <2>10 DEF CacheAck, ReqAt, Goto, IoRelease, AtGate, ReqRec, ReqNode
  <2> QED
    BY <2>1, <2>2, <2>3, <2>4, <2>5, <2>6, <2>7, <2>8, <2>9, <2>10 DEF RequestStep
<1> HIDE DEF n
<1>2. \A l \in Logins : LoggingIn(l)' => LoggingIn(l) /\ login'[l].conn = login[l].conn
  BY <1>0 DEF LoggingIn
<1>3. \A p \in Requests : p # q => (AtGate(p)' => AtGate(p) /\ req'[p].conn = req[p].conn)
  BY <1>1 DEF AtGate
<1> QED
  BY <1>0, <1>1, <1>2, <1>3, HandlerKeeps DEF n

(* The steps of logins and of the close and logout handlers.               *)
LEMMA HandlerLogin ==
  ASSUME TypeInv, HandlerInv, NEW l \in Logins,
         \/ LoginStep(l)
         \/ \E c \in Conns, u \in Users, k \in Nat : LoginState(l, c, u, k)
  PROVE  HandlerInv'
<1>0. /\ l \notin Requests /\ l \notin Conns /\ l # None
      /\ login \in [Logins -> LoginRec] /\ io \in [Nodes -> Requests \cup Logins \cup Conns \cup {None}]
      /\ NodeOf \in [Conns -> Nodes] /\ (login[l].pc # "free" => login[l].conn \in Conns)
      /\ UNCHANGED <<leave, req>>
  BY ClusterAssumption DEF ClusterAssumption, TypeInv, TypeOK, LoginRec, LoginBound, LoginStep,
     LoginState, LoginMap, LoginSadd, LoginFetch, LoginDeliver, LoginRemove, nodeVars
<1>1. /\ \A k \in Logins \ {l} : login'[k] = login[k]
      /\ \/ io' = io
         \/ \E n \in Nodes : io[n] \in {None, l} /\ \A j \in Nodes \ {n} : io'[j] = io[j]
      /\ LoggingIn(l)' => io'[NodeOf[login'[l].conn]] = l
  <2>1. CASE \E c \in Conns, u \in Users, k \in Nat : LoginState(l, c, u, k)
    <3>1. PICK c \in Conns : io[NodeOf[c]] = None /\ io' = [io EXCEPT ![NodeOf[c]] = l]
                             /\ \E x : x.conn = c /\ login' = [login EXCEPT ![l] = x]
      BY <2>1 DEF LoginState, IoFree, IoTake, NoLogin
    <3>2. login'[l].conn = c /\ \A k \in Logins \ {l} : login'[k] = login[k]
      BY <1>0, <3>1
    <3> QED
      BY <1>0, <3>1, <3>2
  <2>2. CASE LoginMap(l)
    BY <1>0, <2>2 DEF LoginMap, LoggingIn, HandlerInv, LoginRec
  <2>3. CASE LoginSadd(l)
    <3>1. /\ login' = [login EXCEPT ![l].pc = "fetch"] /\ login[l].pc = "sadd"
          /\ io' = [io EXCEPT ![NodeOf[login[l].conn]] = None]
      BY <2>3 DEF LoginSadd, IoRelease
    <3>2. io[NodeOf[login[l].conn]] = l /\ NodeOf[login[l].conn] \in Nodes
      BY <1>0, <3>1 DEF HandlerInv, LoggingIn
    <3>3. login'[l].pc = "fetch" /\ \A k \in Logins \ {l} : login'[k] = login[k]
      BY <1>0, <3>1 DEF LoginRec
    <3> QED
      BY <1>0, <3>1, <3>2, <3>3 DEF LoggingIn
  <2>4. CASE LoginFetch(l)
    <3>1. io' = io /\ \A k \in Logins \ {l} : login'[k] = login[k]
      BY <1>0, <2>4 DEF LoginFetch
    <3>2. login'[l].pc \in {"deliver", "done"}
      BY <1>0, <2>4 DEF LoginFetch, LoginRec
    <3> QED
      BY <3>1, <3>2 DEF LoggingIn
  <2>5. CASE LoginDeliver(l) \/ LoginRemove(l)
    BY <1>0, <2>5 DEF LoginDeliver, LoginRemove, LoggingIn, LoginRec
  <2> QED
    BY <2>1, <2>2, <2>3, <2>4, <2>5 DEF LoginStep
<1>2. \A k \in Logins : k # l => (LoggingIn(k)' => LoggingIn(k) /\ login'[k].conn = login[k].conn)
  BY <1>1 DEF LoggingIn
<1>3. \A q \in Requests : AtGate(q)' => AtGate(q) /\ req'[q].conn = req[q].conn
  BY <1>0 DEF AtGate
<1> QED
  BY <1>0, <1>1, <1>2, <1>3, HandlerKeeps

LEMMA HandlerConn ==
  ASSUME TypeInv, HandlerInv, NEW c \in Conns,
         \/ Accept(c) \/ ClientClose(c) \/ BadFrame(c) \/ ClosedAfterShutdown(c)
         \/ LeaveStep(c) \/ \E u \in Accounts[c] : LogoutErase(c, u)
  PROVE  HandlerInv'
<1>0. /\ c \notin Requests /\ c \notin Logins /\ c # None
      /\ leave \in [Conns -> [pc : LeavePcs, user : Users \cup {None}]]
      /\ io \in [Nodes -> Requests \cup Logins \cup Conns \cup {None}]
      /\ NodeOf \in [Conns -> Nodes]
      /\ UNCHANGED <<login, req>>
  BY ClusterAssumption DEF ClusterAssumption, TypeInv, TypeOK, LeaveStep, Accept, ClientClose,
     BadFrame, ClosedAfterShutdown, CloseScan, LeaveState, LeaveSrem, LogoutErase
<1>1. /\ \A d \in Conns \ {c} : leave'[d] = leave[d]
      /\ \/ io' = io
         \/ /\ io[NodeOf[c]] \in {None, c}
            /\ \A j \in Nodes \ {NodeOf[c]} : io'[j] = io[j]
      /\ leave'[c].pc # "idle" => io'[NodeOf[c]] = c
  <2>1. CASE Accept(c) \/ BadFrame(c) \/ ClosedAfterShutdown(c)
    BY <1>0, <2>1 DEF Accept, BadFrame, ClosedAfterShutdown, nodeVars, HandlerInv
  <2>2. CASE ClientClose(c) \/ \E u \in Accounts[c] : LogoutErase(c, u)
    BY <1>0, <2>2 DEF ClientClose, LogoutErase, IoFree, IoTake
  <2>3. CASE CloseScan(c)
    BY <1>0, <2>3 DEF CloseScan, IoRelease, HandlerInv
  <2>4. CASE LeaveState(c) \/ LeaveSrem(c)
    BY <1>0, <2>4 DEF LeaveState, LeaveSrem, IoRelease, HandlerInv
  <2> QED
    BY <2>1, <2>2, <2>3, <2>4 DEF LeaveStep
<1>2. \A k \in Logins : LoggingIn(k)' => LoggingIn(k) /\ login'[k].conn = login[k].conn
  BY <1>0 DEF LoggingIn
<1>3. \A q \in Requests : AtGate(q)' => AtGate(q) /\ req'[q].conn = req[q].conn
  BY <1>0 DEF AtGate
<1> QED
  BY <1>0, <1>1, <1>2, <1>3, HandlerKeeps

LEMMA HandlerOther ==
  ASSUME HandlerInv, UNCHANGED <<io, login, leave, req>>
  PROVE  HandlerInv'
  BY DEF HandlerInv, LoggingIn, AtGate

(* The tail of a login task leaves the records of presence alone.          *)
TaskStep(l) == LoginFetch(l) \/ LoginDeliver(l) \/ LoginRemove(l)
LEMMA LoginTail ==
  ASSUME TypeInv, NEW l \in Logins, TaskStep(l)
  PROVE  /\ UNCHANGED <<conn, userConnMap, leave, online, userState, cmdUp, badFrames>>
         /\ \A k \in Logins : /\ login'[k].user = login[k].user /\ login'[k].conn = login[k].conn
                              /\ login'[k].pc = "free" <=> login[k].pc = "free"
                              /\ login'[k].pc = "map" <=> login[k].pc = "map"
                              /\ login'[k].pc = "sadd" <=> login[k].pc = "sadd"
<1>0. login \in [Logins -> LoginRec] /\ login[l] \in LoginRec
  BY DEF TypeInv, TypeOK, LoginRec
<1>1. UNCHANGED <<conn, userConnMap, leave, online, userState, cmdUp, badFrames>>
  BY DEF TaskStep, LoginFetch, LoginDeliver, LoginRemove, nodeVars, redisVars, linkVars, subVars, dbVars
<1>2. /\ \A k \in Logins \ {l} : login'[k] = login[k]
      /\ login'[l].user = login[l].user /\ login'[l].conn = login[l].conn
      /\ login[l].pc \in {"fetch", "deliver", "remove"}
  BY <1>0 DEF TaskStep, LoginFetch, LoginDeliver, LoginRemove, LoginRec
<1>3. login'[l].pc \in {"deliver", "remove", "done"}
  <2>1. CASE LoginFetch(l)
    BY <1>0, <2>1 DEF LoginFetch, LoginRec
  <2>2. CASE LoginDeliver(l) \/ LoginRemove(l)
    BY <1>0, <2>2 DEF LoginDeliver, LoginRemove, LoginRec
  <2> QED
    BY <2>1, <2>2 DEF TaskStep
<1> QED
  BY <1>1, <1>2, <1>3

LEMMA HomeSame ==
  ASSUME HomeInv, UNCHANGED <<userConnMap, leave>>,
         \A k \in Logins : /\ login'[k].user = login[k].user /\ login'[k].conn = login[k].conn
                           /\ login'[k].pc = "free" <=> login[k].pc = "free"
  PROVE  HomeInv'
  BY DEF HomeInv

LEMMA HomeLogin ==
  ASSUME TypeInv, HomeInv, NEW l \in Logins,
         \/ LoginStep(l)
         \/ \E c \in Conns : \E u \in Accounts[c], k \in Nat : LoginState(l, c, u, k)
  PROVE  HomeInv'
<1>0. /\ login \in [Logins -> LoginRec] /\ login[l] \in LoginRec /\ NodeOf \in [Conns -> Nodes]
      /\ userConnMap \in [Nodes -> [Users -> Conns \cup {None}]]
      /\ None \notin Conns
      /\ (login[l].pc # "free" => login[l].conn \in Conns /\ login[l].user \in Users)
  BY ClusterAssumption DEF ClusterAssumption, TypeInv, TypeOK, LoginRec, LoginBound
<1>1. CASE TaskStep(l)
  BY <1>1, LoginTail, HomeSame
<1>2. CASE \E c \in Conns : \E u \in Accounts[c], k \in Nat : LoginState(l, c, u, k)
  <2>0. PICK c \in Conns : \E u \in Accounts[c], k \in Nat : LoginState(l, c, u, k)
    BY <1>2
  <2>1. PICK u \in Accounts[c] :
          \E x : x.conn = c /\ x.user = u /\ login' = [login EXCEPT ![l] = x]
    BY <2>0 DEF LoginState, NoLogin
  <2>2. login'[l].conn = c /\ login'[l].user = u /\ \A k \in Logins \ {l} : login'[k] = login[k]
    BY <1>0, <2>1
  <2>3. UNCHANGED <<userConnMap, leave>>
    BY <1>2 DEF LoginState, nodeVars
  <2> QED
    BY <2>2, <2>3 DEF HomeInv
<1>3. CASE LoginMap(l)
  <2> DEFINE c == login[l].conn
             u == login[l].user
  <2>1. /\ c \in Conns /\ u \in Accounts[c] /\ leave' = leave
        /\ userConnMap' = [userConnMap EXCEPT ![NodeOf[c]][u] = c]
    BY <1>0, <1>3 DEF LoginMap, HomeInv
  <2>2. \A k \in Logins : /\ login'[k].user = login[k].user /\ login'[k].conn = login[k].conn
                          /\ login'[k].pc = "free" <=> login[k].pc = "free"
    BY <1>0, <1>3 DEF LoginMap, LoginRec
  <2> HIDE DEF c, u
  <2>3. \A n \in Nodes, w \in Users : userConnMap'[n][w] = IF n = NodeOf[c] /\ w = u THEN c
                                                          ELSE userConnMap[n][w]
    BY <1>0, <2>1
  <2>4. \A n \in Nodes, w \in Users : userConnMap'[n][w] # None =>
          NodeOf[userConnMap'[n][w]] = n /\ w \in Accounts[userConnMap'[n][w]]
    BY <2>1, <2>3 DEF HomeInv
  <2> QED
    BY <2>1, <2>2, <2>4 DEF HomeInv
<1>4. CASE LoginSadd(l)
  <2>1. UNCHANGED <<userConnMap, leave>>
    BY <1>4 DEF LoginSadd, nodeVars
  <2>2. \A k \in Logins : /\ login'[k].user = login[k].user /\ login'[k].conn = login[k].conn
                          /\ login'[k].pc = "free" <=> login[k].pc = "free"
    BY <1>0, <1>4 DEF LoginSadd, LoginRec
  <2> QED
    BY <2>1, <2>2, HomeSame
<1> QED
  BY <1>1, <1>2, <1>3, <1>4 DEF LoginStep, TaskStep

LEMMA HomeConn ==
  ASSUME TypeInv, HomeInv, NEW c \in Conns,
         \/ Accept(c) \/ ClientClose(c) \/ BadFrame(c) \/ ClosedAfterShutdown(c)
         \/ LeaveStep(c) \/ \E u \in Accounts[c] : LogoutErase(c, u)
  PROVE  HomeInv'
<1>0. /\ leave \in [Conns -> [pc : LeavePcs, user : Users \cup {None}]]
      /\ userConnMap \in [Nodes -> [Users -> Conns \cup {None}]]
      /\ NodeOf \in [Conns -> Nodes] /\ None \notin Conns
      /\ login' = login
  BY ClusterAssumption DEF ClusterAssumption, TypeInv, TypeOK, LeaveStep, Accept, ClientClose,
     BadFrame, ClosedAfterShutdown, CloseScan, LeaveState, LeaveSrem, LogoutErase
<1>1. \A d \in Conns \ {c} : leave'[d] = leave[d]
  BY <1>0 DEF Accept, ClientClose, BadFrame, ClosedAfterShutdown, LeaveStep, CloseScan, LeaveState,
     LeaveSrem, LogoutErase, nodeVars
<1>2. leave'[c].pc \in {"state", "srem"} => leave'[c].user \in Accounts[c]
  <2>1. CASE Accept(c) \/ BadFrame(c) \/ ClosedAfterShutdown(c)
    BY <1>0, <2>1 DEF Accept, BadFrame, ClosedAfterShutdown, HomeInv
  <2>2. CASE ClientClose(c) \/ \E u \in Accounts[c] : LogoutErase(c, u)
    BY <1>0, <2>2 DEF ClientClose, LogoutErase
  <2>3. CASE CloseScan(c)
    <3>1. ASSUME NEW u \in Mine(c), leave' = [leave EXCEPT ![c] = [pc |-> "state", user |-> u]]
          PROVE  leave'[c].user \in Accounts[c]
      BY <1>0, <3>1 DEF Mine, HomeInv
    <3> QED
      BY <1>0, <2>3, <3>1 DEF CloseScan
  <2>4. CASE LeaveState(c) \/ LeaveSrem(c)
    BY <1>0, <2>4 DEF LeaveState, LeaveSrem, HomeInv
  <2> QED
    BY <2>1, <2>2, <2>3, <2>4 DEF LeaveStep
<1>3. \A n \in Nodes, u \in Users : userConnMap'[n][u] \in {None, userConnMap[n][u]}
  <2>1. CASE CloseScan(c) \/ \E u \in Accounts[c] : LogoutErase(c, u)
    BY <1>0, <2>1 DEF CloseScan, LogoutErase
  <2>2. CASE ~(CloseScan(c) \/ \E u \in Accounts[c] : LogoutErase(c, u))
    BY <2>2 DEF Accept, ClientClose, BadFrame, ClosedAfterShutdown, LeaveStep, LeaveState, LeaveSrem, nodeVars
  <2> QED
    BY <2>1, <2>2
<1> QED
  BY <1>0, <1>1, <1>2, <1>3 DEF HomeInv

LEMMA OpenLogin ==
  ASSUME TypeInv, OpenInv, HomeInv, NEW l \in Logins,
         \/ LoginStep(l)
         \/ \E c \in Conns : \E u \in Accounts[c], k \in Nat : LoginState(l, c, u, k)
  PROVE  OpenInv'
<1>0. /\ login \in [Logins -> LoginRec] /\ login[l] \in LoginRec /\ NodeOf \in [Conns -> Nodes]
      /\ userConnMap \in [Nodes -> [Users -> Conns \cup {None}]]
      /\ None \notin Conns
      /\ (login[l].pc # "free" => login[l].conn \in Conns /\ login[l].user \in Users)
  BY ClusterAssumption DEF ClusterAssumption, TypeInv, TypeOK, LoginRec, LoginBound
<1>1. UNCHANGED <<conn, badFrames, leave>>
  BY DEF LoginStep, LoginState, LoginMap, LoginSadd, LoginFetch, LoginDeliver, LoginRemove, nodeVars, linkVars
<1>2. \A k \in Logins : login'[k].pc = "map" => conn[login'[k].conn] = "up"
  <2>1. CASE TaskStep(l)
    BY <2>1, LoginTail DEF OpenInv
  <2>2. CASE \E c \in Conns : \E u \in Accounts[c], k \in Nat : LoginState(l, c, u, k)
    <3>1. PICK c \in Conns : conn[c] = "up" /\ \E x : x.conn = c /\ login' = [login EXCEPT ![l] = x]
      BY <2>2 DEF LoginState, NoLogin, Connected
    <3>2. login'[l].conn = c /\ \A k \in Logins \ {l} : login'[k] = login[k]
      BY <1>0, <3>1
    <3> QED
      BY <3>1, <3>2 DEF OpenInv
  <2>3. CASE LoginMap(l) \/ LoginSadd(l)
    <3>1. /\ \A k \in Logins \ {l} : login'[k] = login[k]
          /\ login'[l].pc \in {"sadd", "fetch"}
      BY <1>0, <2>3 DEF LoginMap, LoginSadd, LoginRec
    <3> QED
      BY <3>1 DEF OpenInv
  <2> QED
    BY <2>1, <2>2, <2>3 DEF LoginStep, TaskStep
<1>3. \A n \in Nodes, u \in Users : userConnMap'[n][u] # None /\ conn[userConnMap'[n][u]] = "down" =>
        badFrames > 0 \/ leave[userConnMap'[n][u]].pc = "scan"
  <2>1. CASE LoginMap(l)
    <3> DEFINE c == login[l].conn
               u == login[l].user
    <3>1. /\ c \in Conns /\ u \in Users /\ conn[c] = "up"
          /\ userConnMap' = [userConnMap EXCEPT ![NodeOf[c]][u] = c]
      BY <1>0, <2>1 DEF LoginMap, OpenInv
    <3> HIDE DEF c, u
    <3>2. \A n \in Nodes, w \in Users : userConnMap'[n][w] = IF n = NodeOf[c] /\ w = u THEN c
                                                            ELSE userConnMap[n][w]
      BY <1>0, <3>1
    <3> QED
      BY <3>1, <3>2 DEF OpenInv
  <2>2. CASE userConnMap' = userConnMap
    BY <2>2 DEF OpenInv
  <2> QED
    BY <2>1, <2>2 DEF LoginStep, LoginState, LoginSadd, LoginFetch, LoginDeliver, LoginRemove, nodeVars
<1> QED
  BY <1>1, <1>2, <1>3 DEF OpenInv

LEMMA OpenConn ==
  ASSUME TypeInv, HandlerInv, HomeInv, OpenInv, OneAccount, NEW c \in Conns,
         \/ Accept(c) \/ ClientClose(c) \/ BadFrame(c) \/ ClosedAfterShutdown(c)
         \/ LeaveStep(c) \/ \E u \in Accounts[c] : LogoutErase(c, u)
  PROVE  OpenInv'
<1>0. /\ leave \in [Conns -> [pc : LeavePcs, user : Users \cup {None}]]
      /\ userConnMap \in [Nodes -> [Users -> Conns \cup {None}]]
      /\ conn \in [Conns -> {"fresh", "up", "closing", "down"}]
      /\ NodeOf \in [Conns -> Nodes] /\ None \notin Conns /\ None \notin Logins
      /\ login' = login /\ badFrames \in Nat
      /\ \A l \in Logins : login[l].pc = "map" => login[l].conn \in Conns
  BY ClusterAssumption DEF ClusterAssumption, TypeInv, TypeOK, LoginBound, LeaveStep, Accept, ClientClose,
     BadFrame, ClosedAfterShutdown, CloseScan, LeaveState, LeaveSrem, LogoutErase
<1>1. ASSUME conn' = conn, badFrames' = badFrames
      PROVE  /\ \A d \in Conns : conn'[d] = "closing" => badFrames' > 0
             /\ \A l \in Logins : login'[l].pc = "map" => conn'[login'[l].conn] = "up"
  BY <1>0, <1>1 DEF OpenInv
<1>2. ASSUME io[NodeOf[c]] = None
      PROVE  \A l \in Logins : login[l].pc = "map" => login[l].conn # c
  BY <1>0, <1>2 DEF HandlerInv, LoggingIn
<1>3. CASE Accept(c)
  <2>1. /\ conn' = [conn EXCEPT ![c] = "up"] /\ conn[c] = "fresh"
        /\ UNCHANGED <<userConnMap, leave, badFrames>>
    BY <1>3 DEF Accept, linkVars
  <2> QED
    BY <1>0, <2>1 DEF OpenInv
<1>4. CASE ClientClose(c)
  <2>1. /\ conn' = [conn EXCEPT ![c] = "down"] /\ UNCHANGED <<userConnMap, badFrames>>
        /\ leave' = [leave EXCEPT ![c] = [pc |-> "scan", user |-> None]] /\ io[NodeOf[c]] = None
    BY <1>4 DEF ClientClose, linkVars, IoFree
  <2>2. leave'[c].pc = "scan" /\ \A d \in Conns \ {c} : leave'[d] = leave[d] /\ conn'[d] = conn[d]
    BY <1>0, <2>1
  <2>3. \A n \in Nodes, u \in Users : userConnMap[n][u] # None => userConnMap[n][u] \in Conns
    BY <1>0
  <2>4. \A d \in Conns : conn'[d] = "closing" => badFrames' > 0
    BY <1>0, <2>1 DEF OpenInv
  <2>5. \A l \in Logins : login'[l].pc = "map" => conn'[login'[l].conn] = "up"
    BY <1>0, <1>2, <2>1, <2>2 DEF OpenInv
  <2>6. \A n \in Nodes, u \in Users :
          userConnMap'[n][u] # None /\ conn'[userConnMap'[n][u]] = "down" =>
            badFrames' > 0 \/ leave'[userConnMap'[n][u]].pc = "scan"
    BY <2>1, <2>2, <2>3 DEF OpenInv
  <2> QED
    BY <2>4, <2>5, <2>6 DEF OpenInv
<1>5. CASE BadFrame(c)
  <2>1. /\ conn' = [conn EXCEPT ![c] = "closing"] /\ UNCHANGED <<userConnMap, leave>>
        /\ badFrames' = badFrames + 1 /\ io[NodeOf[c]] = None
    BY <1>5 DEF BadFrame, IoFree
  <2>2. badFrames' > 0
    BY <1>0, <2>1
  <2>3. \A l \in Logins : login'[l].pc = "map" => conn'[login'[l].conn] = "up"
    BY <1>0, <1>2, <2>1 DEF OpenInv
  <2> QED
    BY <2>2, <2>3 DEF OpenInv
<1>6. CASE ClosedAfterShutdown(c)
  <2>1. /\ conn' = [conn EXCEPT ![c] = "down"] /\ UNCHANGED <<userConnMap, leave, badFrames>>
        /\ conn[c] = "closing"
    BY <1>6 DEF ClosedAfterShutdown, linkVars
  <2>2. badFrames' > 0
    BY <2>1 DEF OpenInv
  <2>3. \A l \in Logins : login'[l].pc = "map" => conn'[login'[l].conn] = "up"
    BY <1>0, <2>1 DEF OpenInv
  <2> QED
    BY <2>2, <2>3 DEF OpenInv
<1>7. CASE CloseScan(c)
  <2>1. UNCHANGED <<conn, badFrames>> /\ leave[c].pc = "scan"
    BY <1>7 DEF CloseScan, linkVars
  <2>2. ASSUME NEW u \in Mine(c),
               userConnMap' = [userConnMap EXCEPT ![NodeOf[c]][u] = None],
               leave' = [leave EXCEPT ![c] = [pc |-> "state", user |-> u]]
        PROVE  OpenInv'
    <3>1. u \in Accounts[c] /\ u \in Users
      <4>1. u \in Users /\ userConnMap[NodeOf[c]][u] = c
        BY DEF Mine
      <4> QED
        BY <1>0, <4>1 DEF HomeInv
    <3>2. \A n \in Nodes, w \in Users : userConnMap'[n][w] # None =>
            userConnMap'[n][w] = userConnMap[n][w] /\ ~(n = NodeOf[c] /\ w = u)
      BY <1>0, <2>2, <3>1
    <3>3. \A n \in Nodes, w \in Users : userConnMap'[n][w] # None => userConnMap'[n][w] # c
      BY <1>0, <3>1, <3>2 DEF HomeInv, OneAccount
    <3>4. \A d \in Conns \ {c} : leave'[d] = leave[d]
      BY <1>0, <2>2
    <3>5. \A n \in Nodes, w \in Users :
            userConnMap'[n][w] # None /\ conn'[userConnMap'[n][w]] = "down" =>
              badFrames' > 0 \/ leave'[userConnMap'[n][w]].pc = "scan"
      BY <1>0, <2>1, <3>2, <3>3, <3>4 DEF OpenInv
    <3> QED
      BY <1>1, <2>1, <3>5 DEF OpenInv
  <2>3. ASSUME Mine(c) = {}, userConnMap' = userConnMap, leave' = [leave EXCEPT ![c].pc = "idle"]
        PROVE  OpenInv'
    <3>1. \A n \in Nodes, w \in Users : userConnMap[n][w] # None => userConnMap[n][w] # c
      BY <1>0, <2>3 DEF HomeInv, Mine
    <3>2. \A d \in Conns \ {c} : leave'[d] = leave[d]
      BY <1>0, <2>3
    <3>3. \A n \in Nodes, w \in Users :
            userConnMap'[n][w] # None /\ conn'[userConnMap'[n][w]] = "down" =>
              badFrames' > 0 \/ leave'[userConnMap'[n][w]].pc = "scan"
      BY <1>0, <2>1, <2>3, <3>1, <3>2 DEF OpenInv
    <3> QED
      BY <1>1, <2>1, <3>3 DEF OpenInv
  <2> QED
    BY <1>7, <2>2, <2>3 DEF CloseScan
<1>8. CASE \E u \in Accounts[c] : LogoutErase(c, u)
  <2>1. PICK u \in Accounts[c] : LogoutErase(c, u)
    BY <1>8
  <2>2. /\ UNCHANGED <<conn, badFrames>> /\ conn[c] = "up"
        /\ userConnMap' = [userConnMap EXCEPT ![NodeOf[c]][u] = None]
        /\ \A d \in Conns \ {c} : leave'[d] = leave[d]
    BY <1>0, <2>1 DEF LogoutErase, linkVars, Connected
  <2>3. \A n \in Nodes, w \in Users : userConnMap'[n][w] # None => userConnMap'[n][w] = userConnMap[n][w]
    BY <1>0, <2>2
  <2>4. \A n \in Nodes, w \in Users :
          userConnMap'[n][w] # None /\ conn'[userConnMap'[n][w]] = "down" =>
            badFrames' > 0 \/ leave'[userConnMap'[n][w]].pc = "scan"
    <3> SUFFICES ASSUME NEW n \in Nodes, NEW w \in Users, userConnMap'[n][w] # None,
                        conn'[userConnMap'[n][w]] = "down"
                 PROVE  badFrames' > 0 \/ leave'[userConnMap'[n][w]].pc = "scan"
      OBVIOUS
    <3>1. userConnMap'[n][w] = userConnMap[n][w] /\ userConnMap[n][w] \in Conns \ {c}
      BY <1>0, <2>2, <2>3
    <3>2. badFrames > 0 \/ leave[userConnMap[n][w]].pc = "scan"
      BY <2>2, <3>1 DEF OpenInv
    <3> QED
      BY <2>2, <3>1, <3>2
  <2> QED
    BY <1>1, <2>2, <2>4 DEF OpenInv
<1>9. CASE LeaveState(c) \/ LeaveSrem(c)
  <2>1. /\ UNCHANGED <<conn, badFrames, userConnMap>> /\ leave[c].pc \in {"state", "srem"}
        /\ \A d \in Conns \ {c} : leave'[d] = leave[d]
    BY <1>0, <1>9 DEF LeaveState, LeaveSrem, linkVars
  <2>2. \A n \in Nodes, w \in Users :
          userConnMap'[n][w] # None /\ conn'[userConnMap'[n][w]] = "down" =>
            badFrames' > 0 \/ leave'[userConnMap'[n][w]].pc = "scan"
    BY <1>0, <2>1 DEF OpenInv
  <2> QED
    BY <1>1, <2>1, <2>2 DEF OpenInv
<1> QED
  BY <1>3, <1>4, <1>5, <1>6, <1>7, <1>8, <1>9 DEF LeaveStep

(* A step that does not touch what is recorded of a user.                  *)
LEMMA AgreeSame ==
  ASSUME NEW u, AgreeAt(u),
         Entering(u, "map")' <=> Entering(u, "map"), Entering(u, "sadd")' <=> Entering(u, "sadd"),
         Leaving(u, "state")' <=> Leaving(u, "state"), Leaving(u, "srem")' <=> Leaving(u, "srem"),
         Somewhere(u)' <=> Somewhere(u),
         userState'[u] = userState[u], u \in online' <=> u \in online
  PROVE  AgreeAt(u)'
  BY DEF AgreeAt

(* How the parts of a user's record change with the variables.             *)
LEMMA EnteringOthers ==
  ASSUME TypeInv, NEW l \in Logins, \A k \in Logins \ {l} : login'[k] = login[k],
         NEW u, NEW pc
  PROVE  Entering(u, pc)' <=> \/ login'[l].pc = pc /\ login'[l].user = u
                              \/ \E k \in Logins \ {l} : login[k].pc = pc /\ login[k].user = u
  BY DEF Entering
LEMMA LeavingOthers ==
  ASSUME TypeInv, NEW c \in Conns, \A d \in Conns \ {c} : leave'[d] = leave[d],
         NEW u, NEW pc
  PROVE  Leaving(u, pc)' <=> \/ leave'[c].pc = pc /\ leave'[c].user = u
                             \/ \E d \in Conns \ {c} : leave[d].pc = pc /\ leave[d].user = u
  BY DEF Leaving
LEMMA SameEntering ==
  ASSUME NEW u, NEW pc, \A k \in Logins : /\ login'[k].user = login[k].user
                                          /\ login'[k].pc = pc <=> login[k].pc = pc
  PROVE  Entering(u, pc)' <=> Entering(u, pc)
  BY DEF Entering
LEMMA SameLeaving ==
  ASSUME leave' = leave, NEW u, NEW pc
  PROVE  Leaving(u, pc)' <=> Leaving(u, pc)
  BY DEF Leaving

LEMMA AgreeTail ==
  ASSUME TypeInv, AgreeInv, NEW l \in Logins, TaskStep(l)
  PROVE  AgreeInv'
<1> SUFFICES ASSUME NEW u \in Users PROVE AgreeAt(u)'
  BY DEF AgreeInv
<1>1. /\ Entering(u, "map")' <=> Entering(u, "map")
      /\ Entering(u, "sadd")' <=> Entering(u, "sadd")
  BY LoginTail, SameEntering
<1>2. Somewhere(u)' <=> Somewhere(u)
  BY LoginTail DEF Somewhere
<1> QED
  BY <1>1, <1>2, LoginTail, SameLeaving, AgreeSame DEF AgreeInv

LEMMA AgreeLoginState ==
  ASSUME TypeInv, HandlerInv, HomeInv, AgreeInv, Pinned,
         NEW l \in Logins, NEW c \in Conns, NEW w \in Accounts[c], NEW k \in Nat,
         LoginState(l, c, w, k)
  PROVE  AgreeInv'
<1> SUFFICES ASSUME NEW u \in Users PROVE AgreeAt(u)'
  BY DEF AgreeInv
<1>0. AgreeAt(u) /\ login \in [Logins -> LoginRec] /\ userState \in [Users -> {"online", "offline"}]
      /\ None \notin Conns
  BY ClusterAssumption DEF AgreeInv, TypeInv, TypeOK, LoginRec, ClusterAssumption
<1>1. /\ login' = [login EXCEPT ![l] = [NoLogin EXCEPT !.pc = "map", !.user = w, !.conn = c, !.ackSeq = k]]
      /\ login[l].pc = "free" /\ io[NodeOf[c]] = None
      /\ userState' = [userState EXCEPT ![w] = "online"] /\ UNCHANGED <<userConnMap, leave, online>>
  BY DEF LoginState, IoFree, nodeVars, redisVars
<1>2. /\ login'[l].pc = "map" /\ login'[l].user = w /\ \A j \in Logins \ {l} : login'[j] = login[j]
  BY <1>0, <1>1 DEF NoLogin
<1>3. /\ Entering(u, "map")' <=> u = w \/ Entering(u, "map")
      /\ Entering(u, "sadd")' <=> Entering(u, "sadd")
  BY <1>1, <1>2, EnteringOthers DEF Entering
<1>4. Somewhere(u)' <=> Somewhere(u)
  BY <1>1 DEF Somewhere
<1>5. /\ Leaving(u, "state")' <=> Leaving(u, "state")
      /\ Leaving(u, "srem")' <=> Leaving(u, "srem")
  BY <1>1, SameLeaving
<1>6. CASE u = w
  <2>1. ~Leaving(u, "state") /\ ~Leaving(u, "srem")
    BY <1>0, <1>1, <1>6, Handlers DEF Leaving
  <2>2. userState'[u] = "online"
    BY <1>0, <1>1, <1>6
  <2> QED
    BY <1>0, <1>1, <1>3, <1>4, <1>5, <1>6, <2>1, <2>2 DEF AgreeAt
<1>7. CASE u # w
  <2>1. userState'[u] = userState[u]
    BY <1>0, <1>1, <1>7
  <2> QED
    BY <1>0, <1>1, <1>3, <1>4, <1>5, <1>7, <2>1, AgreeSame
<1> QED
  BY <1>6, <1>7

LEMMA AgreeMap ==
  ASSUME TypeInv, HandlerInv, HomeInv, AgreeInv, Pinned, NEW l \in Logins, LoginMap(l)
  PROVE  AgreeInv'
<1> DEFINE c == login[l].conn
           w == login[l].user
<1> SUFFICES ASSUME NEW u \in Users PROVE AgreeAt(u)'
  BY DEF AgreeInv
<1>0. /\ AgreeAt(u) /\ login \in [Logins -> LoginRec] /\ login[l] \in LoginRec
      /\ userConnMap \in [Nodes -> [Users -> Conns \cup {None}]]
      /\ NodeOf \in [Conns -> Nodes]
      /\ c \in Conns /\ w \in Users /\ w \in Accounts[c]
      /\ None \notin Conns /\ Logins \cap Conns = {}
  BY ClusterAssumption DEF AgreeInv, TypeInv, TypeOK, LoginRec, LoginBound, LoginMap, HomeInv, ClusterAssumption
<1>1. /\ login' = [login EXCEPT ![l].pc = "sadd"] /\ login[l].pc = "map"
      /\ userConnMap' = [userConnMap EXCEPT ![NodeOf[c]][w] = c]
      /\ UNCHANGED <<leave, online, userState>>
  BY DEF LoginMap, redisVars, dbVars
<1>2. login'[l].pc = "sadd" /\ login'[l].user = w /\ \A j \in Logins \ {l} : login'[j] = login[j]
  BY <1>0, <1>1 DEF LoginRec
<1> HIDE DEF c
<1>3. /\ Entering(u, "map")' <=> \E j \in Logins \ {l} : login[j].pc = "map" /\ login[j].user = u
      /\ Entering(u, "sadd")' <=> u = w \/ Entering(u, "sadd")
  BY <1>1, <1>2, EnteringOthers DEF Entering
<1>4. io[NodeOf[c]] = l
  BY <1>1 DEF HandlerInv, LoggingIn, c
<1> HIDE DEF w
<1>5. Somewhere(u)' <=> u = w \/ Somewhere(u)
  <2>1. \A n \in Nodes, x \in Users : userConnMap'[n][x] = IF n = NodeOf[c] /\ x = w THEN c
                                                          ELSE userConnMap[n][x]
    BY <1>0, <1>1
  <2> QED
    BY <1>0, <2>1 DEF Somewhere
<1>6. /\ Leaving(u, "state")' <=> Leaving(u, "state")
      /\ Leaving(u, "srem")' <=> Leaving(u, "srem")
  BY <1>1, SameLeaving
<1>7. CASE u = w
  <2>1. /\ ~Leaving(u, "state") /\ ~Leaving(u, "srem")
    BY <1>0, <1>4, <1>7, Handlers DEF Leaving
  <2>2. ~Entering(u, "map")'
    BY <1>0, <1>3, <1>4, <1>7, Handlers DEF LoggingIn
  <2>3. Entering(u, "map")
    BY <1>1, <1>7 DEF Entering, w
  <2> QED
    BY <1>0, <1>1, <1>3, <1>5, <1>6, <1>7, <2>1, <2>2, <2>3 DEF AgreeAt
<1>8. CASE u # w
  <2>1. Entering(u, "map")' <=> Entering(u, "map")
    BY <1>1, <1>3, <1>8 DEF Entering, w
  <2> QED
    BY <1>0, <1>1, <1>3, <1>5, <1>6, <1>8, <2>1, AgreeSame
<1> QED
  BY <1>7, <1>8

LEMMA AgreeSadd ==
  ASSUME TypeInv, HandlerInv, HomeInv, AgreeInv, LinksUp, NEW l \in Logins, LoginSadd(l)
  PROVE  AgreeInv'
<1> DEFINE w == login[l].user
<1> SUFFICES ASSUME NEW u \in Users PROVE AgreeAt(u)'
  BY DEF AgreeInv
<1>0. /\ AgreeAt(u) /\ login \in [Logins -> LoginRec] /\ login[l] \in LoginRec
      /\ NodeOf[login[l].conn] \in Nodes /\ w \in Users
  BY ClusterAssumption DEF AgreeInv, TypeInv, TypeOK, LoginRec, LoginBound, LoginSadd, ClusterAssumption
<1>1. /\ login' = [login EXCEPT ![l].pc = "fetch"] /\ login[l].pc = "sadd"
      /\ online' = online \cup {w}
      /\ UNCHANGED <<leave, userConnMap, userState>>
  BY <1>0 DEF LoginSadd, OnlineAfterLogin, LinksUp, nodeVars, dbVars
<1>2. login'[l].pc = "fetch" /\ login'[l].user = w /\ \A j \in Logins \ {l} : login'[j] = login[j]
  BY <1>0, <1>1 DEF LoginRec
<1>3. /\ Entering(u, "map")' <=> Entering(u, "map")
      /\ Entering(u, "sadd")' => Entering(u, "sadd")
      /\ u # w => (Entering(u, "sadd")' <=> Entering(u, "sadd"))
  BY <1>1, <1>2, EnteringOthers DEF Entering
<1>4. Somewhere(u)' <=> Somewhere(u)
  BY <1>1 DEF Somewhere
<1>5. /\ Leaving(u, "state")' <=> Leaving(u, "state")
      /\ Leaving(u, "srem")' <=> Leaving(u, "srem")
  BY <1>1, SameLeaving
<1>6. CASE u = w
  <2>1. Entering(u, "sadd")
    BY <1>1, <1>6 DEF Entering
  <2> QED
    BY <1>0, <1>1, <1>3, <1>4, <1>5, <1>6, <2>1 DEF AgreeAt
<1>7. CASE u # w
  BY <1>0, <1>1, <1>3, <1>4, <1>5, <1>7, AgreeSame
<1> QED
  BY <1>6, <1>7

(* A handler that erases the entry of its user: the others on that node    *)
(* are through, so the user is nowhere.                                    *)
LEMMA AgreeErase ==
  ASSUME TypeInv, HandlerInv, HomeInv, AgreeInv, Pinned,
         NEW c \in Conns, NEW w \in Accounts[c], io[NodeOf[c]] \in {None, c},
         leave[c].pc \notin {"state", "srem"},
         userConnMap' = [userConnMap EXCEPT ![NodeOf[c]][w] = None],
         leave' = [leave EXCEPT ![c] = [pc |-> "state", user |-> w]],
         UNCHANGED <<login, userState, online>>
  PROVE  AgreeInv'
<1> SUFFICES ASSUME NEW u \in Users PROVE AgreeAt(u)'
  BY DEF AgreeInv
<1>0. /\ AgreeAt(u) /\ w \in Users
      /\ leave \in [Conns -> [pc : LeavePcs, user : Users \cup {None}]]
      /\ userConnMap \in [Nodes -> [Users -> Conns \cup {None}]]
      /\ NodeOf \in [Conns -> Nodes] /\ None \notin Conns
      /\ None \notin Logins /\ Logins \cap Conns = {}
  BY ClusterAssumption DEF AgreeInv, TypeInv, TypeOK, ClusterAssumption
<1>1. /\ leave'[c].pc = "state" /\ leave'[c].user = w
      /\ \A d \in Conns \ {c} : leave'[d] = leave[d]
  BY <1>0
<1>2. /\ Leaving(u, "state")' <=> u = w \/ Leaving(u, "state")
      /\ Leaving(u, "srem")' <=> Leaving(u, "srem")
  BY <1>1, LeavingOthers DEF Leaving
<1>3. /\ Entering(u, "map")' <=> Entering(u, "map")
      /\ Entering(u, "sadd")' <=> Entering(u, "sadd")
  BY SameEntering
<1>4. \A n \in Nodes, x \in Users : userConnMap'[n][x] = IF n = NodeOf[c] /\ x = w THEN None
                                                        ELSE userConnMap[n][x]
  BY <1>0
<1>5. CASE u = w
  <2>1. ~Somewhere(u)'
    BY <1>0, <1>4, <1>5, Handlers DEF Somewhere
  <2>2. ~Entering(u, "map") /\ ~Entering(u, "sadd")
    BY <1>0, <1>5, Handlers DEF Entering, LoggingIn
  <2>3. ~Leaving(u, "srem")
    BY <1>0, <1>5, Handlers DEF Leaving
  <2> QED
    BY <1>2, <1>3, <1>5, <2>1, <2>2, <2>3 DEF AgreeAt
<1>6. CASE u # w
  <2>1. Somewhere(u)' <=> Somewhere(u)
    BY <1>0, <1>4, <1>6 DEF Somewhere
  <2> QED
    BY <1>0, <1>2, <1>3, <1>6, <2>1, AgreeSame
<1> QED
  BY <1>5, <1>6

LEMMA AgreeLeaveState ==
  ASSUME TypeInv, HandlerInv, HomeInv, AgreeInv, Pinned, NEW c \in Conns, LeaveState(c)
  PROVE  AgreeInv'
<1> DEFINE w == leave[c].user
<1> SUFFICES ASSUME NEW u \in Users PROVE AgreeAt(u)'
  BY DEF AgreeInv
<1>0. /\ AgreeAt(u) /\ w \in Accounts[c] /\ io[NodeOf[c]] = c
      /\ leave \in [Conns -> [pc : LeavePcs, user : Users \cup {None}]]
      /\ userState \in [Users -> {"online", "offline"}]
      /\ None \notin Logins /\ Logins \cap Conns = {}
  BY ClusterAssumption DEF AgreeInv, TypeInv, TypeOK, ClusterAssumption, LeaveState, HomeInv, HandlerInv
<1>1. /\ leave' = [leave EXCEPT ![c].pc = "srem"] /\ leave[c].pc = "state"
      /\ userState' = [userState EXCEPT ![w] = "offline"]
      /\ UNCHANGED <<login, userConnMap, online>>
  BY DEF LeaveState, redisVars
<1>2. /\ leave'[c].pc = "srem" /\ leave'[c].user = w
      /\ \A d \in Conns \ {c} : leave'[d] = leave[d]
  BY <1>0, <1>1
<1>3. /\ Leaving(u, "state")' => Leaving(u, "state")
      /\ u # w => (Leaving(u, "state")' <=> Leaving(u, "state"))
      /\ Leaving(u, "srem")' <=> u = w \/ Leaving(u, "srem")
  BY <1>1, <1>2, LeavingOthers DEF Leaving
<1>4. /\ Entering(u, "map")' <=> Entering(u, "map")
      /\ Entering(u, "sadd")' <=> Entering(u, "sadd")
  BY <1>1, SameEntering
<1>5. Somewhere(u)' <=> Somewhere(u)
  BY <1>1 DEF Somewhere
<1>6. CASE u = w
  <2>1. Leaving(u, "state")
    BY <1>1, <1>6 DEF Leaving
  <2>2. ~Entering(u, "map") /\ ~Entering(u, "sadd")
    BY <1>0, <1>6, Handlers DEF Entering, LoggingIn
  <2>3. userState'[u] = "offline"
    BY <1>0, <1>1, <1>6
  <2> QED
    BY <1>0, <1>3, <1>4, <1>5, <1>6, <2>1, <2>2, <2>3 DEF AgreeAt
<1>7. CASE u # w
  <2>1. userState'[u] = userState[u]
    BY <1>0, <1>1, <1>7
  <2> QED
    BY <1>0, <1>1, <1>3, <1>4, <1>5, <1>7, <2>1, AgreeSame
<1> QED
  BY <1>6, <1>7

LEMMA AgreeLeaveSrem ==
  ASSUME TypeInv, HandlerInv, HomeInv, AgreeInv, LinksUp, Pinned, NEW c \in Conns, LeaveSrem(c)
  PROVE  AgreeInv'
<1> DEFINE w == leave[c].user
<1> SUFFICES ASSUME NEW u \in Users PROVE AgreeAt(u)'
  BY DEF AgreeInv
<1>0. /\ AgreeAt(u) /\ w \in Users /\ w \in Accounts[c] /\ io[NodeOf[c]] = c
      /\ leave \in [Conns -> [pc : LeavePcs, user : Users \cup {None}]]
      /\ NodeOf[c] \in Nodes /\ None \notin Users
  <2>1. leave[c].pc = "srem"
    BY DEF LeaveSrem
  <2>2. /\ AgreeAt(u) /\ NodeOf[c] \in Nodes /\ None \notin Users
        /\ leave \in [Conns -> [pc : LeavePcs, user : Users \cup {None}]]
    BY ClusterAssumption DEF AgreeInv, TypeInv, TypeOK, ClusterAssumption
  <2> QED
    BY <2>1, <2>2 DEF TypeInv, LeaveBound, HomeInv, HandlerInv
<1>1. /\ leave' = [leave EXCEPT ![c] = [pc |-> "idle", user |-> None]] /\ leave[c].pc = "srem"
      /\ online' = online \ {w}
      /\ UNCHANGED <<login, userConnMap, userState>>
  BY <1>0 DEF LeaveSrem, OnlineAfterLeave, LinksUp, dbVars
<1>2. /\ leave'[c].pc = "idle" /\ leave'[c].user = None
      /\ \A d \in Conns \ {c} : leave'[d] = leave[d]
  BY <1>0, <1>1
<1>3. /\ Leaving(u, "state")' <=> Leaving(u, "state")
      /\ Leaving(u, "srem")' => Leaving(u, "srem")
      /\ u # w => (Leaving(u, "srem")' <=> Leaving(u, "srem"))
  BY <1>1, <1>2, LeavingOthers DEF Leaving
<1>4. /\ Entering(u, "map")' <=> Entering(u, "map")
      /\ Entering(u, "sadd")' <=> Entering(u, "sadd")
  BY <1>1, SameEntering
<1>5. Somewhere(u)' <=> Somewhere(u)
  BY <1>1 DEF Somewhere
<1>6. CASE u = w
  <2>1. Leaving(u, "srem")
    BY <1>1, <1>6 DEF Leaving
  <2>2. u \notin online'
    BY <1>1, <1>6
  <2> QED
    BY <1>0, <1>1, <1>3, <1>4, <1>5, <2>1, <2>2 DEF AgreeAt
<1>7. CASE u # w
  BY <1>0, <1>1, <1>3, <1>4, <1>5, <1>7, AgreeSame
<1> QED
  BY <1>6, <1>7

LEMMA AgreeConn ==
  ASSUME TypeInv, HandlerInv, HomeInv, AgreeInv, LinksUp, Pinned, NEW c \in Conns,
         \/ Accept(c) \/ ClientClose(c) \/ BadFrame(c) \/ ClosedAfterShutdown(c)
         \/ LeaveStep(c) \/ \E u \in Accounts[c] : LogoutErase(c, u)
  PROVE  AgreeInv'
<1>0. leave \in [Conns -> [pc : LeavePcs, user : Users \cup {None}]]
  BY DEF TypeInv, TypeOK
<1>1. ASSUME UNCHANGED <<login, userState, online, userConnMap>>,
             \A d \in Conns \ {c} : leave'[d] = leave[d],
             leave[c].pc \notin {"state", "srem"}, leave'[c].pc \notin {"state", "srem"}
      PROVE  AgreeInv'
  <2> SUFFICES ASSUME NEW u \in Users PROVE AgreeAt(u)'
    BY DEF AgreeInv
  <2>1. /\ Leaving(u, "state")' <=> Leaving(u, "state")
        /\ Leaving(u, "srem")' <=> Leaving(u, "srem")
    BY <1>1 DEF Leaving
  <2>2. /\ Entering(u, "map")' <=> Entering(u, "map")
        /\ Entering(u, "sadd")' <=> Entering(u, "sadd")
    BY <1>1, SameEntering
  <2>3. Somewhere(u)' <=> Somewhere(u)
    BY <1>1 DEF Somewhere
  <2> QED
    BY <1>1, <2>1, <2>2, <2>3, AgreeSame DEF AgreeInv
<1>2. CASE Accept(c) \/ BadFrame(c) \/ ClosedAfterShutdown(c)
  <2>1. UNCHANGED <<login, userState, online, userConnMap, leave>>
    BY <1>2 DEF Accept, BadFrame, ClosedAfterShutdown, redisVars, dbVars
  <2> QED
    BY <2>1 DEF AgreeInv, AgreeAt, Entering, Leaving, Somewhere
<1>3. CASE ClientClose(c)
  <2>1. leave[c].pc = "idle"
    BY <1>3, ClusterAssumption DEF ClientClose, IoFree, HandlerInv, ClusterAssumption
  <2> QED
    BY <1>0, <1>1, <1>3, <2>1 DEF ClientClose, redisVars, dbVars
<1>4. CASE CloseScan(c)
  <2>1. leave[c].pc = "scan" /\ io[NodeOf[c]] = c /\ UNCHANGED <<login, userState, online>>
    BY <1>4 DEF CloseScan, HandlerInv, redisVars, dbVars
  <2>2. ASSUME NEW u \in Mine(c),
               userConnMap' = [userConnMap EXCEPT ![NodeOf[c]][u] = None],
               leave' = [leave EXCEPT ![c] = [pc |-> "state", user |-> u]]
        PROVE  AgreeInv'
    <3>1. u \in Accounts[c]
      BY <2>2, ClusterAssumption DEF Mine, HomeInv, ClusterAssumption
    <3> QED
      BY <2>1, <2>2, <3>1, AgreeErase
  <2>3. ASSUME userConnMap' = userConnMap, leave' = [leave EXCEPT ![c].pc = "idle"]
        PROVE  AgreeInv'
    BY <1>0, <1>1, <2>1, <2>3
  <2> QED
    BY <1>4, <2>2, <2>3 DEF CloseScan
<1>5. CASE \E u \in Accounts[c] : LogoutErase(c, u)
  <2>1. PICK u \in Accounts[c] : LogoutErase(c, u)
    BY <1>5
  <2>2. io[NodeOf[c]] = None /\ leave[c].pc = "idle"
    BY <2>1, ClusterAssumption DEF LogoutErase, IoFree, HandlerInv, ClusterAssumption
  <2> QED
    BY <2>1, <2>2, AgreeErase DEF LogoutErase, redisVars, dbVars
<1> QED
  BY <1>2, <1>3, <1>4, <1>5, AgreeLeaveState, AgreeLeaveSrem DEF LeaveStep

LEMMA PresInit == Init => PresInv
<1> SUFFICES ASSUME Init PROVE PresInv
  OBVIOUS
<1>1. LinksUp /\ HandlerInv
  BY DEF Init, LinksUp, HandlerInv, LoggingIn, AtGate, NoLogin, NoReq
<1>2. HomeInv /\ OpenInv
  BY DEF Init, HomeInv, OpenInv, NoLogin
<1>3. AgreeInv
  BY DEF Init, AgreeInv, AgreeAt, Entering, Leaving, Somewhere, NoLogin
<1> QED
  BY <1>1, <1>2, <1>3 DEF PresInv

LEMMA PresUnchanged ==
  ASSUME PresInv, UNCHANGED presence
  PROVE  LinksUp' /\ HomeInv' /\ AgreeInv' /\ OpenInv'
<1>1. LinksUp' /\ HomeInv' /\ OpenInv'
  BY DEF presence, PresInv, LinksUp, HomeInv, OpenInv
<1>2. AgreeInv'
  BY DEF presence, PresInv, AgreeInv, AgreeAt, Entering, Leaving, Somewhere
<1> QED
  BY <1>1, <1>2

(* Before the first fault every step keeps the records in agreement.       *)
LEMMA PresStep ==
  ASSUME TypeInv, faults = 0 => PresInv, Pinned, OneAccount, [Next]_vars
  PROVE  (faults = 0 => PresInv)'
<1> SUFFICES ASSUME faults' = 0
             PROVE  PresInv'
  OBVIOUS
<1>0. ~Fault
  <2>1. faults \in Nat /\ faults' # faults + 1
    BY DEF TypeInv, TypeOK
  <2>2. \A n \in Nodes : ~CommandLinkLost(n) /\ ~SubscriberLost(n)
    BY <2>1 DEF CommandLinkLost, SubscriberLost
  <2>3. \A n \in Nodes : ~Restart(n)
    BY <2>1 DEF Restart
  <2>4. \A q \in Requests : ~StoreFails(q)
    BY <2>1 DEF StoreFails
  <2> QED
    BY <2>2, <2>3, <2>4 DEF Fault
<1>1. CASE \E l \in Logins : LoginStep(l)
  <2>1. PICK l \in Logins : LoginStep(l)
    BY <1>1
  <2>2. UNCHANGED <<cmdUp, faults>>
    BY <2>1 DEF LoginStep, LoginMap, LoginSadd, LoginFetch, LoginDeliver, LoginRemove, linkVars
  <2>3. LinksUp /\ HandlerInv /\ HomeInv /\ AgreeInv /\ OpenInv
    BY <2>2 DEF PresInv
  <2>4. HandlerInv' /\ HomeInv' /\ OpenInv'
    BY <2>1, <2>3, HandlerLogin, HomeLogin, OpenLogin
  <2>5. AgreeInv'
    BY <2>1, <2>3, AgreeMap, AgreeSadd, AgreeTail DEF LoginStep, TaskStep
  <2> QED
    BY <2>2, <2>3, <2>4, <2>5 DEF PresInv, LinksUp
<1>2. CASE \E c \in Conns : \E l \in Logins, u \in Accounts[c] : \E k \in Watermarks(u) :
             LoginState(l, c, u, k)
  <2>1. PICK c \in Conns : \E l \in Logins, u \in Accounts[c] : \E k \in Watermarks(u) :
             LoginState(l, c, u, k)
    BY <1>2
  <2>2. PICK l \in Logins, u \in Accounts[c] : \E k \in Watermarks(u) : LoginState(l, c, u, k)
    BY <2>1
  <2>3. PICK k \in Watermarks(u) : LoginState(l, c, u, k)
    BY <2>2
  <2>4. k \in Nat /\ u \in Users
    BY ClusterAssumption DEF Watermarks, ClusterAssumption, Message
  <2>5. UNCHANGED <<cmdUp, faults>>
    BY <2>3 DEF LoginState, linkVars
  <2>6. LinksUp /\ HandlerInv /\ HomeInv /\ AgreeInv /\ OpenInv
    BY <2>5 DEF PresInv
  <2>7. HandlerInv' /\ HomeInv' /\ OpenInv'
    BY <2>3, <2>4, <2>6, HandlerLogin, HomeLogin, OpenLogin
  <2>8. AgreeInv'
    BY <2>3, <2>4, <2>6, AgreeLoginState
  <2> QED
    BY <2>5, <2>6, <2>7, <2>8 DEF PresInv, LinksUp
<1>3. CASE \E c \in Conns : \/ Accept(c) \/ ClientClose(c) \/ BadFrame(c) \/ ClosedAfterShutdown(c)
                            \/ LeaveStep(c) \/ \E u \in Accounts[c] : LogoutErase(c, u)
  <2>1. PICK c \in Conns : \/ Accept(c) \/ ClientClose(c) \/ BadFrame(c) \/ ClosedAfterShutdown(c)
                           \/ LeaveStep(c) \/ \E u \in Accounts[c] : LogoutErase(c, u)
    BY <1>3
  <2>2. UNCHANGED <<cmdUp, faults>>
    BY <2>1 DEF Accept, ClientClose, BadFrame, ClosedAfterShutdown, LeaveStep, CloseScan, LeaveState,
       LeaveSrem, LogoutErase, linkVars
  <2>3. LinksUp /\ HandlerInv /\ HomeInv /\ AgreeInv /\ OpenInv
    BY <2>2 DEF PresInv
  <2>4. HandlerInv'
    BY <2>1, <2>3, HandlerConn
  <2>5. HomeInv'
    BY <2>1, <2>3, HomeConn
  <2>6. OpenInv'
    BY <2>1, <2>3, OpenConn
  <2>7. AgreeInv'
    BY <2>1, <2>3, AgreeConn
  <2> QED
    BY <2>2, <2>3, <2>4, <2>5, <2>6, <2>7 DEF PresInv, LinksUp
<1>4. CASE \/ \E q \in Requests : RequestStep(q)
           \/ \E q \in Requests, c \in Conns, m \in Msgs : Receive(q, c, m)
  <2>1. PICK q \in Requests : RequestStep(q) \/ \E c \in Conns, m \in Msgs : Receive(q, c, m)
    BY <1>4
  <2>2. UNCHANGED faults
    BY <2>1 DEF RequestStep, TryAcquireDedup, GetCachedAck, OneChatLocal, OneChatRemote, GroupChatRun,
       GroupChatClassify, GroupChatSendLocal, Route, Publish, StoreOffline, SendAck, CacheAck,
       Receive, linkVars
  <2>3. PresInv /\ UNCHANGED presence
    BY <2>1, <2>2, RequestPresence
  <2>4. HandlerInv'
    BY <2>1, <2>3, HandlerRequest DEF PresInv
  <2> QED
    BY <2>3, <2>4, PresUnchanged DEF PresInv
<1>5. CASE (\E n \in Nodes : SubStep(n)) \/ UNCHANGED vars
  <2>1. UNCHANGED <<presence, io, req, faults>>
    BY <1>5 DEF SubStep, SubLookup, SubSend, presence, vars, nodeVars, redisVars, linkVars, subVars, dbVars
  <2>2. PresInv
    BY <2>1
  <2>3. HandlerInv'
    BY <2>1, <2>2, HandlerOther DEF PresInv, presence
  <2> QED
    BY <2>1, <2>2, <2>3, PresUnchanged DEF PresInv
<1> QED
  BY <1>0, <1>1, <1>2, <1>3, <1>4, <1>5 DEF Next, Server, Client

LEMMA PresGives == TypeInv /\ PresInv => PresenceAgrees
<1> SUFFICES ASSUME TypeInv, PresInv PROVE PresenceAgrees
  OBVIOUS
<1>0. /\ None \notin Conns /\ None \notin Logins /\ NodeOf \in [Conns -> Nodes]
      /\ userConnMap \in [Nodes -> [Users -> Conns \cup {None}]] /\ badFrames \in Nat
  BY ClusterAssumption DEF ClusterAssumption, TypeInv, TypeOK
<1>1. ASSUME Quiet, NEW u \in Users
      PROVE  /\ u \in online <=> userState[u] = "online"
             /\ u \in online <=> \E n \in Nodes : userConnMap[n][u] # None
  <2>1. /\ ~Entering(u, "map") /\ ~Entering(u, "sadd")
    <3>1. ASSUME NEW l \in Logins, LoggingIn(l)
          PROVE  FALSE
      <4>1. NodeOf[login[l].conn] \in Nodes
        BY <1>0, <3>1 DEF TypeInv, LoginBound, LoggingIn
      <4> QED
        BY <1>0, <1>1, <3>1, <4>1 DEF Quiet, PresInv, HandlerInv
    <3> QED
      BY <3>1 DEF Entering, LoggingIn
  <2>2. ~Leaving(u, "state") /\ ~Leaving(u, "srem")
    BY <1>0, <1>1 DEF Leaving, Quiet, PresInv, HandlerInv
  <2>3. AgreeAt(u)
    BY DEF PresInv, AgreeInv
  <2>4. /\ u \in online <=> Somewhere(u)
        /\ userState[u] = "online" <=> Somewhere(u)
    BY <2>1, <2>2, <2>3 DEF AgreeAt
  <2> QED
    BY <2>4 DEF Somewhere
<1>2. ASSUME badFrames = 0, NEW n \in Nodes, NEW u \in Users, io[n] = None, userConnMap[n][u] # None
      PROVE  conn[userConnMap[n][u]] # "down"
  <2>1. userConnMap[n][u] \in Conns /\ NodeOf[userConnMap[n][u]] = n
    BY <1>0, <1>2 DEF PresInv, HomeInv
  <2>2. leave[userConnMap[n][u]].pc = "idle"
    BY <1>0, <1>2, <2>1 DEF PresInv, HandlerInv
  <2> QED
    BY <1>0, <1>2, <2>2 DEF PresInv, OpenInv
<1> QED
  BY <1>1, <1>2 DEF PresenceAgrees

(* Until the first fault, users whose connections all come to one node and *)
(* that have one connection each to themselves are recorded the same way   *)
(* in the Redis set, in MySQL and in the maps whenever no handler runs,    *)
(* and no map keeps a connection its client has closed                     *)
(* (chatservice.cpp:218-262, 404-486).                                     *)
THEOREM PresenceAgreesHolds ==
  ASSUME Pinned, OneAccount
  PROVE  Spec => [](faults = 0 => PresenceAgrees)
<1>1. Init => (faults = 0 => PresInv)
  BY PresInit
<1>2. TypeInv /\ (faults = 0 => PresInv) /\ [Next]_vars => (faults = 0 => PresInv)'
  BY PresStep
<1>3. TypeInv /\ (faults = 0 => PresInv) => (faults = 0 => PresenceAgrees)
  BY PresGives
<1> QED
  BY <1>1, <1>2, <1>3, TypeInvariant, PTL DEF Spec

-----------------------------------------------------------------------------
(* The rows of recipients who are away                                    *)

(* The schema's key (from_id, msg_id) names one message, and a message has *)
(* one receiver: private messages and groups of two.                       *)
OneKeyEach == \A m1, m2 \in Msgs : Key(m1) = Key(m2) => m1 = m2
OneReceiver == \A m \in Msgs : \A u, w \in Receivers(m) : u = w

(* A user is away until it tries to log in; what was answered is in the    *)
(* table for whoever is away, or the request still has the user before it. *)
Seen(u) == \E l \in Logins : login[l].user = u
Kept(q, u) == \/ Seen(u) \/ u \in req[q].todo \/ Row(u, req[q].msg) \in offline
              \/ req[q].pc = "store" /\ req[q].cur = u
Past == {"local", "route", "publish", "store", "ack", "cache", "done"}
AwayInv ==
  /\ \A l \in Logins : login[l].pc = "free" => login[l].user = None
  /\ \A u \in online : Seen(u)
  /\ \A q \in Requests : req[q].pc = "publish" => Seen(req[q].cur)
  /\ \A q \in Requests : req[q].pc \in Past => \A u \in Receivers(req[q].msg) : Kept(q, u)

(* Whoever was seen stays seen.                                            *)
LEMMA SeenStays ==
  ASSUME AwayInv, \A l \in Logins : login[l].pc # "free" => login'[l].user = login[l].user,
         NEW u \in Users, Seen(u)
  PROVE  Seen(u)'
<1>1. PICK l \in Logins : login[l].user = u
  BY DEF Seen
<1>2. login[l].pc # "free"
  BY <1>1, ClusterAssumption DEF AwayInv, ClusterAssumption
<1> QED
  BY <1>1, <1>2 DEF Seen

(* What a step owes: it keeps the users of logins, adds to the online set  *)
(* whom it has seen, takes rows of such users only, and keeps the others   *)
(* in the requests it changes.                                             *)
Treated(q) ==
  /\ req'[q].pc = "publish" => req'[q].cur \in Users /\ Seen(req'[q].cur)
  /\ req'[q].pc \in Past => \A u \in Receivers(req'[q].msg) :
       \/ Seen(u) \/ u \in req'[q].todo \/ Row(u, req'[q].msg) \in offline'
       \/ req'[q].pc = "store" /\ req'[q].cur = u
LEMMA AwayKeeps ==
  ASSUME TypeInv, TypeInv', AwayInv,
         \A l \in Logins : login[l].pc # "free" => login'[l].user = login[l].user,
         \A l \in Logins : login'[l].pc = "free" => login'[l].user = None,
         \A u \in online' : u \in online \/ Seen(u),
         \A x \in offline \ offline' : Seen(x.to),
         \A q \in Requests : req'[q] = req[q] \/ Treated(q)
  PROVE  AwayInv'
<1>1. \A u \in Users : Seen(u) => Seen(u)'
  BY SeenStays
<1>2. \A u \in online' : Seen(u)'
  <2>1. online' \subseteq Users
    BY DEF TypeInv, TypeOK
  <2>2. \A u \in online' : Seen(u)
    BY DEF AwayInv
  <2> QED
    BY <1>1, <2>1, <2>2
<1>3. ASSUME NEW q \in Requests, req'[q].pc = "publish"
      PROVE  \E l \in Logins : login'[l].user = req'[q].cur
  <2>1. req'[q].cur \in Users
    BY <1>3 DEF TypeInv, ReqBound
  <2>2. Seen(req'[q].cur)
    BY <1>3 DEF AwayInv, Treated
  <2>3. PICK u \in Users : u = req'[q].cur
    BY <2>1
  <2>4. \E l \in Logins : login'[l].user = u
    BY <1>1, <2>2, <2>3 DEF Seen
  <2> QED
    BY <2>3, <2>4
<1>4. ASSUME NEW q \in Requests, req'[q].pc \in Past, NEW u \in Receivers(req'[q].msg)
      PROVE  Kept(q, u)'
  <2>1. req'[q].msg \in Msgs /\ u \in Users
    <3>1. req'[q].msg \in Msgs
      BY <1>4 DEF TypeInv, ReqBound, Past
    <3> QED
      BY <3>1, MsgType
  <2>2. PICK m \in Msgs : m = req'[q].msg
    BY <2>1
  <2>3. \/ Seen(u) \/ u \in req'[q].todo \/ Row(u, m) \in offline'
        \/ req'[q].pc = "store" /\ req'[q].cur = u
    <3>1. CASE Treated(q)
      BY <1>4, <2>2, <3>1 DEF Treated
    <3>2. CASE req'[q] = req[q]
      <4>1. Kept(q, u)
        BY <1>4, <3>2 DEF AwayInv
      <4>2. Row(u, m) \in offline \ offline' => Seen(u)
        <5>1. Row(u, m).to = u
          BY DEF Row
        <5> QED
          BY <5>1
      <4> QED
        BY <2>2, <3>2, <4>1, <4>2 DEF Kept
    <3> QED
      BY <3>1, <3>2
  <2>4. Seen(u) => Seen(u)'
    BY <1>1, <2>1
  <2> QED
    BY <2>2, <2>3, <2>4 DEF Kept, Row
<1>5. (\A q \in Requests : req[q].pc = "publish" => Seen(req[q].cur))'
  BY <1>3 DEF Seen
<1>6. (\A q \in Requests : req[q].pc \in Past => \A u \in Receivers(req[q].msg) : Kept(q, u))'
  BY <1>4 DEF Receivers, Past
<1> QED
  BY <1>2, <1>5, <1>6 DEF AwayInv

(* Users whom a map or the online set knows were seen.                     *)
LEMMA MapSeen ==
  ASSUME CoreInv, NEW n \in Nodes, NEW u \in Users, Reachable(n, u)
  PROVE  Seen(u)
  BY DEF CoreInv, OnceInv, MapInv, Reachable, Seen

(* Every step of a request but a failing INSERT treats its recipients.     *)
LEMMA Treats ==
  ASSUME CoreInv, AwayInv, OneKeyEach, OneReceiver, NEW q \in Requests,
         RequestStep(q) \/ \E c \in Conns, m \in Msgs : Receive(q, c, m)
  PROVE  Treated(q)
<1>0. /\ req \in [Requests -> ReqRec] /\ req[q] \in ReqRec
      /\ req[q].pc # "free" => req[q].msg \in Msgs /\ req[q].conn \in Conns
      /\ req[q].pc \in {"publish", "store"} => req[q].cur \in Users
      /\ ReqNode(q) = NodeOf[req[q].conn] /\ NodeOf \in [Conns -> Nodes]
  BY ClusterAssumption DEF CoreInv, TypeInv, TypeOK, ReqRec, ReqBound, ReqNode, ClusterAssumption
<1>11. req[q].pc \in Past => \A u \in Receivers(req[q].msg) : Kept(q, u)
  BY DEF AwayInv
<1>1. CASE \E c \in Conns, m \in Msgs : Receive(q, c, m)
  <2>1. PICK c \in Conns, m \in Msgs : Receive(q, c, m)
    BY <1>1
  <2>2. req'[q].pc \in {"dedup", "lookup"}
    BY <1>0, <2>1 DEF Receive, Enter, NoReq
  <2> QED
    BY <2>2 DEF Treated, Past
<1>2. CASE TryAcquireDedup(q) \/ GetCachedAck(q) \/ GroupChatRun(q)
  <2>1. req'[q].pc \in {"lookup", "cached", "dup", "classify"}
    <3>1. CASE TryAcquireDedup(q)
      BY <1>0, <3>1 DEF TryAcquireDedup, Goto, ReqRec
    <3>2. CASE GetCachedAck(q) \/ GroupChatRun(q)
      BY <1>0, <3>2 DEF GetCachedAck, GroupChatRun, Goto, ReqRec
    <3> QED
      BY <1>2, <3>1, <3>2
  <2> QED
    BY <2>1 DEF Treated, Past
<1>3. CASE OneChatLocal(q)
  <2>1. PICK w \in req[q].msg.to : Reachable(ReqNode(q), w)
    BY <1>3 DEF OneChatLocal
  <2>2. req[q].msg \in Msgs /\ req[q].msg.kind = "private" /\ ReqNode(q) \in Nodes
    BY <1>0, <1>3 DEF OneChatLocal, ReqAt
  <2>3. w \in Receivers(req[q].msg) /\ w \in Users
    BY <2>1, <2>2, MsgType DEF Receivers
  <2>4. Seen(w)
    BY <2>1, <2>2, <2>3, MapSeen
  <2>5. req'[q].pc = "cache" /\ req'[q].msg = req[q].msg
    BY <1>0, <1>3 DEF OneChatLocal, ReqRec
  <2>6. \A u \in Receivers(req[q].msg) : u = w
    BY <2>2, <2>3 DEF OneReceiver
  <2> QED
    BY <2>4, <2>5, <2>6 DEF Treated
<1>4. CASE OneChatRemote(q)
  <2>1. /\ req'[q].pc = "route" /\ req'[q].msg = req[q].msg /\ req'[q].todo = req[q].msg.to
    BY <1>0, <1>4, MsgType DEF OneChatRemote, ReqAt, ReqRec
  <2>2. Receivers(req[q].msg) = req[q].msg.to
    BY <1>4 DEF OneChatRemote, Receivers
  <2> QED
    BY <2>1, <2>2 DEF Treated
<1>5. CASE GroupChatClassify(q)
  <2> DEFINE here == {u \in Receivers(req[q].msg) : Reachable(ReqNode(q), u)}
  <2>1. req[q].msg \in Msgs /\ ReqNode(q) \in Nodes
    BY <1>0, <1>5 DEF GroupChatClassify, ReqAt
  <2>2. \A u \in Receivers(req[q].msg) : u \in here => Seen(u)
    BY <2>1, MapSeen, MsgType
  <2>3. CASE req[q].msg.to = {}
    <3>1. Receivers(req[q].msg) = {}
      BY <2>3 DEF Receivers
    <3>2. req'[q].pc = "ack" /\ req'[q].msg = req[q].msg
      BY <1>0, <1>5, <2>3 DEF GroupChatClassify, ReqRec
    <3> QED
      BY <3>1, <3>2 DEF Treated
  <2>4. CASE req[q].msg.to # {}
    <3>1. /\ req'[q].pc = "local" /\ req'[q].msg = req[q].msg
          /\ req'[q].todo = Receivers(req[q].msg) \ here
      BY <1>0, <1>5, <2>4 DEF GroupChatClassify, ReqRec
    <3> QED
      BY <2>2, <3>1 DEF Treated
  <2> QED
    BY <2>3, <2>4
<1>6. CASE GroupChatSendLocal(q)
  <2>1. /\ req'[q].pc \in {"ack", "route"} /\ req'[q].msg = req[q].msg /\ req'[q].todo = req[q].todo
        /\ req[q].pc = "local" /\ offline' = offline
    BY <1>0, <1>6 DEF GroupChatSendLocal, ReqAt, ReqRec, dbVars
  <2> QED
    BY <1>11, <2>1 DEF Treated, Kept, Past
<1>7. CASE \E u \in Users : Route(q, u)
  <2>1. PICK w \in Users : Route(q, w)
    BY <1>7
  <2>2. /\ req'[q].msg = req[q].msg /\ req'[q].todo = req[q].todo \ {w} /\ req'[q].cur = w
        /\ req[q].pc = "route" /\ offline' = offline
        /\ req'[q].pc \in {"publish", "store"} /\ (req'[q].pc = "publish" => w \in online)
    BY <1>0, <2>1 DEF Route, ReqAt, ReqRec, dbVars
  <2>3. w \in online => Seen(w)
    BY DEF AwayInv
  <2> QED
    BY <1>11, <2>2, <2>3 DEF Treated, Kept, Past
<1>8. CASE Publish(q)
  <2>1. /\ req'[q].pc \in {"ack", "route"} /\ req'[q].msg = req[q].msg /\ req'[q].todo = req[q].todo
        /\ req[q].pc = "publish" /\ offline' = offline
    BY <1>0, <1>8 DEF Publish, Routed, ReqAt, ReqRec, dbVars
  <2> QED
    BY <1>11, <2>1 DEF Treated, Kept, Past
<1>9. CASE StoreOffline(q)
  <2>1. /\ req'[q].pc \in {"ack", "route"} /\ req'[q].msg = req[q].msg /\ req'[q].todo = req[q].todo
        /\ req[q].pc = "store" /\ offline \subseteq offline'
    BY <1>0, <1>9 DEF StoreOffline, Routed, ReqAt, ReqRec
  <2>2. PICK u \in Users, m \in Msgs : u = req[q].cur /\ m = req[q].msg
    BY <1>0, <2>1
  <2>3. Row(u, m) \in offline'
    <3>1. CASE Insertable(m)
      BY <1>9, <2>2, <3>1 DEF StoreOffline, Row
    <3>2. CASE ~Insertable(m)
      <4>1. PICK x \in offline : Key(x.msg) = Key(m)
        BY <3>2 DEF Insertable
      <4>2. x \in Rows
        BY <4>1 DEF CoreInv, TypeInv, TypeOK
      <4>3. x.msg = m
        BY <4>1, <4>2, RowParts DEF OneKeyEach
      <4>4. x.to \in Receivers(m)
        BY <4>1, <4>2, <4>3 DEF CoreInv, OnceInv, WayInv
      <4>5. u \in Receivers(m)
        BY <2>1, <2>2 DEF CoreInv, OnceInv, RouteInv
      <4>6. x = Row(u, m)
        BY <4>2, <4>3, <4>4, <4>5, RowParts DEF OneReceiver
      <4> QED
        BY <2>1, <4>1, <4>6
    <3> QED
      BY <3>1, <3>2
  <2> QED
    BY <1>11, <2>1, <2>2, <2>3 DEF Treated, Kept, Past
<1>10. CASE SendAck(q) \/ CacheAck(q)
  <2>1. /\ req'[q].pc \in {"cache", "done"} /\ req'[q].msg = req[q].msg /\ req'[q].todo = req[q].todo
        /\ req[q].pc \in {"ack", "cache"} /\ offline' = offline
    BY <1>0, <1>10 DEF SendAck, CacheAck, Goto, ReqAt, ReqRec, dbVars
  <2> QED
    BY <1>11, <2>1 DEF Treated, Kept, Past
<1> QED
  BY <1>1, <1>2, <1>3, <1>4, <1>5, <1>6, <1>7, <1>8, <1>9, <1>10 DEF RequestStep

LEMMA AwayStep ==
  ASSUME CoreInv, CoreInv', AwayInv, OneKeyEach, OneReceiver, [Next]_vars,
         [\A q \in Requests : ~StoreFails(q)]_vars
  PROVE  AwayInv'
<1>0. /\ TypeInv /\ TypeInv' /\ login \in [Logins -> LoginRec] /\ req \in [Requests -> ReqRec]
      /\ \A l \in Logins : login[l].pc = "free" => login[l].user = None
  BY DEF CoreInv, TypeInv, TypeOK, LoginRec, ReqRec, AwayInv
<1>1. ASSUME UNCHANGED <<login, req, offline>>, online' \subseteq online
      PROVE  AwayInv'
  BY <1>0, <1>1, AwayKeeps
<1>2. ASSUME NEW q \in Requests, RequestStep(q) \/ \E c \in Conns, m \in Msgs : Receive(q, c, m)
      PROVE  AwayInv'
  <2>1. UNCHANGED <<login, online>>
    BY <1>2, RequestPresence DEF presence
  <2>2. offline \subseteq offline'
    BY <1>2 DEF RequestStep, TryAcquireDedup, GetCachedAck, OneChatLocal, OneChatRemote,
       GroupChatRun, GroupChatClassify, GroupChatSendLocal, Route, Publish, StoreOffline, SendAck,
       CacheAck, Receive, dbVars
  <2>3. Treated(q)
    BY <1>2, Treats
  <2>4. \A p \in Requests : req'[p] = req[p] \/ Treated(p)
    BY <1>0, <1>2, <2>3, StepEffect
  <2> QED
    BY <1>0, <2>1, <2>2, <2>4, AwayKeeps
<1>3. ASSUME NEW l \in Logins, LoginStep(l)
      PROVE  AwayInv'
  <2>0. login[l] \in LoginRec /\ login[l].pc # "free" /\ UNCHANGED req
    BY <1>0, <1>3 DEF LoginStep, LoginMap, LoginSadd, LoginFetch, LoginDeliver, LoginRemove
  <2>1. \A k \in Logins : login'[k].user = login[k].user /\ (k # l => login'[k] = login[k])
    BY <1>0, <1>3, <2>0 DEF LoginStep, LoginMap, LoginSadd, LoginFetch, LoginDeliver, LoginRemove, LoginRec
  <2>2. login'[l].pc # "free"
    <3>1. CASE LoginFetch(l)
      BY <1>0, <2>0, <3>1 DEF LoginFetch, LoginRec
    <3>2. CASE LoginMap(l) \/ LoginSadd(l) \/ LoginDeliver(l) \/ LoginRemove(l)
      BY <1>0, <2>0, <3>2 DEF LoginMap, LoginSadd, LoginDeliver, LoginRemove, LoginRec
    <3> QED
      BY <1>3, <3>1, <3>2 DEF LoginStep
  <2>3. Seen(login[l].user)
    BY DEF Seen
  <2>4. \A u \in online' : u \in online \/ Seen(u)
    BY <1>3, <2>3 DEF LoginStep, LoginMap, LoginSadd, OnlineAfterLogin, LoginFetch, LoginDeliver,
       LoginRemove, redisVars
  <2>5. \A x \in offline \ offline' : Seen(x.to)
    BY <1>3, <2>3 DEF LoginStep, LoginMap, LoginSadd, LoginFetch, LoginDeliver, LoginRemove, dbVars
  <2> QED
    BY <1>0, <2>0, <2>1, <2>2, <2>4, <2>5, AwayKeeps
<1>4. ASSUME NEW c \in Conns, NEW l \in Logins, NEW u, NEW k, LoginState(l, c, u, k)
      PROVE  AwayInv'
  <2>1. /\ \A j \in Logins \ {l} : login'[j] = login[j]
        /\ login'[l].pc = "map" /\ login[l].pc = "free"
        /\ UNCHANGED <<req, online, offline>>
    BY <1>0, <1>4 DEF LoginState, NoLogin, redisVars
  <2> QED
    BY <1>0, <2>1, AwayKeeps
<1>5. ASSUME NEW c \in Conns, \/ Accept(c) \/ ClientClose(c) \/ BadFrame(c) \/ ClosedAfterShutdown(c)
                              \/ LeaveStep(c) \/ \E u \in Accounts[c] : LogoutErase(c, u)
      PROVE  AwayInv'
  BY <1>1, <1>5 DEF Accept, ClientClose, BadFrame, ClosedAfterShutdown, LeaveStep, CloseScan, LeaveState,
     LeaveSrem, OnlineAfterLeave, LogoutErase, redisVars, dbVars
<1>6. ASSUME NEW n \in Nodes, SubStep(n) \/ CommandLinkLost(n) \/ SubscriberLost(n)
      PROVE  AwayInv'
  BY <1>1, <1>6 DEF SubStep, SubLookup, SubSend, CommandLinkLost, SubscriberLost, redisVars, dbVars
<1>7. ASSUME NEW n \in Nodes, Restart(n)
      PROVE  AwayInv'
  <2>1. UNCHANGED <<online, offline>>
    BY <1>7 DEF Restart, redisVars, dbVars
  <2>2. \A l \in Logins : \/ login'[l] = login[l]
                          \/ /\ login[l].conn # None
                             /\ login'[l] = [login[l] EXCEPT !.pc = "lost", !.batch = {}]
    BY <1>7 DEF Restart
  <2>3. \A l \in Logins : /\ login'[l].user = login[l].user
                          /\ login'[l].pc = "free" => login[l].pc = "free"
    BY <1>0, <2>2 DEF LoginRec
  <2>4. ASSUME NEW q \in Requests
        PROVE  req'[q] = req[q] \/ Treated(q)
    <3>1. \/ req'[q] = req[q]
          \/ req'[q].pc \in {"dropped", "lost"}
      BY <1>0, <1>7 DEF Restart, ReqRec
    <3> QED
      BY <3>1 DEF Treated, Past
  <2> QED
    BY <1>0, <2>1, <2>3, <2>4, AwayKeeps
<1>8. CASE UNCHANGED vars
  BY <1>1, <1>8 DEF vars, redisVars, dbVars
<1>9. ASSUME Next, ~UNCHANGED vars
      PROVE  AwayInv'
  <2>1. ASSUME NEW q \in Requests, StoreFails(q)
        PROVE  FALSE
    BY <1>9, <2>1
  <2> QED
    BY <1>2, <1>3, <1>4, <1>5, <1>6, <1>7, <1>9, <2>1 DEF Next, Server, Client, Fault
<1> QED
  BY <1>8, <1>9

LEMMA AwayGives == CoreInv /\ AwayInv => OfflineRecipientsStored
<1> SUFFICES ASSUME CoreInv, AwayInv, NEW q \in Requests, req[q].pc \in {"ack", "cache", "done"},
                    NEW u \in Receivers(req[q].msg), \A l \in Logins : login[l].user # u
             PROVE  [to |-> u, msg |-> req[q].msg] \in offline
  BY DEF OfflineRecipientsStored
<1>1. Kept(q, u) /\ ~Seen(u)
  BY DEF AwayInv, Past, Seen
<1>2. req[q].todo = {}
  BY DEF CoreInv, OnceInv, RouteInv
<1> QED
  BY <1>1, <1>2 DEF Kept, Row

(* As long as no INSERT fails, and through crashes and lost Redis links,   *)
(* an answered message with one receiver has its row in the offline table  *)
(* while that receiver has not tried to log in (01_create_tables.sql:87).  *)
THEOREM OfflineRecipientsStoredHolds ==
  ASSUME OneKeyEach, OneReceiver
  PROVE  Spec /\ [][\A q \in Requests : ~StoreFails(q)]_vars => []OfflineRecipientsStored
<1>1. Init => AwayInv
  <2> SUFFICES ASSUME Init PROVE AwayInv
    OBVIOUS
  <2> QED
    BY DEF Init, AwayInv, NoLogin, NoReq, Past
<1>2. CoreInv /\ CoreInv' /\ AwayInv /\ [Next]_vars /\ [\A q \in Requests : ~StoreFails(q)]_vars
      => AwayInv'
  BY AwayStep
<1>3. CoreInv /\ AwayInv => OfflineRecipientsStored
  BY AwayGives
<1> QED
  BY <1>1, <1>2, <1>3, CoreInvariant, PTL DEF Spec

=============================================================================
