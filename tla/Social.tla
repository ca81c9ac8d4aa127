------------------------------- MODULE Social -------------------------------
(* Registration, friends and groups: the handlers of chatservice.cpp that   *)
(* leave their work to threadpool_, the SQL of UserModel, FriendModel and   *)
(* GroupModel, and the connection pool of storage/mysql.  A statement, like *)
(* a section under the pool's mutex_, is one step.                          *)
EXTENDS Naturals, Sequences, FiniteSets

CONSTANTS
  Threads,     \* threads of threadpool_
  MaxSize,     \* connections the constructor of MysqlConnPool asks for
  Users, Groups,
  Registered,  \* users with a row from the beginning
  Requests, Scenarios,  \* the requests, and what they may be
  MaxFaults,   \* bound: connections lost, crashes and marks expired, in all
  None

Ops == {"reg", "addFriend", "delFriend", "createGroup", "addGroup", "quitGroup"}
Request == [op : Ops, a : Users, b : Users \cup Groups, times : Nat]
Conns == 1..MaxSize

ASSUME SocialAssumption ==
  /\ Registered \subseteq Users /\ Groups \subseteq Nat /\ MaxSize \in Nat \ {0}
  /\ None \notin Users \cup Nat \cup Requests \cup {"row", "creator", "normal"}
  /\ Users \cap Groups = {}
  /\ Scenarios \subseteq [Requests -> Request]
  /\ \A s \in Scenarios, r \in Requests :
       s[r].b \in IF s[r].op \in {"addGroup", "quitGroup"} THEN Groups ELSE Users
  /\ MaxFaults \in Nat

(* The tables: keys and what their rows hold.                               *)
User(n)      == <<"User", n>>
Friend(a, b) == <<"Friend", a, b>>
Group(g)     == <<"GroupInfo", g>>
Member(g, u) == <<"GroupMember", g, u>>

VARIABLES
  req,        \* what each request asks for, and how often it is transmitted
  sends,      \* how often it has been
  tasks,      \* the queue of threadpool_
  w,          \* what each thread does
  opened,     \* how many the constructor got
  pool,       \* connQueue_
  asleep,     \* threads that wait on cond_
  db,         \* the committed rows: a function from their keys
  tx,         \* the transaction of each connection
  nextGroup,  \* AUTO_INCREMENT of GroupInfo
  broken,     \* connections that are lost
  marks, acks,            \* the keys dedup:* and ack:* of Redis
  told,                   \* history: the ACKs
  applied,                \* history: executions whose change was committed
  cut,                    \* history: executions that lost their connection
  crashes, expired        \* history: crashes, and how often each mark went

sqlVars  == <<db, tx, nextGroup, broken>>
poolVars == <<opened, pool, asleep>>
redis    == <<marks, acks, expired>>
history  == <<told, applied, cut, crashes>>
vars == <<req, sends, tasks, w, poolVars, sqlVars, redis, history>>

Closed == [open |-> FALSE, writes |-> [k \in {} |-> None]]
Fresh(place, job) == [at |-> place, job |-> job, call |-> 1, stmt |-> 1, conn |-> None,
                      gid |-> 0, ok |-> TRUE, code |-> None]
Idle   == Fresh("idle", [req |-> None, n |-> 0])

InSeq(q) == {q[i] : i \in DOMAIN q}

\* The constructor stops at the first connection it does not get.  (Without
\* any, every handler would wait for ever.)
OpenPool(n, queue) == n \in Conns /\ queue = [i \in 1..n |-> i]

Init ==
  /\ req \in Scenarios
  /\ sends = [r \in Requests |-> 0] /\ tasks = <<>>
  /\ w = [t \in Threads |-> Idle]
  /\ OpenPool(opened, pool) /\ asleep = {}
  /\ db = [k \in {User(n) : n \in Registered} |-> "row"]
  /\ tx = [c \in Conns |-> Closed] /\ nextGroup = 1 /\ broken = {}
  /\ marks = {} /\ acks = [r \in Requests |-> None] /\ expired = [r \in Requests |-> 0]
  /\ told = {} /\ applied = {} /\ cut = {} /\ crashes = 0

-----------------------------------------------------------------------------
(* The functions of the models.  Each takes a connection and gives it back; *)
(* it looks for rows that all have to be there, or makes its changes in a   *)
(* transaction or by themselves.                                            *)

Insert(key, row) == [key |-> key, row |-> row]
Delete(key)      == [key |-> key, row |-> None]
Change(stmts)    == [kind |-> "txn", stmts |-> stmts]
Single(stmt)     == [kind |-> "auto", stmts |-> <<stmt>>]

QueryUser(n)  == {User(n)}
InsertUser(n) == Change(<<Insert(User(n), "row")>>)

InsertFriend(a, b) == Change(<<Insert(Friend(a, b), "row"), Insert(Friend(b, a), "row")>>)
RemoveFriend(a, b) == Change(<<Delete(Friend(a, b)), Delete(Friend(b, a))>>)

InsertGroupMut(g, a) == Change(<<Insert(Group(g), a)>>)  \* mutant: the creator is no member
InsertGroup(g, a)  == Change(<<Insert(Group(g), a), Insert(Member(g, a), "creator")>>)
InsertMember(g, u) == Single(Insert(Member(g, u), "normal"))
DeleteMember(g, u) == Single(Delete(Member(g, u)))
QueryGroups(g, u)  == {Group(g), Member(g, u)}  \* joins the two tables

-----------------------------------------------------------------------------
(* The tasks of the handlers: a search that ends the task with a code when  *)
(* it finds what it should not, or not what it should; then a change and    *)
(* the code for its failure.                                                *)

Unless(found, keys, code) == [kind |-> "find", keys |-> keys, found |-> found, code |-> code]
Else(change, code) == [kind |-> change.kind, stmts |-> change.stmts, code |-> code]

Reg(a)            == <<Unless(TRUE, QueryUser(a), 2), Else(InsertUser(a), 3)>>
AddFriend(a, b)   == <<Unless(FALSE, QueryUser(b), 1), Else(InsertFriend(a, b), 2)>>
DelFriend(a, b)   == <<Else(RemoveFriend(a, b), 1)>>
CreateGroup(a, g) == <<Else(InsertGroup(g, a), 1)>>
AddGroup(a, g)    == <<Unless(TRUE, QueryGroups(g, a), 2), Else(InsertMember(g, a), 1)>>
QuitGroup(a, g)   == <<Else(DeleteMember(g, a), 1)>>

Calls(op, a, b, g) == CASE op = "reg"         -> Reg(a)
                        [] op = "addFriend"   -> AddFriend(a, b)
                        [] op = "delFriend"   -> DelFriend(a, b)
                        [] op = "createGroup" -> CreateGroup(a, g)
                        [] op = "addGroup"    -> AddGroup(a, b)
                        [] op = "quitGroup"   -> QuitGroup(a, b)

JobReq(t) == req[w[t].job.req]
Plan(t)   == Calls(JobReq(t).op, JobReq(t).a, JobReq(t).b, w[t].gid)
Call(t)   == Plan(t)[w[t].call]

\* The id that INSERT INTO GroupInfo draws, and LAST_INSERT_ID() returns.
Draws(t) == w[t].stmt = 1 /\ JobReq(t).op = "createGroup"

-----------------------------------------------------------------------------
(* The I/O thread: addFriend and delFriend pass the idempotency gate.       *)

Gated(r) == req[r].op \in {"addFriend", "delFriend"}

PassesMut(r) == TRUE  \* mutant: no gate
Passes(r) == ~Gated(r) \/ r \notin marks

Transmit(r) ==
  /\ sends[r] < req[r].times
  /\ sends' = [sends EXCEPT ![r] = @ + 1]
  /\ IF Passes(r)
     THEN /\ marks' = IF Gated(r) THEN marks \cup {r} ELSE marks
          /\ tasks' = Append(tasks, [req |-> r, n |-> sends[r] + 1])
          /\ UNCHANGED told
     ELSE /\ told' = IF acks[r] = None THEN told ELSE told \cup {acks[r]}
          /\ UNCHANGED <<marks, tasks>>
  /\ UNCHANGED <<req, w, poolVars, sqlVars, acks, expired, applied, cut, crashes>>

TakeTask(t) ==
  /\ w[t].at = "idle" /\ tasks # <<>>
  /\ w' = [w EXCEPT ![t] = Fresh("get", Head(tasks))]
  /\ tasks' = Tail(tasks)
  /\ UNCHANGED <<req, sends, poolVars, sqlVars, redis, history>>

-----------------------------------------------------------------------------
(* DB::connect and the end of the DB object.                                *)

GetConnection(t) ==
  /\ w[t].at = "get" /\ t \notin asleep
  /\ IF pool = <<>>
     THEN asleep' = asleep \cup {t} /\ UNCHANGED <<pool, w>>
     ELSE /\ pool' = Tail(pool)
          /\ w' = [w EXCEPT ![t].conn = Head(pool),
                            ![t].at = IF Call(t).kind = "txn" THEN "begin" ELSE "run"]
          /\ UNCHANGED asleep
  /\ UNCHANGED <<req, sends, tasks, opened, sqlVars, redis, history>>

ReleaseConnection(t) ==
  /\ w[t].at = "release"
  /\ pool' = Append(pool, w[t].conn)
  /\ w' = [w EXCEPT ![t].conn = None, ![t].at = "notify"]
  /\ UNCHANGED <<req, sends, tasks, opened, asleep, sqlVars, redis, history>>

WokenMut == {asleep}  \* mutant: nobody is notified
Woken == IF asleep = {} THEN {{}} ELSE {asleep \ {t} : t \in asleep}

\* after the unlock; then the next call, if the code is still open
ReleaseNotifies(t) ==
  /\ w[t].at = "notify"
  /\ asleep' \in Woken
  /\ w' = [w EXCEPT ![t].at = IF w[t].code = None THEN "get" ELSE "reply",
                    ![t].call = IF w[t].code = None THEN 2 ELSE @]
  /\ UNCHANGED <<req, sends, tasks, opened, pool, sqlVars, redis, history>>

-----------------------------------------------------------------------------
(* Statements.  A lost connection fails every one of them, and stays in the *)
(* pool.                                                                    *)

\* A consistent read, of a committed state; a failed one finds nothing.
RunQuery(t) ==
  /\ w[t].at = "run" /\ Call(t).kind = "find"
  /\ LET found == w[t].conn \notin broken /\ Call(t).keys \subseteq DOMAIN db
     IN w' = [w EXCEPT ![t].at = "release",
                       ![t].code = IF found = Call(t).found THEN Call(t).code ELSE None]
  /\ UNCHANGED <<req, sends, tasks, poolVars, sqlVars, redis, history>>

StartTransaction(t) ==
  /\ w[t].at = "begin"
  /\ tx' = [tx EXCEPT ![w[t].conn].open = w[t].conn \notin broken]
  /\ w' = [w EXCEPT ![t].at = "run"]
  /\ UNCHANGED <<req, sends, tasks, poolVars, db, nextGroup, broken, redis, history>>

Stmt(t) == LET g == IF Draws(t) THEN nextGroup ELSE w[t].gid
           IN Calls(JobReq(t).op, JobReq(t).a, JobReq(t).b, g)[w[t].call].stmts[w[t].stmt]

\* What a connection sees of a key, and the row locks of the others.
Row(f, k) == IF k \in DOMAIN f THEN f[k] ELSE None
Seen(c, k) == IF k \in DOMAIN tx[c].writes THEN tx[c].writes[k] ELSE Row(db, k)
Blocked(c, k) == \E d \in Conns \ {c} : k \in DOMAIN tx[d].writes
With(f, k, v) == [x \in DOMAIN f \cup {k} |-> IF x = k THEN v ELSE f[x]]
Rows(f) == [k \in {x \in DOMAIN f : f[x] # None} |-> f[k]]

OutcomeMut(t, ok) == 0  \* mutant: what the statements returned is not looked at
Outcome(t, ok) == IF ok THEN 0 ELSE Call(t).code

FailsAtMut(t) == "run"  \* mutant: the second statement in spite of a failed first one
FailsAt(t) == "end"

\* Where a thread goes after a statement that succeeded or failed.
After(t, ok) ==
  LET more == w[t].stmt < Len(Call(t).stmts) IN
  w' = [w EXCEPT
    ![t].gid  = IF Draws(t) /\ ok THEN nextGroup ELSE @,
    ![t].stmt = IF more THEN @ + 1 ELSE @,
    ![t].ok   = ok,
    ![t].at   = IF Call(t).kind = "auto" THEN "release"
                ELSE IF more /\ ok THEN "run" ELSE IF more THEN FailsAt(t) ELSE "end",
    ![t].code = IF Call(t).kind # "auto" THEN @ ELSE Outcome(t, ok)]

Executing(t) == w[t].at = "run" /\ Call(t).kind # "find"

Free(t) == w[t].conn \notin broken /\ ~Blocked(w[t].conn, Stmt(t).key)
Duplicate(t) == Stmt(t).row # None /\ Seen(w[t].conn, Stmt(t).key) # None

\* In a transaction or, with autocommit, for good.
Write(t) == LET c == w[t].conn  s == Stmt(t) IN
  IF tx[c].open THEN tx' = [tx EXCEPT ![c].writes = With(@, s.key, s.row)] /\ UNCHANGED db
                ELSE db' = Rows(With(db, s.key, s.row)) /\ UNCHANGED tx

Execute(t) ==
  /\ Executing(t) /\ Free(t) /\ ~Duplicate(t)
  /\ Draws(t) => nextGroup \in Groups
  /\ Write(t)
  /\ nextGroup' = IF Draws(t) THEN nextGroup + 1 ELSE nextGroup
  /\ applied' = IF Call(t).kind = "auto" THEN applied \cup {w[t].job} ELSE applied
  /\ After(t, TRUE)
  /\ UNCHANGED <<req, sends, tasks, poolVars, broken, redis, told, cut, crashes>>

\* A lost connection, a key that exists, a wait for a lock that ends after
\* innodb_lock_wait_timeout, ...
StatementFails(t) ==
  /\ Executing(t) /\ (~Free(t) \/ Duplicate(t))
  /\ After(t, FALSE)
  /\ UNCHANGED <<req, sends, tasks, poolVars, sqlVars, redis, history>>

\* ... or a deadlock, which rolls back all of the transaction.
DeadlockVictim(t) ==
  /\ Executing(t) /\ w[t].conn \notin broken /\ tx[w[t].conn].open /\ ~Free(t)
  /\ tx' = [tx EXCEPT ![w[t].conn] = Closed]
  /\ After(t, FALSE)
  /\ UNCHANGED <<req, sends, tasks, poolVars, db, nextGroup, broken, redis, history>>

Ending(t, ok) == /\ w[t].at = "end" /\ w[t].ok = ok
                 /\ w' = [w EXCEPT ![t].at = "release", ![t].code = Outcome(t, ok)]
                 /\ UNCHANGED <<req, sends, tasks, poolVars, nextGroup, broken, redis, told, cut,
                                crashes>>

\* What COMMIT returns is not looked at.
Commit(t) ==
  /\ Ending(t, TRUE)
  /\ db' = Rows([k \in DOMAIN db \cup DOMAIN tx[w[t].conn].writes |-> Seen(w[t].conn, k)])
  /\ applied' = IF tx[w[t].conn].open THEN applied \cup {w[t].job} ELSE applied
  /\ tx' = [tx EXCEPT ![w[t].conn] = Closed]

RolledBackMut(t) == tx  \* mutant: the transaction of a failed statement stays open
RolledBack(t) == [tx EXCEPT ![w[t].conn] = Closed]

Rollback(t) ==
  /\ Ending(t, FALSE)
  /\ tx' = RolledBack(t)
  /\ UNCHANGED <<db, applied>>

-----------------------------------------------------------------------------
(* sendFrame, then cacheAck                                                 *)

Ack(t) == [job |-> w[t].job, code |-> w[t].code]

Reply(t) ==
  /\ w[t].at = "reply"
  /\ told' = told \cup {Ack(t)}
  /\ w' = [w EXCEPT ![t] = IF Gated(@.job.req) THEN [@ EXCEPT !.at = "cache"] ELSE Idle]
  /\ UNCHANGED <<req, sends, tasks, poolVars, sqlVars, redis, applied, cut, crashes>>

CacheAck(t) ==
  /\ w[t].at = "cache"
  /\ acks' = [acks EXCEPT ![w[t].job.req] = Ack(t)]
  /\ w' = [w EXCEPT ![t] = Idle]
  /\ UNCHANGED <<req, sends, tasks, poolVars, sqlVars, marks, expired, history>>

-----------------------------------------------------------------------------
(* Faults                                                                   *)

MayFail == Cardinality(broken) + crashes + Cardinality({r \in Requests : expired[r] > 0}) < MaxFaults

Holders(c) == {t \in Threads : w[t].conn = c}
JobsOn(c)  == {w[t].job : t \in Holders(c)}

\* A connection is lost, and with it its transaction; the client library
\* does not connect again.
Break(c) ==
  /\ MayFail /\ c \notin broken
  /\ broken' = broken \cup {c}
  /\ tx' = [tx EXCEPT ![c] = Closed]
  /\ cut' = cut \cup JobsOn(c)
  /\ UNCHANGED <<req, sends, tasks, w, poolVars, db, nextGroup, redis, told, applied, crashes>>

\* ... after the server has done what the statement asks and before it says so.
LostReply(t) ==
  /\ Executing(t) /\ Call(t).kind = "auto" /\ Free(t) /\ ~Duplicate(t)
  /\ MayFail
  /\ Write(t)
  /\ broken' = broken \cup {w[t].conn}
  /\ cut' = cut \cup {w[t].job}
  /\ applied' = applied \cup {w[t].job}
  /\ After(t, FALSE)
  /\ UNCHANGED <<req, sends, tasks, poolVars, nextGroup, redis, told, crashes>>

\* The node ends and is started again; MySQL rolls back, Redis keeps its keys.
Crash ==
  /\ MayFail
  /\ crashes' = crashes + 1
  /\ tasks' = <<>> /\ w' = [t \in Threads |-> Idle]
  /\ OpenPool(opened', pool') /\ asleep' = {} /\ broken' = {}
  /\ tx' = [c \in Conns |-> Closed]
  /\ UNCHANGED <<req, sends, db, nextGroup, redis, told, applied, cut>>

\* Ten minutes after the request, when no task of it is left.  The ACK was
\* cached later than the mark was set.
Expire(r) ==
  /\ r \in marks /\ MayFail
  /\ \A t \in Threads : w[t].job.req # r
  /\ \A i \in DOMAIN tasks : tasks[i].req # r
  /\ marks' = marks \ {r}
  /\ \E a \in {acks[r], None} : acks' = [acks EXCEPT ![r] = a]
  /\ expired' = [expired EXCEPT ![r] = @ + 1]
  /\ UNCHANGED <<req, sends, tasks, w, poolVars, sqlVars, history>>

ThreadStep(t) ==
  \/ TakeTask(t) \/ GetConnection(t) \/ ReleaseConnection(t) \/ ReleaseNotifies(t)
  \/ RunQuery(t) \/ StartTransaction(t) \/ Execute(t) \/ StatementFails(t) \/ DeadlockVictim(t)
  \/ Commit(t) \/ Rollback(t) \/ Reply(t) \/ CacheAck(t)

Next ==
  \/ \E r \in Requests : Transmit(r) \/ Expire(r)
  \/ \E t \in Threads : ThreadStep(t) \/ LostReply(t)
  \/ \E c \in Conns : Break(c)
  \/ Crash

Spec == Init /\ [][Next]_vars

\* Threads keep running, and a statement ends: InnoDB ends every lock wait.
FairSpec == Spec /\ \A t \in Threads : WF_vars(ThreadStep(t))

-----------------------------------------------------------------------------
(* Properties *)

\* Friendship is mutual and never with oneself, whichever way two users add
\* and delete each other at the same time and whatever fails
\* (FriendModel.cpp:3).
FriendsSymmetric ==
  \A a, b \in Users : Friend(a, b) \in DOMAIN db => a # b /\ Friend(b, a) \in DOMAIN db

\* A group's creator is a member in that role until he has quit, also when
\* he or others had joined the id before the group was created; nobody else
\* has the role.
CreatorIsMember ==
  \A g \in Groups, u \in Users :
    /\ Row(db, Group(g)) = u =>
         \/ Row(db, Member(g, u)) = "creator"
         \/ \E j \in applied : req[j.req].op = "quitGroup" /\ req[j.req].a = u /\ req[j.req].b = g
    /\ Row(db, Member(g, u)) = "creator" => Row(db, Group(g)) = u

\* A connection is in the pool or has one holder, and when it is in the pool
\* no transaction is left open on it.
PoolSound ==
  /\ \A i, j \in DOMAIN pool : pool[i] = pool[j] => i = j
  /\ \A c \in 1..opened : /\ Cardinality(Holders(c)) <= 1
                          /\ c \in InSeq(pool) <=> Holders(c) = {}
                          /\ c \in InSeq(pool) => tx[c] = Closed

\* An ACK says success exactly when the execution it answers for was
\* committed, unless that one lost its connection (what COMMIT returns is not
\* looked at, and the reply of a statement may get lost).
AckTrue ==
  \A m \in told : m.job \notin cut => (m.code = 0 <=> m.job \in applied)

\* One registration of a name goes through, whoever found the name free; a
\* friend request goes through once, but for a transmission that comes after
\* its mark has expired.
AppliedOnce ==
  /\ \A i, j \in {x \in applied : req[x.req].op = "reg"} : req[i.req].a = req[j.req].a => i = j
  /\ \A r \in Requests :
       Gated(r) => Cardinality({j \in applied : j.req = r}) <= 1 + expired[r]

\* Every request is answered, however few connections there are and however
\* the waits for connections and for row locks meet, unless the node ends.
Answered ==
  \A r \in Requests : sends[r] > 0 ~> crashes > 0 \/ \E m \in told : m.job.req = r
=============================================================================
