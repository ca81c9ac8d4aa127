----------------------------- MODULE SocialProofs -----------------------------
(* Proofs about Social for any number of threads, connections, users and    *)
(* requests: the connection pool is sound, friendship is mutual, the creator *)
(* of a group is its member, an ACK tells the truth and nothing that may     *)
(* happen once happens twice.                                                *)
EXTENDS Social, SequenceTheorems, FiniteSetTheorems, TLAPS

-----------------------------------------------------------------------------
(* What the plans of the handlers are made of                               *)

\* The operations that look for rows first, and the kind of each call.
Two(op) == op \in {"reg", "addFriend", "addGroup"}
KindOf(op, n) == IF Two(op) /\ n = 1 THEN "find"
                 ELSE IF op \in {"addGroup", "quitGroup"} THEN "auto" ELSE "txn"
OnFriends(op) == op \in {"addFriend", "delFriend"}
CountOf(op)   == IF OnFriends(op) \/ op = "createGroup" THEN 2 ELSE 1
RowOf(op)     == IF op = "addFriend" THEN "row" ELSE None

NoFriend(k) == \A a, b \in Users : k # Friend(a, b)

LEMMA KindLemma ==
  ASSUME NEW op \in Ops, NEW a, NEW b, NEW g, NEW n \in {1, 2}, n = 2 => Two(op)
  PROVE  /\ Calls(op, a, b, g)[n].kind = KindOf(op, n)
         /\ Calls(op, a, b, g)[n].code \in Nat \ {0}
<1>1. CASE op = "reg"
  BY <1>1 DEF Calls, Reg, Unless, Else, InsertUser, Change, KindOf, Two
<1>2. CASE op = "addFriend"
  BY <1>2 DEF Calls, AddFriend, Unless, Else, InsertFriend, Change, KindOf, Two
<1>3. CASE op = "delFriend"
  BY <1>3 DEF Calls, DelFriend, Else, RemoveFriend, Change, KindOf, Two
<1>4. CASE op = "createGroup"
  BY <1>4 DEF Calls, CreateGroup, Else, InsertGroup, Change, KindOf, Two
<1>5. CASE op = "addGroup"
  BY <1>5 DEF Calls, AddGroup, Unless, Else, InsertMember, Single, KindOf, Two
<1>6. CASE op = "quitGroup"
  BY <1>6 DEF Calls, QuitGroup, Else, DeleteMember, Single, KindOf, Two
<1> QED
  BY <1>1, <1>2, <1>3, <1>4, <1>5, <1>6 DEF Ops

\* A friend transaction writes the two rows of a pair, and nobody else any.
LEMMA KeyLemma ==
  ASSUME NEW x, NEW y
  PROVE  NoFriend(User(x)) /\ NoFriend(Group(x)) /\ NoFriend(Member(x, y))
<1>1. ASSUME NEW a \in Users, NEW b \in Users
      PROVE  User(x) # Friend(a, b) /\ Group(x) # Friend(a, b) /\ Member(x, y) # Friend(a, b)
  <2>1. /\ User(x)[1] = "User" /\ Group(x)[1] = "GroupInfo" /\ Member(x, y)[1] = "GroupMember"
        /\ Friend(a, b)[1] = "Friend"
    BY DEF User, Group, Member, Friend
  <2> QED
    BY <2>1
<1> QED
  BY <1>1 DEF NoFriend

LEMMA StmtLemma ==
  ASSUME NEW op \in Ops, NEW a \in Users, NEW b, NEW g, NEW n \in {1, 2},
         n = 2 => Two(op), KindOf(op, n) # "find"
  PROVE  LET stmts == Calls(op, a, b, g)[n].stmts IN
         /\ Len(stmts) = CountOf(op)
         /\ OnFriends(op) =>
              /\ stmts[1].key = Friend(a, b) /\ stmts[2].key = Friend(b, a)
              /\ stmts[1].row = RowOf(op) /\ stmts[2].row = RowOf(op)
         /\ ~OnFriends(op) => \A i \in 1 .. Len(stmts) : NoFriend(stmts[i].key)
<1>1. CASE op = "reg"
  BY <1>1, KeyLemma DEF Calls, Reg, Unless, Else, InsertUser, Change, KindOf, Two, OnFriends, CountOf, RowOf, Insert
<1>2. CASE op = "addFriend"
  BY <1>2 DEF Calls, AddFriend, Unless, Else, InsertFriend, Change, KindOf, Two, OnFriends, CountOf, RowOf, Insert
<1>3. CASE op = "delFriend"
  BY <1>3 DEF Calls, DelFriend, Else, RemoveFriend, Change, KindOf, Two, OnFriends, CountOf, RowOf, Delete
<1>4. CASE op = "createGroup"
  <2>1. Calls(op, a, b, g)[n].stmts = <<Insert(Group(g), a), Insert(Member(g, a), "creator")>>
    BY <1>4 DEF Calls, CreateGroup, Else, InsertGroup, Change, Two
  <2>2. NoFriend(Group(g)) /\ NoFriend(Member(g, a))
    BY KeyLemma
  <2> DEFINE stmts == Calls(op, a, b, g)[n].stmts
  <2>3. /\ Len(stmts) = 2
        /\ stmts[1].key = Group(g) /\ stmts[2].key = Member(g, a)
    BY <2>1 DEF Insert
  <2> HIDE DEF stmts
  <2>4. /\ \A i \in 1 .. Len(stmts) : i = 1 \/ i = 2
        /\ CountOf(op) = 2 /\ ~OnFriends(op)
    BY <1>4, <2>3 DEF CountOf, OnFriends
  <2>5. \A i \in 1 .. Len(stmts) : NoFriend(stmts[i].key)
    BY <2>2, <2>3, <2>4
  <2> QED
    BY <2>3, <2>4, <2>5 DEF stmts
<1>5. CASE op = "addGroup"
  BY <1>5, KeyLemma DEF Calls, AddGroup, Unless, Else, InsertMember, Single, KindOf, Two, OnFriends, CountOf, RowOf, Insert
<1>6. CASE op = "quitGroup"
  BY <1>6, KeyLemma DEF Calls, QuitGroup, Else, DeleteMember, Single, KindOf, Two, OnFriends, CountOf, RowOf, Delete
<1> QED
  BY <1>1, <1>2, <1>3, <1>4, <1>5, <1>6 DEF Ops

-----------------------------------------------------------------------------
(* The invariant                                                            *)

Places == {"idle", "get", "begin", "run", "end", "release", "notify", "reply", "cache"}
Jobs   == [req : Requests, n : Nat]
Work   == [at : Places, job : [req : Requests \cup {None}, n : Nat], call : {1, 2},
           stmt : Nat \ {0}, conn : Conns \cup {None}, gid : Nat, ok : BOOLEAN,
           code : Nat \cup {None}]

Op(t)   == JobReq(t).op
Kind(t) == KindOf(Op(t), w[t].call)

WorkInv ==
  /\ w \in [Threads -> Work] /\ tasks \in Seq(Jobs)
  /\ req \in Scenarios /\ sends \in [Requests -> Nat] /\ nextGroup \in Nat

\* What a thread at each place does, and that it has a connection there.
StepInv(t) ==
  /\ w[t].at # "idle" => w[t].job.req \in Requests
  /\ w[t].call = 2 => Two(Op(t))
  /\ w[t].at \in {"release", "notify"} /\ w[t].code = None =>
       w[t].call = 1 /\ Two(Op(t)) /\ w[t].stmt = 1
  /\ w[t].at = "get" \/ (w[t].at = "run" /\ Kind(t) # "txn") => w[t].stmt = 1
  /\ w[t].at = "begin" => Kind(t) = "txn" /\ w[t].stmt = 1
  /\ w[t].at = "end" => Kind(t) = "txn"
  /\ w[t].at = "run" /\ Kind(t) # "find" => w[t].stmt <= CountOf(Op(t))
  /\ w[t].conn # None <=> w[t].at \in {"begin", "run", "end", "release"}

Distinct(q) == \A i, j \in DOMAIN q : q[i] = q[j] => i = j

\* A connection is in the pool or with one thread.
PoolInv ==
  /\ opened \in Conns /\ pool \in Seq(1 .. opened) /\ Distinct(pool)
  /\ \A t \in Threads : w[t].conn # None => w[t].conn \in (1 .. opened) \ InSeq(pool)
  /\ \A t, u \in Threads : t # u /\ w[t].conn = w[u].conn => w[t].conn = None
  /\ \A c \in 1 .. opened : c \in InSeq(pool) \/ \E t \in Threads : w[t].conn = c

Mutual(D) == \A a, b \in Users : Friend(a, b) \in D => a # b /\ Friend(b, a) \in D
Paired(f) == \A a, b \in Users : Friend(a, b) \in DOMAIN f =>
               /\ Friend(b, a) \in DOMAIN f /\ f[Friend(a, b)] = f[Friend(b, a)]
               /\ f[Friend(a, b)] # None => a # b

\* What a transaction has written before its next statement.
Before(t, f) ==
  IF OnFriends(Op(t))
  THEN LET k == Friend(JobReq(t).a, JobReq(t).b) IN
       IF w[t].stmt = 1 THEN DOMAIN f = {}
                        ELSE DOMAIN f = {k} /\ f[k] = RowOf(Op(t))
  ELSE \A k \in DOMAIN f : NoFriend(k)

\* The transaction of the connection of a thread.
TxInv(t) ==
  LET x == tx[w[t].conn] IN
  /\ w[t].at \in {"begin", "release"} => x = Closed
  /\ w[t].at = "run" => \/ x = Closed /\ (Kind(t) = "txn" => w[t].conn \in broken)
                        \/ x.open = TRUE /\ Kind(t) = "txn" /\ Before(t, x.writes)
  /\ w[t].at = "end" /\ w[t].ok => Paired(x.writes)

SqlInv ==
  /\ tx = [c \in Conns |-> [open |-> tx[c].open, writes |-> tx[c].writes]]
  /\ \A c \in InSeq(pool) : tx[c] = Closed
  /\ \A k \in DOMAIN db : db[k] # None
  /\ Mutual(DOMAIN db)

IInv == /\ WorkInv /\ PoolInv /\ SqlInv
        /\ \A t \in Threads : StepInv(t) /\ TxInv(t)

LEMMA CallLemma ==
  ASSUME WorkInv, NEW t \in Threads, StepInv(t), w[t].at # "idle"
  PROVE  /\ Op(t) \in Ops /\ JobReq(t).a \in Users
         /\ OnFriends(Op(t)) => JobReq(t).b \in Users
         /\ Call(t).kind = Kind(t) /\ Call(t).code \in Nat \ {0}
<1>1. w[t].job.req \in Requests /\ w[t].call \in {1, 2} /\ (w[t].call = 2 => Two(Op(t)))
  BY DEF WorkInv, StepInv, Work
<1>2. JobReq(t) \in Request /\ (OnFriends(Op(t)) => JobReq(t).b \in Users)
  BY <1>1, SocialAssumption DEF WorkInv, JobReq, Op, OnFriends
<1>3. Op(t) \in Ops /\ JobReq(t).a \in Users
  BY <1>2 DEF Request, Op
<1> QED
  BY <1>1, <1>2, <1>3, KindLemma DEF Call, Plan, Kind, Op

-----------------------------------------------------------------------------
(* What a step that changes one thread leaves alone                         *)

LEMMA Others ==
  ASSUME IInv, NEW t \in Threads, \A u \in Threads : u # t => w'[u] = w[u],
         req' = req, StepInv(t)'
  PROVE  /\ \A u \in Threads : StepInv(u)'
         /\ \A u \in Threads : w'[u] = w[u] => Op(u)' = Op(u) /\ Kind(u)' = Kind(u)
                                               /\ JobReq(u)' = JobReq(u)
<1>1. ASSUME NEW u \in Threads, w'[u] = w[u]
      PROVE  Op(u)' = Op(u) /\ Kind(u)' = Kind(u) /\ JobReq(u)' = JobReq(u)
  BY <1>1 DEF Op, Kind, JobReq
<1>2. ASSUME NEW u \in Threads, u # t PROVE StepInv(u)'
  BY <1>1, <1>2 DEF IInv, StepInv
<1> QED
  BY <1>1, <1>2

LEMMA SamePool ==
  ASSUME IInv, \A u \in Threads : w'[u].conn = w[u].conn, pool' = pool, opened' = opened
  PROVE  PoolInv'
BY DEF IInv, PoolInv

\* Nobody else uses the connection of a thread.
LEMMA Private ==
  ASSUME IInv, NEW t \in Threads, w[t].conn # None
  PROVE  /\ w[t].conn \in Conns /\ w[t].conn \notin InSeq(pool)
         /\ \A u \in Threads : u # t => w[u].conn # w[t].conn
<1>1. w[t].conn \in (1 .. opened) \ InSeq(pool) /\ opened \in Conns
  BY DEF IInv, PoolInv
<1>2. MaxSize \in Nat /\ 1 .. opened \subseteq Conns
  BY <1>1, SocialAssumption DEF Conns
<1> QED
  BY <1>1, <1>2 DEF IInv, PoolInv

LEMMA OtherTx ==
  ASSUME IInv, NEW u \in Threads, w'[u] = w[u], req' = req,
         w[u].conn # None =>
           \/ tx'[w[u].conn] = tx[w[u].conn] /\ (w[u].conn \in broken => w[u].conn \in broken')
           \/ tx'[w[u].conn] = Closed /\ w[u].conn \in broken'
  PROVE  TxInv(u)'
<1>1. Op(u)' = Op(u) /\ Kind(u)' = Kind(u) /\ JobReq(u)' = JobReq(u)
  BY DEF Op, Kind, JobReq
<1>3. TxInv(u) /\ StepInv(u)
  BY DEF IInv
<1>4. Paired(Closed.writes)
  BY DEF Paired, Closed
<1>5. CASE w[u].conn = None
  BY <1>3, <1>5 DEF TxInv, StepInv
<1>6. CASE /\ w[u].conn # None /\ tx'[w[u].conn] = tx[w[u].conn]
           /\ w[u].conn \in broken => w[u].conn \in broken'
  <2>1. Before(u, tx[w[u].conn].writes) => Before(u, tx[w[u].conn].writes)'
    BY <1>1, <1>6 DEF Before
  <2> QED
    BY <1>1, <1>3, <1>6, <2>1 DEF TxInv
<1>7. CASE w[u].conn # None /\ tx'[w[u].conn] = Closed /\ w[u].conn \in broken'
  BY <1>4, <1>7 DEF TxInv
<1> QED
  BY <1>5, <1>6, <1>7

\* A step of a thread that changes neither its connection nor the database.
LEMMA PlainStep ==
  ASSUME IInv, NEW t \in Threads, WorkInv', StepInv(t)', TxInv(t)',
         \A u \in Threads : u # t => w'[u] = w[u], w'[t].conn = w[t].conn,
         UNCHANGED <<req, pool, opened, db, tx, broken>>
  PROVE  IInv'
<1>1. \A u \in Threads : StepInv(u)'
  BY Others
<1>2. \A u \in Threads : u # t => TxInv(u)'
  BY OtherTx
<1>3. PoolInv'
  BY SamePool
<1>4. SqlInv'
  BY DEF IInv, SqlInv
<1> QED
  BY <1>1, <1>2, <1>3, <1>4 DEF IInv
\* Updates of the record of a thread.
LEMMA Update ==
  ASSUME WorkInv, NEW t \in Threads, NEW r \in Work, w' = [w EXCEPT ![t] = r]
  PROVE  w' \in [Threads -> Work] /\ w'[t] = r /\ \A u \in Threads : u # t => w'[u] = w[u]
BY DEF WorkInv

LEMMA UpdateCode ==
  ASSUME WorkInv, NEW t \in Threads, NEW x \in Places, NEW y \in Nat \cup {None},
         w' = [w EXCEPT ![t].at = x, ![t].code = y]
  PROVE  /\ w' \in [Threads -> Work] /\ \A u \in Threads : u # t => w'[u] = w[u]
         /\ w'[t].at = x /\ w'[t].code = y /\ w'[t].job = w[t].job /\ w'[t].call = w[t].call
         /\ w'[t].conn = w[t].conn /\ w'[t].stmt = w[t].stmt
BY DEF WorkInv, Work

LEMMA UpdateCall ==
  ASSUME WorkInv, NEW t \in Threads, NEW x \in Places, NEW y \in {1, 2},
         w' = [w EXCEPT ![t].at = x, ![t].call = y]
  PROVE  /\ w' \in [Threads -> Work] /\ \A u \in Threads : u # t => w'[u] = w[u]
         /\ w'[t].at = x /\ w'[t].call = y /\ w'[t].job = w[t].job
         /\ w'[t].conn = w[t].conn /\ w'[t].stmt = w[t].stmt
BY DEF WorkInv, Work

LEMMA UpdateAt ==
  ASSUME WorkInv, NEW t \in Threads, NEW x \in Places, w' = [w EXCEPT ![t].at = x]
  PROVE  /\ w' \in [Threads -> Work] /\ \A u \in Threads : u # t => w'[u] = w[u]
         /\ w'[t].at = x /\ w'[t].call = w[t].call /\ w'[t].job = w[t].job
         /\ w'[t].conn = w[t].conn /\ w'[t].stmt = w[t].stmt
BY DEF WorkInv, Work

LEMMA UpdateConn ==
  ASSUME WorkInv, NEW t \in Threads, NEW x \in Places, NEW c \in Conns \cup {None},
         w' = [w EXCEPT ![t].conn = c, ![t].at = x]
  PROVE  /\ w' \in [Threads -> Work] /\ \A u \in Threads : u # t => w'[u] = w[u]
         /\ w'[t].at = x /\ w'[t].call = w[t].call /\ w'[t].job = w[t].job
         /\ w'[t].conn = c /\ w'[t].stmt = w[t].stmt /\ w'[t].code = w[t].code
BY DEF WorkInv, Work

-----------------------------------------------------------------------------
(* Steps of the I/O thread and of a thread outside its transactions         *)

LEMMA TransmitStep ==
  ASSUME IInv, NEW r \in Requests, Transmit(r) PROVE IInv'
<1>1. /\ sends' = [sends EXCEPT ![r] = @ + 1] /\ sends[r] + 1 \in Nat
      /\ UNCHANGED <<req, w, poolVars, sqlVars>>
  BY DEF Transmit, IInv, WorkInv
<1>2. tasks' \in Seq(Jobs)
  <2>1. [req |-> r, n |-> sends[r] + 1] \in Jobs
    BY <1>1 DEF Jobs
  <2>2. tasks' = tasks \/ tasks' = Append(tasks, [req |-> r, n |-> sends[r] + 1])
    BY DEF Transmit
  <2>3. tasks \in Seq(Jobs)
    BY DEF IInv, WorkInv
  <2>4. Append(tasks, [req |-> r, n |-> sends[r] + 1]) \in Seq(Jobs)
    BY <2>1, <2>3, AppendProperties
  <2> QED
    BY <2>2, <2>3, <2>4
<1>3. WorkInv'
  BY <1>1, <1>2 DEF IInv, WorkInv, sqlVars
<1>4. PoolInv' /\ SqlInv'
  BY <1>1, SamePool DEF IInv, SqlInv, poolVars, sqlVars
<1>5. \A t \in Threads : StepInv(t)' /\ TxInv(t)'
  BY <1>1 DEF IInv, StepInv, TxInv, Before, Op, Kind, JobReq, sqlVars
<1> QED
  BY <1>3, <1>4, <1>5 DEF IInv

LEMMA TakeStep ==
  ASSUME IInv, NEW t \in Threads, TakeTask(t) PROVE IInv'
<1>1. Head(tasks) \in Jobs /\ tasks' \in Seq(Jobs)
  BY HeadTailProperties DEF TakeTask, IInv, WorkInv
<1>4. /\ w' \in [Threads -> Work] /\ \A u \in Threads : u # t => w'[u] = w[u]
      /\ w'[t].at = "get" /\ w'[t].job = Head(tasks) /\ w'[t].call = 1 /\ w'[t].conn = None
      /\ w'[t].stmt = 1
  <2>1. Head(tasks) \in [req : Requests \cup {None}, n : Nat] /\ "get" \in Places
    BY <1>1 DEF Jobs, Places
  <2>2. Fresh("get", Head(tasks)) \in Work
    BY <2>1 DEF Work, Fresh
  <2>3. /\ w' \in [Threads -> Work] /\ w'[t] = Fresh("get", Head(tasks))
        /\ \A u \in Threads : u # t => w'[u] = w[u]
    BY <2>2, Update DEF TakeTask, IInv
  <2> QED
    BY <2>3 DEF Fresh
<1>5. UNCHANGED <<req, sends, poolVars, sqlVars>>
  BY DEF TakeTask
<1>6. WorkInv'
  BY <1>1, <1>4, <1>5 DEF IInv, WorkInv, sqlVars
<1>7. StepInv(t)' /\ TxInv(t)'
  BY <1>1, <1>4 DEF StepInv, TxInv, Jobs
<1>8. w[t].conn = None
  BY DEF TakeTask, IInv, StepInv
<1> QED
  BY <1>4, <1>5, <1>6, <1>7, <1>8, PlainStep DEF poolVars, sqlVars

LEMMA NotifyStep ==
  ASSUME IInv, NEW t \in Threads, ReleaseNotifies(t) PROVE IInv'
<1>1. /\ w' \in [Threads -> Work] /\ \A u \in Threads : u # t => w'[u] = w[u]
      /\ w'[t].at = IF w[t].code = None THEN "get" ELSE "reply"
      /\ w'[t].call = IF w[t].code = None THEN 2 ELSE w[t].call
      /\ w'[t].job = w[t].job /\ w'[t].conn = w[t].conn /\ w'[t].stmt = w[t].stmt
  <2>1. w[t].call \in {1, 2}
    BY DEF IInv, WorkInv, Work
  <2>2. "get" \in Places /\ "reply" \in Places
    BY DEF Places
  <2>3. CASE w[t].code = None
    <3>1. w' = [w EXCEPT ![t].at = "get", ![t].call = 2]
      BY <2>3 DEF ReleaseNotifies
    <3> QED
      <4>1. WorkInv /\ "get" \in Places /\ 2 \in {1, 2}
        BY <2>2 DEF IInv
      <4>2. /\ w' \in [Threads -> Work] /\ \A u \in Threads : u # t => w'[u] = w[u]
            /\ w'[t].at = "get" /\ w'[t].call = 2 /\ w'[t].job = w[t].job
            /\ w'[t].conn = w[t].conn /\ w'[t].stmt = w[t].stmt
        BY <3>1, <4>1, UpdateCall
      <4> QED
        BY <2>3, <4>2
  <2>4. CASE w[t].code # None
    <3>1. w' = [w EXCEPT ![t].at = "reply", ![t].call = w[t].call]
      BY <2>4 DEF ReleaseNotifies
    <3> QED
      <4>1. WorkInv /\ "reply" \in Places /\ w[t].call \in {1, 2}
        BY <2>1, <2>2 DEF IInv
      <4>2. /\ w' \in [Threads -> Work] /\ \A u \in Threads : u # t => w'[u] = w[u]
            /\ w'[t].at = "reply" /\ w'[t].call = w[t].call /\ w'[t].job = w[t].job
            /\ w'[t].conn = w[t].conn /\ w'[t].stmt = w[t].stmt
        BY <3>1, <4>1, UpdateCall
      <4> QED
        BY <2>4, <4>2
  <2> QED
    BY <2>3, <2>4
<1>2. UNCHANGED <<req, sends, tasks, opened, pool, sqlVars>>
  BY DEF ReleaseNotifies
<1>3. WorkInv'
  BY <1>1, <1>2 DEF IInv, WorkInv, sqlVars
<1>4. w[t].at = "notify" /\ StepInv(t)
  BY DEF ReleaseNotifies, IInv
<1>5. Op(t)' = Op(t)
  BY <1>1, <1>2 DEF Op, JobReq
<1>6. StepInv(t)' /\ TxInv(t)'
  BY <1>1, <1>4, <1>5 DEF StepInv, TxInv
<1> QED
  BY <1>1, <1>2, <1>3, <1>6, PlainStep DEF sqlVars

LEMMA QueryStep ==
  ASSUME IInv, NEW t \in Threads, RunQuery(t) PROVE IInv'
<1>1. StepInv(t) /\ TxInv(t) /\ w[t].at = "run" /\ WorkInv
  BY DEF RunQuery, IInv
<1>2. Kind(t) = "find" /\ Call(t).code \in Nat \ {0}
  BY <1>1, CallLemma DEF RunQuery
<1>3. PICK code \in Nat \cup {None} : w' = [w EXCEPT ![t].at = "release", ![t].code = code]
  BY <1>2 DEF RunQuery
<1>4. /\ w' \in [Threads -> Work] /\ \A u \in Threads : u # t => w'[u] = w[u]
      /\ w'[t].at = "release" /\ w'[t].call = w[t].call
      /\ w'[t].job = w[t].job /\ w'[t].conn = w[t].conn /\ w'[t].stmt = w[t].stmt
  <2>1. "release" \in Places
    BY DEF Places
  <2> QED
    BY <1>1, <1>3, <2>1, UpdateCode
<1>5. UNCHANGED <<req, sends, tasks, poolVars, sqlVars>>
  BY DEF RunQuery
<1>6. WorkInv'
  BY <1>1, <1>4, <1>5 DEF WorkInv, sqlVars
<1>7. Op(t)' = Op(t)
  BY <1>4, <1>5 DEF Op, JobReq
<1>8. w[t].call = 1 /\ Two(Op(t)) /\ tx[w[t].conn] = Closed /\ w[t].stmt = 1
  <2>1. Kind(t) # "txn"
    BY <1>2
  <2>2. w[t].call \in {1, 2}
    BY <1>1 DEF WorkInv, Work
  <2>3. w[t].call = 1 /\ Two(Op(t))
    BY <1>2, <2>2 DEF Kind, KindOf
  <2> QED
    BY <1>1, <2>1, <2>3 DEF TxInv, StepInv
<1>9. StepInv(t)' /\ TxInv(t)'
  BY <1>1, <1>4, <1>5, <1>7, <1>8 DEF StepInv, TxInv, sqlVars
<1> QED
  BY <1>4, <1>5, <1>6, <1>9, PlainStep DEF sqlVars, poolVars

LEMMA ReplyStep ==
  ASSUME IInv, NEW t \in Threads, Reply(t) \/ CacheAck(t) PROVE IInv'
<1>1. StepInv(t) /\ w[t].at \in {"reply", "cache"} /\ WorkInv
  BY DEF Reply, CacheAck, IInv
<1>2. Idle \in Work
  BY DEF Idle, Fresh, Work, Places
<1>3. w' = [w EXCEPT ![t] = Idle] \/ w' = [w EXCEPT ![t].at = "cache"]
  BY <1>1 DEF Reply, CacheAck, WorkInv
<1>4. /\ w' \in [Threads -> Work] /\ \A u \in Threads : u # t => w'[u] = w[u]
      /\ \/ w'[t] = Idle
         \/ /\ w'[t].at = "cache" /\ w'[t].call = w[t].call
            /\ w'[t].job = w[t].job /\ w'[t].conn = w[t].conn
  <2>1. "cache" \in Places
    BY DEF Places
  <2>2. CASE w' = [w EXCEPT ![t] = Idle]
    BY <1>1, <1>2, <2>2, Update
  <2>3. CASE w' = [w EXCEPT ![t].at = "cache"]
    BY <1>1, <2>1, <2>3, UpdateAt
  <2> QED
    BY <1>3, <2>2, <2>3
<1>5. UNCHANGED <<req, sends, tasks, poolVars, sqlVars>>
  BY DEF Reply, CacheAck
<1>6. WorkInv'
  BY <1>1, <1>4, <1>5 DEF WorkInv, sqlVars
<1>7. w'[t].conn = w[t].conn
  BY <1>1, <1>4 DEF StepInv, Idle, Fresh
<1>8. w'[t].job = w[t].job => Op(t)' = Op(t)
  BY <1>5 DEF Op, JobReq
<1>9. StepInv(t)' /\ TxInv(t)'
  BY <1>1, <1>4, <1>7, <1>8 DEF StepInv, TxInv, Idle, Fresh
<1> QED
  BY <1>4, <1>5, <1>6, <1>7, <1>9, PlainStep DEF sqlVars, poolVars

-----------------------------------------------------------------------------
(* Connections come and go                                                  *)

LEMMA AppendSet ==
  ASSUME NEW S, NEW q \in Seq(S), NEW x \in S
  PROVE  /\ Append(q, x) \in Seq(S) /\ InSeq(Append(q, x)) = InSeq(q) \cup {x}
         /\ Distinct(q) /\ x \notin InSeq(q) => Distinct(Append(q, x))
<1>1. /\ DOMAIN q = 1 .. Len(q) /\ DOMAIN Append(q, x) = 1 .. Len(q) + 1
      /\ Len(q) \in Nat /\ Append(q, x)[Len(q) + 1] = x
      /\ \A i \in 1 .. Len(q) : Append(q, x)[i] = q[i]
  OBVIOUS
<1>2. \A i \in 1 .. Len(q) + 1 : i \in 1 .. Len(q) \/ i = Len(q) + 1
  BY <1>1
<1>3. InSeq(Append(q, x)) = InSeq(q) \cup {x}
  <2>1. \A i \in 1 .. Len(q) : i \in 1 .. Len(q) + 1
    BY <1>1
  <2>2. Len(q) + 1 \in 1 .. Len(q) + 1
    BY <1>1
  <2> QED
    BY <1>1, <1>2, <2>1, <2>2 DEF InSeq
<1>4. ASSUME Distinct(q), x \notin InSeq(q) PROVE Distinct(Append(q, x))
  <2>1. \A i \in 1 .. Len(q) : q[i] # x
    BY <1>1, <1>4 DEF InSeq
  <2> QED
    BY <1>1, <1>2, <1>4, <2>1 DEF Distinct
<1> QED
  BY <1>3, <1>4, AppendProperties

LEMMA TailSet ==
  ASSUME NEW S, NEW q \in Seq(S), q # <<>>
  PROVE  /\ Head(q) \in S /\ Tail(q) \in Seq(S) /\ InSeq(q) = InSeq(Tail(q)) \cup {Head(q)}
         /\ Distinct(q) => Distinct(Tail(q)) /\ Head(q) \notin InSeq(Tail(q))
<1>1. /\ DOMAIN q = 1 .. Len(q) /\ DOMAIN Tail(q) = 1 .. Len(q) - 1
      /\ Len(q) \in Nat \ {0} /\ Head(q) = q[1]
      /\ \A i \in 1 .. Len(q) - 1 : Tail(q)[i] = q[i + 1]
  BY EmptySeq
<1>2. \A i \in 1 .. Len(q) - 1 : i + 1 \in 1 .. Len(q) /\ i + 1 # 1
  BY <1>1
<1>3. \A i \in 1 .. Len(q) : i = 1 \/ (i - 1 \in 1 .. Len(q) - 1 /\ Tail(q)[i - 1] = q[i])
  BY <1>1
<1>4. 1 \in 1 .. Len(q)
  BY <1>1
<1>5. InSeq(q) = InSeq(Tail(q)) \cup {Head(q)}
  <2>1. ASSUME NEW x \in InSeq(q) PROVE x \in InSeq(Tail(q)) \cup {Head(q)}
    <3>1. PICK i \in 1 .. Len(q) : x = q[i]
      BY <1>1, <2>1 DEF InSeq
    <3>2. CASE i = 1
      BY <1>1, <3>1, <3>2
    <3>3. CASE i # 1
      BY <1>1, <1>3, <3>1, <3>3 DEF InSeq
    <3> QED
      BY <3>2, <3>3
  <2>2. ASSUME NEW x \in InSeq(Tail(q)) PROVE x \in InSeq(q)
    BY <1>1, <1>2, <2>2 DEF InSeq
  <2>3. Head(q) \in InSeq(q)
    BY <1>1, <1>4 DEF InSeq
  <2> QED
    BY <2>1, <2>2, <2>3
<1>6. ASSUME Distinct(q) PROVE Distinct(Tail(q)) /\ Head(q) \notin InSeq(Tail(q))
  <2>1. \A i, k \in 1 .. Len(q) - 1 : i + 1 = k + 1 => i = k
    BY <1>1
  <2>2. Distinct(Tail(q))
    BY <1>1, <1>2, <1>6, <2>1 DEF Distinct
  <2>3. \A i \in 1 .. Len(q) - 1 : Tail(q)[i] # Head(q)
    BY <1>1, <1>2, <1>4, <1>6 DEF Distinct
  <2> QED
    BY <1>1, <2>2, <2>3 DEF InSeq
<1> QED
  BY <1>5, <1>6, HeadTailProperties

LEMMA GetStep ==
  ASSUME IInv, NEW t \in Threads, GetConnection(t) PROVE IInv'
<1>1. /\ w[t].at = "get" /\ WorkInv /\ StepInv(t) /\ w[t].conn = None /\ w[t].stmt = 1
      /\ UNCHANGED <<req, sends, tasks, opened, sqlVars>>
  BY DEF GetConnection, IInv, StepInv
<1>2. CASE pool = <<>>
  <2>1. UNCHANGED <<w, pool>>
    BY <1>2 DEF GetConnection
  <2>2. WorkInv'
    BY <1>1, <2>1 DEF WorkInv, sqlVars
  <2>3. StepInv(t)' /\ TxInv(t)'
    BY <1>1, <2>1 DEF StepInv, TxInv, Op, Kind, JobReq
  <2> QED
    BY <1>1, <2>1, <2>2, <2>3, PlainStep DEF sqlVars
<1>3. CASE pool # <<>>
  <2> DEFINE c == Head(pool)
             place == IF Call(t).kind = "txn" THEN "begin" ELSE "run"
  <2>1. pool' = Tail(pool) /\ w' = [w EXCEPT ![t].conn = c, ![t].at = place]
    BY <1>3 DEF GetConnection
  <2>2. place \in Places /\ (place = "begin" => Kind(t) = "txn")
        /\ (place # "begin" => place = "run" /\ Kind(t) # "txn")
    BY <1>1, CallLemma DEF Places
  <2>3. /\ c \in 1 .. opened /\ pool' \in Seq(1 .. opened) /\ InSeq(pool) = InSeq(pool') \cup {c}
        /\ c \notin InSeq(pool') /\ Distinct(pool')
    BY <1>3, <2>1, TailSet DEF IInv, PoolInv
  <2> HIDE DEF c, place
  <2>4. c \in Conns /\ c # None /\ \A d \in 1 .. opened : d # None
    BY <2>3, SocialAssumption DEF Conns, IInv, PoolInv
  <2>5. /\ w' \in [Threads -> Work] /\ \A u \in Threads : u # t => w'[u] = w[u]
        /\ w'[t].at = place /\ w'[t].call = w[t].call /\ w'[t].job = w[t].job
        /\ w'[t].conn = c /\ w'[t].stmt = w[t].stmt
    <3>1. WorkInv /\ place \in Places /\ c \in Conns \cup {None}
      BY <1>1, <2>2, <2>4
    <3>2. w' = [w EXCEPT ![t].conn = c, ![t].at = place]
      BY <2>1
    <3> QED
      BY <3>1, <3>2 DEF WorkInv, Work
  <2>6. Op(t)' = Op(t) /\ Kind(t)' = Kind(t)
    BY <1>1, <2>5 DEF Op, Kind, JobReq
  <2>7. CountOf(Op(t)) >= 1
    BY DEF CountOf
  <2>8. StepInv(t)'
    BY <1>1, <2>2, <2>4, <2>5, <2>6, <2>7 DEF StepInv
  <2>9. \A u \in Threads : StepInv(u)'
    BY <1>1, <2>5, <2>8, Others
  <2>10. tx[c] = Closed
    BY <2>3 DEF IInv, SqlInv
  <2>11. TxInv(t)'
    BY <1>1, <2>2, <2>5, <2>6, <2>10 DEF TxInv, sqlVars
  <2>12. \A u \in Threads : u # t => TxInv(u)'
    BY <1>1, <2>5, OtherTx DEF sqlVars
  <2>13. PoolInv'
    <3>1. \A u \in Threads : w'[u].conn # None => w'[u].conn \in (1 .. opened) \ InSeq(pool')
      BY <2>3, <2>5 DEF IInv, PoolInv
    <3>2. \A u, v \in Threads : u # v /\ w'[u].conn = w'[v].conn => w'[u].conn = None
      <4>1. \A u \in Threads : u # t => w[u].conn # c
        BY <2>3, <2>4 DEF IInv, PoolInv
      <4>2. \A u \in Threads : u # t => w'[u].conn = w[u].conn /\ w'[u].conn # w'[t].conn
        BY <2>5, <4>1
      <4> QED
        BY <4>2 DEF IInv, PoolInv
    <3>3. \A d \in 1 .. opened : d \in InSeq(pool') \/ \E u \in Threads : w'[u].conn = d
      <4>1. ASSUME NEW d \in 1 .. opened, d \notin InSeq(pool')
            PROVE  \E u \in Threads : w'[u].conn = d
        <5>1. CASE d = c
          BY <2>5, <5>1
        <5>2. CASE d # c
          <6>1. d \notin InSeq(pool)
            BY <2>3, <4>1, <5>2
          <6>2. PICK u \in Threads : w[u].conn = d
            BY <4>1, <6>1 DEF IInv, PoolInv
          <6>3. u # t
            BY <1>1, <2>4, <4>1, <6>2
          <6> QED
            BY <2>5, <6>2, <6>3
        <5> QED
          BY <5>1, <5>2
      <4> QED
        BY <4>1
    <3> QED
      BY <1>1, <2>3, <3>1, <3>2, <3>3 DEF IInv, PoolInv
  <2>14. SqlInv'
    BY <1>1, <2>3 DEF IInv, SqlInv, sqlVars
  <2>15. WorkInv'
    BY <1>1, <2>5 DEF WorkInv, sqlVars
  <2> QED
    BY <2>9, <2>11, <2>12, <2>13, <2>14, <2>15 DEF IInv
<1> QED
  BY <1>2, <1>3

LEMMA ReleaseStep ==
  ASSUME IInv, NEW t \in Threads, ReleaseConnection(t) PROVE IInv'
<1> DEFINE c == w[t].conn
<1>1. /\ w[t].at = "release" /\ WorkInv /\ StepInv(t) /\ c # None /\ tx[c] = Closed
      /\ pool' = Append(pool, c) /\ w' = [w EXCEPT ![t].conn = None, ![t].at = "notify"]
      /\ UNCHANGED <<req, sends, tasks, opened, sqlVars>>
  BY DEF ReleaseConnection, IInv, StepInv, TxInv
<1>2. c \in (1 .. opened) \ InSeq(pool) /\ \A u \in Threads : u # t => w[u].conn # c
  BY <1>1 DEF IInv, PoolInv
<1> HIDE DEF c
<1>3. /\ pool' \in Seq(1 .. opened) /\ InSeq(pool') = InSeq(pool) \cup {c} /\ Distinct(pool')
  <2>1. pool \in Seq(1 .. opened) /\ Distinct(pool) /\ c \in 1 .. opened /\ c \notin InSeq(pool)
    BY <1>2 DEF IInv, PoolInv
  <2>2. pool' = Append(pool, c)
    BY <1>1
  <2>3. /\ Append(pool, c) \in Seq(1 .. opened) /\ InSeq(Append(pool, c)) = InSeq(pool) \cup {c}
        /\ Distinct(Append(pool, c))
    BY <2>1, AppendSet
  <2> QED
    BY <2>2, <2>3
<1>4. /\ w' \in [Threads -> Work] /\ \A u \in Threads : u # t => w'[u] = w[u]
      /\ w'[t].at = "notify" /\ w'[t].call = w[t].call /\ w'[t].job = w[t].job
      /\ w'[t].conn = None /\ w'[t].stmt = w[t].stmt /\ w'[t].code = w[t].code
  <2>1. "notify" \in Places
    BY DEF Places
  <2> QED
    BY <1>1, <2>1, UpdateConn
<1>5. Op(t)' = Op(t)
  BY <1>1, <1>4 DEF Op, JobReq
<1>6. StepInv(t)' /\ TxInv(t)'
  BY <1>1, <1>4, <1>5 DEF StepInv, TxInv
<1>7. \A u \in Threads : StepInv(u)'
  BY <1>1, <1>4, <1>6, Others
<1>8. \A u \in Threads : u # t => TxInv(u)'
  BY <1>1, <1>4, OtherTx DEF sqlVars
<1>9. PoolInv'
  <2>1. \A u \in Threads : w'[u].conn # None => w'[u].conn \in (1 .. opened) \ InSeq(pool')
    BY <1>2, <1>3, <1>4 DEF IInv, PoolInv
  <2>2. \A u, v \in Threads : u # v /\ w'[u].conn = w'[v].conn => w'[u].conn = None
    BY <1>4 DEF IInv, PoolInv
  <2>3. \A d \in 1 .. opened : d \in InSeq(pool') \/ \E u \in Threads : w'[u].conn = d
    <3>1. ASSUME NEW d \in 1 .. opened, d \notin InSeq(pool')
          PROVE  \E u \in Threads : w'[u].conn = d
      <4>1. d \notin InSeq(pool) /\ d # c
        BY <1>3, <3>1
      <4>2. PICK u \in Threads : w[u].conn = d
        BY <3>1, <4>1 DEF IInv, PoolInv
      <4>3. u # t
        BY <4>1, <4>2 DEF c
      <4> QED
        BY <1>4, <4>2, <4>3
    <3> QED
      BY <3>1
  <2> QED
    BY <1>1, <1>3, <2>1, <2>2, <2>3 DEF IInv, PoolInv
<1>10. SqlInv'
  BY <1>1, <1>3 DEF IInv, SqlInv, sqlVars
<1>11. WorkInv'
  BY <1>1, <1>4 DEF WorkInv, sqlVars
<1> QED
  BY <1>6, <1>7, <1>8, <1>9, <1>10, <1>11 DEF IInv

-----------------------------------------------------------------------------
(* Transactions                                                             *)

LEMMA ClosedFacts == Paired(Closed.writes) /\ DOMAIN Closed.writes = {} /\ Closed.open = FALSE
BY DEF Paired, Closed

\* A step of a thread on its connection that leaves the pool alone.
LEMMA SqlStep ==
  ASSUME IInv, NEW t \in Threads, WorkInv', StepInv(t)', TxInv(t)', w[t].conn # None,
         \A u \in Threads : u # t => w'[u] = w[u], w'[t].conn = w[t].conn,
         UNCHANGED <<req, pool, opened>>, broken \subseteq broken',
         NEW x, tx' = [tx EXCEPT ![w[t].conn] = x],
         x = [open |-> x.open, writes |-> x.writes],
         \A k \in DOMAIN db' : db'[k] # None, Mutual(DOMAIN db')
  PROVE  IInv'
<1>1. \A u \in Threads : StepInv(u)'
  BY Others
<1>2. DOMAIN tx = Conns
  BY DEF IInv, SqlInv
<1>3. \A u \in Threads : u # t => TxInv(u)'
  <2>1. ASSUME NEW u \in Threads, u # t PROVE TxInv(u)'
    <3>1. w[u].conn # w[t].conn
      BY <2>1, Private
    <3>2. w[u].conn # None => tx'[w[u].conn] = tx[w[u].conn]
      BY <1>2, <2>1, <3>1, Private
    <3> QED
      BY <2>1, <3>2, OtherTx
  <2> QED
    BY <2>1
<1>4. PoolInv'
  BY SamePool
<1>5. \A c \in InSeq(pool') : tx'[c] = Closed
  <2>1. \A c \in InSeq(pool) : c \in Conns /\ c # w[t].conn /\ tx[c] = Closed
    <3>1. pool \in Seq(1 .. opened) /\ 1 .. opened \subseteq Conns
      BY SocialAssumption DEF IInv, PoolInv, Conns
    <3>2. InSeq(pool) \subseteq 1 .. opened
      <4>1. DOMAIN pool = 1 .. Len(pool)
        BY <3>1, LenProperties
      <4>2. \A i \in 1 .. Len(pool) : pool[i] \in 1 .. opened
        BY <3>1, ElementOfSeq
      <4> QED
        BY <4>1, <4>2 DEF InSeq
    <3> QED
      BY <3>1, <3>2, Private DEF IInv, SqlInv
  <2> QED
    BY <1>2, <2>1
<1>6. tx' = [c \in Conns |-> [open |-> tx'[c].open, writes |-> tx'[c].writes]]
  <2>1. \A c \in Conns : tx[c] = [open |-> tx[c].open, writes |-> tx[c].writes]
    BY DEF IInv, SqlInv
  <2>2. tx' = [c \in Conns |-> tx'[c]]
    BY <1>2
  <2>3. \A c \in Conns : tx'[c] = [open |-> tx'[c].open, writes |-> tx'[c].writes]
    BY <1>2, <2>1
  <2> QED
    BY <2>2, <2>3
<1>7. SqlInv'
  BY <1>5, <1>6 DEF SqlInv
<1> QED
  BY <1>1, <1>3, <1>4, <1>7 DEF IInv

LEMMA StartStep ==
  ASSUME IInv, NEW t \in Threads, StartTransaction(t) PROVE IInv'
<1> DEFINE c == w[t].conn
           x == [open |-> c \notin broken, writes |-> Closed.writes]
<1>1. /\ w[t].at = "begin" /\ WorkInv /\ StepInv(t) /\ TxInv(t) /\ c # None
      /\ w' = [w EXCEPT ![t].at = "run"] /\ tx' = [tx EXCEPT ![c].open = c \notin broken]
      /\ UNCHANGED <<req, sends, tasks, poolVars, db, nextGroup, broken>>
  BY DEF StartTransaction, IInv, StepInv
<1>2. /\ w' \in [Threads -> Work] /\ \A u \in Threads : u # t => w'[u] = w[u]
      /\ w'[t].at = "run" /\ w'[t].call = w[t].call /\ w'[t].job = w[t].job
      /\ w'[t].conn = c /\ w'[t].stmt = w[t].stmt
  <2>1. "run" \in Places
    BY DEF Places
  <2> QED
    BY <1>1, <2>1, UpdateAt
<1>3. Op(t)' = Op(t) /\ Kind(t)' = Kind(t) /\ JobReq(t)' = JobReq(t)
  BY <1>1, <1>2 DEF Op, Kind, JobReq
<1>4. w[t].stmt = 1 /\ Kind(t) = "txn" /\ CountOf(Op(t)) >= 1 /\ tx[c] = Closed
  BY <1>1 DEF StepInv, TxInv, CountOf
<1>5. StepInv(t)'
  BY <1>1, <1>2, <1>3, <1>4 DEF StepInv
<1>6. tx' = [tx EXCEPT ![c] = x]
  <2>1. Closed = [open |-> FALSE, writes |-> Closed.writes]
    BY DEF Closed
  <2>2. [Closed EXCEPT !.open = c \notin broken] = x
    BY <2>1
  <2>3. tx' = [tx EXCEPT ![c] = [tx[c] EXCEPT !.open = c \notin broken]]
    BY <1>1
  <2> QED
    BY <1>4, <2>2, <2>3
<1>7. c \in Conns /\ tx'[c] = x
  BY <1>1, <1>6, Private DEF IInv, SqlInv
<1>8. TxInv(t)'
  <2>1. CASE c \in broken
    <3>1. x = Closed
      BY <2>1 DEF Closed
    <3> QED
      BY <1>1, <1>2, <1>7, <2>1, <3>1 DEF TxInv
  <2>2. CASE c \notin broken
    <3>1. x.open = TRUE /\ DOMAIN x.writes = {}
      BY <2>2, ClosedFacts
    <3> HIDE DEF x
    <3>2. tx'[w'[t].conn] = x
      BY <1>2, <1>7
    <3>3. Before(t, tx[w[t].conn].writes)'
      BY <1>2, <1>3, <1>4, <3>1, <3>2 DEF Before
    <3> QED
      BY <1>2, <1>3, <1>4, <3>1, <3>2, <3>3 DEF TxInv
  <2> QED
    BY <2>1, <2>2
<1>9. WorkInv'
  BY <1>1, <1>2 DEF WorkInv
<1>10. x = [open |-> x.open, writes |-> x.writes]
  OBVIOUS
<1>11. (\A k \in DOMAIN db' : db'[k] # None) /\ Mutual(DOMAIN db')
  BY <1>1 DEF IInv, SqlInv
<1> HIDE DEF x
<1> QED
  BY <1>1, <1>2, <1>5, <1>6, <1>8, <1>9, <1>10, <1>11, SqlStep DEF poolVars

\* Where After() leads.
LEMMA AfterLemma ==
  ASSUME IInv, NEW t \in Threads, Executing(t), NEW ok \in BOOLEAN, After(t, ok),
         UNCHANGED <<req, sends, tasks>>, nextGroup' \in Nat
  PROVE  /\ WorkInv' /\ StepInv(t)' /\ w'[t].conn = w[t].conn /\ w[t].conn # None
         /\ \A u \in Threads : u # t => w'[u] = w[u]
         /\ Kind(t) \in {"auto", "txn"}
         /\ Op(t)' = Op(t) /\ Kind(t)' = Kind(t) /\ JobReq(t)' = JobReq(t)
         /\ Kind(t) = "auto" => w'[t].at = "release"
         /\ Kind(t) = "txn" => w'[t].at \in {"run", "end"} /\ w'[t].ok = ok
         /\ w'[t].at = "run" => ok = TRUE /\ w[t].stmt = 1 /\ w'[t].stmt = 2 /\ CountOf(Op(t)) = 2
         /\ w'[t].at = "end" /\ ok = TRUE => w[t].stmt = CountOf(Op(t))
         /\ w'[t].at = "end" /\ OnFriends(Op(t)) /\ ok = TRUE => w[t].stmt = 2
         /\ w'[t].job = w[t].job /\ w'[t].ok = ok
         /\ w'[t].gid = IF Draws(t) /\ ok THEN nextGroup ELSE w[t].gid
         /\ w'[t].code = IF Kind(t) # "auto" THEN w[t].code ELSE Outcome(t, ok)
<1>1. w[t].at = "run" /\ WorkInv /\ StepInv(t) /\ w[t].conn # None
  BY DEF Executing, IInv, StepInv
<1>2. /\ Call(t).kind = Kind(t) /\ Call(t).code \in Nat \ {0}
      /\ Op(t) \in Ops /\ JobReq(t).a \in Users
      /\ w[t].call \in {1, 2} /\ (w[t].call = 2 => Two(Op(t)))
  BY <1>1, CallLemma DEF StepInv, WorkInv, Work
<1>3. Kind(t) # "find" /\ Kind(t) \in {"auto", "txn"}
  BY <1>2 DEF Executing, Kind, KindOf
<1>4. Len(Call(t).stmts) = CountOf(Op(t))
  BY <1>2, <1>3, StmtLemma DEF Call, Plan, Kind, Op
<1>5. CountOf(Op(t)) \in {1, 2} /\ w[t].stmt \in Nat \ {0} /\ w[t].stmt <= CountOf(Op(t))
      /\ (OnFriends(Op(t)) => CountOf(Op(t)) = 2)
  BY <1>1, <1>3 DEF CountOf, StepInv, WorkInv, Work
<1> DEFINE gid   == IF Draws(t) /\ ok THEN nextGroup ELSE w[t].gid
           more  == w[t].stmt < CountOf(Op(t))
           stmt  == IF more THEN w[t].stmt + 1 ELSE w[t].stmt
           place == IF Kind(t) = "auto" THEN "release"
                    ELSE IF more /\ ok THEN "run" ELSE "end"
           code  == IF Kind(t) # "auto" THEN w[t].code ELSE Outcome(t, ok)
<1>6. w' = [w EXCEPT ![t].gid = gid, ![t].stmt = stmt, ![t].ok = ok, ![t].at = place,
                     ![t].code = code]
  BY <1>2, <1>4 DEF After, FailsAt
<1>7. gid \in Nat /\ stmt \in Nat \ {0} /\ place \in Places
  BY <1>1, <1>5 DEF WorkInv, Work, Places
<1>8. code \in Nat \cup {None} /\ (Kind(t) = "auto" => code \in Nat /\ code # None)
  BY <1>1, <1>2, SocialAssumption DEF Outcome, WorkInv, Work
<1>9. /\ place = "run" => ok = TRUE /\ w[t].stmt = 1 /\ stmt = 2 /\ CountOf(Op(t)) = 2
      /\ place = "end" /\ ok = TRUE => w[t].stmt = CountOf(Op(t))
      /\ place = "end" /\ OnFriends(Op(t)) /\ ok = TRUE => w[t].stmt = 2
      /\ Kind(t) = "auto" => place = "release"
      /\ Kind(t) = "txn" => place \in {"run", "end"}
  BY <1>5
<1> HIDE DEF gid, stmt, place, code
<1>10. /\ w' \in [Threads -> Work] /\ \A u \in Threads : u # t => w'[u] = w[u]
       /\ w'[t].at = place /\ w'[t].stmt = stmt /\ w'[t].ok = ok /\ w'[t].code = code
       /\ w'[t].conn = w[t].conn /\ w'[t].call = w[t].call /\ w'[t].job = w[t].job
       /\ w'[t].gid = gid
  <2> DEFINE new == [w[t] EXCEPT !.gid = gid, !.stmt = stmt, !.ok = ok, !.at = place,
                                 !.code = code]
  <2>1. w \in [Threads -> Work] /\ w[t] \in Work
    BY <1>1 DEF WorkInv
  <2>2. w' = [w EXCEPT ![t] = new]
    BY <1>6, <2>1 DEF Work
  <2>3. /\ new \in Work /\ new.at = place /\ new.stmt = stmt /\ new.ok = ok /\ new.code = code
        /\ new.conn = w[t].conn /\ new.call = w[t].call /\ new.job = w[t].job
        /\ new.gid = gid
    BY <1>7, <1>8, <2>1 DEF Work
  <2> HIDE DEF new
  <2>4. w' \in [Threads -> Work] /\ w'[t] = new /\ \A u \in Threads : u # t => w'[u] = w[u]
    BY <1>1, <2>2, <2>3, Update
  <2> QED
    BY <2>3, <2>4
<1>11. Op(t)' = Op(t) /\ Kind(t)' = Kind(t) /\ JobReq(t)' = JobReq(t)
  BY <1>10 DEF Op, Kind, JobReq
<1>12. StepInv(t)'
  BY <1>1, <1>3, <1>8, <1>9, <1>10, <1>11 DEF StepInv
<1>13. WorkInv'
  BY <1>1, <1>10 DEF WorkInv
<1> QED
  BY <1>1, <1>3, <1>9, <1>10, <1>11, <1>12, <1>13 DEF gid, code

\* A statement outside a transaction does not touch friendship.
LEMMA RowsLemma ==
  ASSUME SqlInv, NEW key, NEW row, NoFriend(key)
  PROVE  LET f == Rows(With(db, key, row)) IN
         (\A k \in DOMAIN f : f[k] # None) /\ Mutual(DOMAIN f)
<1> DEFINE g == With(db, key, row)
           f == Rows(g)
<1>1. /\ DOMAIN g = DOMAIN db \cup {key} /\ g[key] = row
      /\ \A k \in DOMAIN db : k # key => g[k] = db[k]
  BY DEF With
<1>2. DOMAIN f = {k \in DOMAIN g : g[k] # None} /\ \A k \in DOMAIN f : f[k] = g[k]
  BY DEF Rows
<1> HIDE DEF f, g
<1>3. \A k \in DOMAIN f : f[k] # None
  BY <1>2
<1>4. \A a, b \in Users : Friend(a, b) \in DOMAIN f <=> Friend(a, b) \in DOMAIN db
  BY <1>1, <1>2 DEF NoFriend, SqlInv
<1>5. Mutual(DOMAIN f)
  BY <1>4 DEF Mutual, SqlInv
<1> QED
  BY <1>3, <1>5 DEF f, g

LEMMA FriendInjective ==
  ASSUME NEW a, NEW b, NEW c, NEW d, Friend(a, b) = Friend(c, d)
  PROVE  a = c /\ b = d
BY DEF Friend

\* The second row of a pair completes the first.
LEMMA PairLemma ==
  ASSUME NEW a \in Users, NEW b \in Users, NEW row, row # None => a # b,
         NEW f, DOMAIN f = {Friend(a, b)}, f[Friend(a, b)] = row
  PROVE  Paired(With(f, Friend(b, a), row))
<1> DEFINE g == With(f, Friend(b, a), row)
<1>1. /\ DOMAIN g = {Friend(a, b), Friend(b, a)}
      /\ g[Friend(a, b)] = row /\ g[Friend(b, a)] = row
  BY DEF With
<1> HIDE DEF g
<1>2. ASSUME NEW x \in Users, NEW y \in Users, Friend(x, y) \in DOMAIN g
      PROVE  Friend(y, x) \in DOMAIN g /\ g[Friend(x, y)] = g[Friend(y, x)]
             /\ (g[Friend(x, y)] # None => x # y)
  <2>1. (x = a /\ y = b) \/ (x = b /\ y = a)
    BY <1>1, <1>2, FriendInjective
  <2> QED
    BY <1>1, <2>1
<1> QED
  BY <1>2 DEF Paired, g

LEMMA WritesLemma ==
  ASSUME NEW x, NEW f, x = [open |-> TRUE, writes |-> f]
  PROVE  \A y : [x EXCEPT !.writes = y] = [open |-> TRUE, writes |-> y]
<1> TAKE y
<1> DEFINE new == [x EXCEPT !.writes = y]
<1>1. x \in [open : {TRUE}, writes : {f}]
  OBVIOUS
<1>2. new \in [open : {TRUE}, writes : {y}]
  BY <1>1
<1> HIDE DEF new
<1>3. new = [open |-> TRUE, writes |-> y]
  BY <1>2
<1> QED
  BY <1>3 DEF new

LEMMA WriteStep ==
  ASSUME IInv, NEW t \in Threads, Executing(t), Free(t), ~Duplicate(t), Write(t),
         NEW ok \in BOOLEAN, After(t, ok), Kind(t) = "auto" \/ ok = TRUE,
         UNCHANGED <<req, sends, tasks, pool, opened>>, nextGroup' \in Nat,
         broken \subseteq broken'
  PROVE  IInv'
<1> DEFINE c == w[t].conn
           s == Stmt(t)
           a == JobReq(t).a
           b == JobReq(t).b
<1>1. /\ WorkInv' /\ StepInv(t)' /\ w'[t].conn = c /\ c # None
      /\ \A u \in Threads : u # t => w'[u] = w[u]
      /\ Kind(t) \in {"auto", "txn"}
      /\ Op(t)' = Op(t) /\ Kind(t)' = Kind(t) /\ JobReq(t)' = JobReq(t)
      /\ Kind(t) = "auto" => w'[t].at = "release"
      /\ Kind(t) = "txn" => w'[t].at \in {"run", "end"} /\ w'[t].ok = ok
      /\ w'[t].at = "run" => ok = TRUE /\ w[t].stmt = 1 /\ w'[t].stmt = 2
      /\ w'[t].at = "end" /\ OnFriends(Op(t)) /\ ok = TRUE => w[t].stmt = 2
  BY AfterLemma
<1>2. /\ w[t].at = "run" /\ WorkInv /\ StepInv(t) /\ TxInv(t) /\ SqlInv
      /\ c \in Conns /\ c \notin broken
  BY <1>1, Private DEF Executing, IInv, Free
<1>3. /\ Op(t) \in Ops /\ a \in Users /\ (OnFriends(Op(t)) => b \in Users)
      /\ w[t].call \in {1, 2} /\ (w[t].call = 2 => Two(Op(t)))
      /\ w[t].stmt \in 1 .. CountOf(Op(t)) /\ CountOf(Op(t)) \in {1, 2}
  <2>1. w[t].call \in {1, 2} /\ w[t].stmt \in Nat \ {0}
    BY <1>2 DEF WorkInv, Work
  <2>2. CountOf(Op(t)) \in {1, 2} /\ w[t].stmt <= CountOf(Op(t))
    BY <1>1, <1>2 DEF CountOf, StepInv
  <2> QED
    BY <1>2, <2>1, <2>2, CallLemma DEF StepInv
<1>4. /\ OnFriends(Op(t)) => /\ s.key = IF w[t].stmt = 1 THEN Friend(a, b) ELSE Friend(b, a)
                             /\ s.row = RowOf(Op(t))
      /\ ~OnFriends(Op(t)) => NoFriend(s.key)
  <2> DEFINE g == IF Draws(t) THEN nextGroup ELSE w[t].gid
             stmts == Calls(Op(t), a, b, g)[w[t].call].stmts
  <2>1. s = stmts[w[t].stmt]
    BY DEF Stmt, Op
  <2> HIDE DEF g
  <2>2. KindOf(Op(t), w[t].call) # "find"
    BY <1>1 DEF Kind
  <2>3. /\ Len(stmts) = CountOf(Op(t))
        /\ OnFriends(Op(t)) =>
             /\ stmts[1].key = Friend(a, b) /\ stmts[2].key = Friend(b, a)
             /\ stmts[1].row = RowOf(Op(t)) /\ stmts[2].row = RowOf(Op(t))
        /\ ~OnFriends(Op(t)) => \A i \in 1 .. Len(stmts) : NoFriend(stmts[i].key)
    BY <1>3, <2>2, StmtLemma
  <2> HIDE DEF stmts, s, a, b
  <2>4. w[t].stmt \in {1, 2}
    BY <1>3
  <2> QED
    BY <1>3, <2>1, <2>3, <2>4
<1>5. Write(t) /\ (IF tx[c].open THEN tx' = [tx EXCEPT ![c].writes = With(@, s.key, s.row)] /\ UNCHANGED db
                   ELSE db' = Rows(With(db, s.key, s.row)) /\ UNCHANGED tx)
  BY DEF Write
<1>6. s.row # None => Seen(c, s.key) = None
  BY DEF Duplicate
<1>7. tx[c] = [open |-> tx[c].open, writes |-> tx[c].writes]
  BY <1>2 DEF SqlInv
<1> HIDE DEF c, s, a, b
<1>8. CASE Kind(t) = "auto"
  <2>1. tx[c] = Closed /\ tx[c].open = FALSE
    BY <1>2, <1>8, ClosedFacts DEF TxInv, c
  <2>2. NoFriend(s.key)
    BY <1>4, <1>8 DEF Kind, KindOf, OnFriends, Two
  <2>3. db' = Rows(With(db, s.key, s.row)) /\ tx' = tx
    BY <1>5, <2>1
  <2>4. (\A k \in DOMAIN db' : db'[k] # None) /\ Mutual(DOMAIN db')
    BY <1>2, <2>2, <2>3, RowsLemma
  <2>5. tx' = [tx EXCEPT ![c] = tx[c]]
    <3>1. DOMAIN tx = Conns /\ tx = [d \in Conns |-> tx[d]]
      BY <1>2 DEF SqlInv
    <3> QED
      BY <1>2, <2>3, <3>1
  <2>6. TxInv(t)'
    BY <1>1, <1>8, <2>1, <2>3 DEF TxInv
  <2> QED
    BY <1>1, <1>7, <2>4, <2>5, <2>6, SqlStep DEF c
<1>9. CASE Kind(t) = "txn"
  <2> DEFINE f == tx[c].writes
             x == [open |-> TRUE, writes |-> With(f, s.key, s.row)]
  <2>1. tx[c].open = TRUE /\ Before(t, f) /\ ok = TRUE
    BY <1>2, <1>9 DEF TxInv, c
  <2>2. tx' = [tx EXCEPT ![c] = x] /\ db' = db
    <3>1. tx' = [tx EXCEPT ![c].writes = With(@, s.key, s.row)] /\ db' = db
      BY <1>5, <2>1
    <3>2. tx' = [tx EXCEPT ![c] = [tx[c] EXCEPT !.writes = With(tx[c].writes, s.key, s.row)]]
      BY <3>1
    <3>3. [tx[c] EXCEPT !.writes = With(tx[c].writes, s.key, s.row)] = x
      <4>1. tx[c] = [open |-> TRUE, writes |-> f]
        BY <1>7, <2>1
      <4> QED
        BY <4>1, WritesLemma
    <3> QED
      BY <3>1, <3>2, <3>3
  <2>3. x = [open |-> x.open, writes |-> x.writes] /\ x.open = TRUE
        /\ x.writes = With(f, s.key, s.row)
    OBVIOUS
  <2>4. tx'[c] = x
    BY <1>2, <2>2 DEF SqlInv
  <2>5. (\A k \in DOMAIN db' : db'[k] # None) /\ Mutual(DOMAIN db')
    BY <1>2, <2>2 DEF SqlInv
  <2> HIDE DEF x, f
  <2>6. /\ DOMAIN x.writes = DOMAIN f \cup {s.key} /\ x.writes[s.key] = s.row
        /\ \A k \in DOMAIN f : k # s.key => x.writes[k] = f[k]
    BY <2>3 DEF With
  <2>7. ASSUME w'[t].at = "run" PROVE Before(t, tx[w[t].conn].writes)'
    <3>1. w[t].stmt = 1 /\ w'[t].stmt = 2 /\ tx'[w'[t].conn] = x
      BY <1>1, <2>4, <2>7
    <3>2. CASE OnFriends(Op(t))
      <4>1. DOMAIN f = {} /\ s.key = Friend(a, b) /\ s.row = RowOf(Op(t))
        BY <1>4, <2>1, <3>1, <3>2 DEF Before
      <4>2. DOMAIN x.writes = {Friend(a, b)} /\ x.writes[Friend(a, b)] = RowOf(Op(t))
        BY <2>6, <4>1
      <4> QED
        BY <1>1, <3>1, <3>2, <4>2 DEF Before, a, b
    <3>3. CASE ~OnFriends(Op(t))
      BY <1>1, <1>4, <2>1, <2>6, <3>1, <3>3 DEF Before
    <3> QED
      BY <3>2, <3>3
  <2>8. ASSUME w'[t].at = "end" PROVE Paired(x.writes)
    <3>1. CASE OnFriends(Op(t))
      <4>1. w[t].stmt = 2 /\ s.key = Friend(b, a) /\ s.row = RowOf(Op(t))
        BY <1>1, <1>4, <2>1, <2>8, <3>1
      <4>2. DOMAIN f = {Friend(a, b)} /\ f[Friend(a, b)] = RowOf(Op(t))
        BY <2>1, <3>1, <4>1 DEF Before, a, b
      <4>3. s.row # None => a # b
        BY <1>6, <4>1, <4>2 DEF Seen, f
      <4> QED
        BY <1>3, <2>3, <3>1, <4>1, <4>2, <4>3, PairLemma
    <3>2. CASE ~OnFriends(Op(t))
      <4>1. \A k \in DOMAIN x.writes : NoFriend(k)
        BY <1>4, <2>1, <2>6, <3>2 DEF Before
      <4> QED
        BY <4>1 DEF Paired, NoFriend
    <3> QED
      BY <3>1, <3>2
  <2>9. TxInv(t)'
    BY <1>1, <1>9, <2>3, <2>4, <2>7, <2>8 DEF TxInv
  <2> QED
    BY <1>1, <2>2, <2>3, <2>5, <2>9, SqlStep DEF c
<1> QED
  BY <1>1, <1>8, <1>9

LEMMA ExecuteStep ==
  ASSUME IInv, NEW t \in Threads, Execute(t) \/ LostReply(t) PROVE IInv'
<1>1. CASE Execute(t)
  <2>1. nextGroup' \in Nat
    BY <1>1 DEF Execute, IInv, WorkInv
  <2> QED
    BY <1>1, <2>1, WriteStep DEF Execute, poolVars
<1>2. CASE LostReply(t)
  <2>1. w[t].at = "run" /\ StepInv(t) /\ WorkInv
    BY <1>2 DEF LostReply, Executing, IInv
  <2>2. Kind(t) = "auto"
    BY <1>2, <2>1, CallLemma DEF LostReply
  <2>3. nextGroup' \in Nat /\ broken \subseteq broken'
    BY <1>2, <2>1 DEF LostReply, WorkInv
  <2> QED
    BY <1>2, <2>2, <2>3, WriteStep DEF LostReply, poolVars
<1> QED
  BY <1>1, <1>2

LEMMA FailStep ==
  ASSUME IInv, NEW t \in Threads, StatementFails(t) \/ DeadlockVictim(t) PROVE IInv'
<1> DEFINE c == w[t].conn
<1>1. /\ Executing(t) /\ After(t, FALSE) /\ w[t].at = "run"
      /\ tx' = tx \/ tx' = [tx EXCEPT ![c] = Closed]
      /\ UNCHANGED <<req, sends, tasks, poolVars, db, nextGroup, broken>>
  BY DEF StatementFails, DeadlockVictim, Executing, sqlVars
<1>2. nextGroup' \in Nat /\ TxInv(t) /\ SqlInv
  BY <1>1 DEF IInv, WorkInv
<1>3. /\ WorkInv' /\ StepInv(t)' /\ w'[t].conn = c /\ c # None
      /\ \A u \in Threads : u # t => w'[u] = w[u]
      /\ Kind(t) \in {"auto", "txn"}
      /\ Kind(t) = "auto" => w'[t].at = "release"
      /\ Kind(t) = "txn" => w'[t].at \in {"run", "end"} /\ w'[t].ok = FALSE
      /\ w'[t].at # "run"
  BY <1>1, <1>2, AfterLemma
<1>4. c \in Conns /\ DOMAIN tx = Conns /\ tx[c] = [open |-> tx[c].open, writes |-> tx[c].writes]
  BY <1>2, <1>3, Private DEF SqlInv
<1>5. Kind(t) = "auto" => tx[c] = Closed
  BY <1>1, <1>2, <1>3 DEF TxInv
<1>6. PICK x \in {tx[c], Closed} : tx' = [tx EXCEPT ![c] = x]
  <2>1. tx = [d \in Conns |-> tx[d]]
    BY <1>2 DEF SqlInv
  <2>2. tx = [tx EXCEPT ![c] = tx[c]]
    BY <1>4, <2>1
  <2> QED
    BY <1>1, <2>2
<1>7. x = [open |-> x.open, writes |-> x.writes]
  BY <1>4, <1>6 DEF Closed
<1>8. tx'[c] = x
  BY <1>4, <1>6
<1>9. TxInv(t)'
  BY <1>3, <1>5, <1>6, <1>8 DEF TxInv
<1>10. (\A k \in DOMAIN db' : db'[k] # None) /\ Mutual(DOMAIN db')
  BY <1>1, <1>2 DEF SqlInv
<1> QED
  BY <1>1, <1>3, <1>6, <1>7, <1>9, <1>10, SqlStep DEF poolVars

\* A commit makes both rows of a pair appear or go.
LEMMA CommitLemma ==
  ASSUME SqlInv, NEW c \in Conns, Paired(tx[c].writes)
  PROVE  LET f == Rows([k \in DOMAIN db \cup DOMAIN tx[c].writes |-> Seen(c, k)]) IN
         (\A k \in DOMAIN f : f[k] # None) /\ Mutual(DOMAIN f)
<1> DEFINE g == [k \in DOMAIN db \cup DOMAIN tx[c].writes |-> Seen(c, k)]
           f == Rows(g)
           wr == tx[c].writes
<1>1. /\ \A k \in DOMAIN wr : g[k] = wr[k]
      /\ \A k \in DOMAIN db : k \notin DOMAIN wr => g[k] = db[k]
  BY DEF Seen, Row
<1>2. DOMAIN g = DOMAIN db \cup DOMAIN wr
  OBVIOUS
<1>3. DOMAIN f = {k \in DOMAIN g : g[k] # None} /\ \A k \in DOMAIN f : f[k] = g[k]
  BY DEF Rows
<1> HIDE DEF f, g, wr
<1>4. ASSUME NEW a \in Users, NEW b \in Users, Friend(a, b) \in DOMAIN f
      PROVE  a # b /\ Friend(b, a) \in DOMAIN f
  <2>1. CASE Friend(a, b) \in DOMAIN wr
    BY <1>1, <1>2, <1>3, <1>4, <2>1 DEF Paired, wr
  <2>2. CASE Friend(a, b) \notin DOMAIN wr
    <3>1. Friend(b, a) \notin DOMAIN wr
      BY <2>2 DEF Paired, wr
    <3>2. Friend(a, b) \in DOMAIN db
      BY <1>2, <1>3, <1>4, <2>2
    <3> QED
      BY <1>1, <1>2, <1>3, <3>1, <3>2 DEF SqlInv, Mutual
  <2> QED
    BY <2>1, <2>2
<1>5. \A k \in DOMAIN f : f[k] # None
  BY <1>3
<1> QED
  BY <1>4, <1>5 DEF Mutual, f, g

LEMMA EndStep ==
  ASSUME IInv, NEW t \in Threads, Commit(t) \/ Rollback(t) PROVE IInv'
<1> DEFINE c == w[t].conn
<1>1. PICK ok \in BOOLEAN : Ending(t, ok) /\ (ok <=> Commit(t))
  BY DEF Commit, Rollback, Ending
<1>2. /\ w[t].at = "end" /\ w[t].ok = ok
      /\ w' = [w EXCEPT ![t].at = "release", ![t].code = Outcome(t, ok)]
      /\ UNCHANGED <<req, sends, tasks, poolVars, nextGroup, broken>>
      /\ tx' = [tx EXCEPT ![c] = Closed]
  BY <1>1 DEF Ending, Commit, Rollback, RolledBack
<1>3. WorkInv /\ StepInv(t) /\ TxInv(t) /\ SqlInv /\ c # None /\ c \in Conns
  BY <1>2, Private DEF IInv, StepInv
<1>4. Outcome(t, ok) \in Nat /\ Outcome(t, ok) # None
  BY <1>2, <1>3, CallLemma, SocialAssumption DEF Outcome
<1>5. /\ w' \in [Threads -> Work] /\ \A u \in Threads : u # t => w'[u] = w[u]
      /\ w'[t].at = "release" /\ w'[t].code = Outcome(t, ok) /\ w'[t].job = w[t].job
      /\ w'[t].call = w[t].call /\ w'[t].conn = c
  <2>1. "release" \in Places
    BY DEF Places
  <2> DEFINE code == Outcome(t, ok)
  <2>2. code \in Nat \cup {None} /\ w' = [w EXCEPT ![t].at = "release", ![t].code = code]
    BY <1>2, <1>4
  <2> HIDE DEF code
  <2>3. /\ w' \in [Threads -> Work] /\ \A u \in Threads : u # t => w'[u] = w[u]
        /\ w'[t].at = "release" /\ w'[t].code = code /\ w'[t].job = w[t].job
        /\ w'[t].call = w[t].call /\ w'[t].conn = w[t].conn
    BY <1>3, <2>1, <2>2 DEF WorkInv, Work
  <2> QED
    BY <2>3 DEF code
<1>6. Op(t)' = Op(t) /\ Kind(t)' = Kind(t)
  BY <1>2, <1>5 DEF Op, Kind, JobReq
<1>7. StepInv(t)'
  BY <1>3, <1>2, <1>4, <1>5, <1>6 DEF StepInv
<1>8. TxInv(t)'
  BY <1>2, <1>3, <1>5 DEF TxInv, SqlInv
<1>9. (\A k \in DOMAIN db' : db'[k] # None) /\ Mutual(DOMAIN db')
  <2>1. CASE Commit(t)
    <3>1. Paired(tx[c].writes)
      BY <1>1, <1>2, <1>3, <2>1 DEF TxInv
    <3> QED
      BY <1>3, <2>1, <3>1, CommitLemma DEF Commit
  <2>2. CASE Rollback(t)
    BY <1>3, <2>2 DEF Rollback, SqlInv
  <2> QED
    BY <2>1, <2>2
<1>10. WorkInv'
  BY <1>2, <1>3, <1>5 DEF WorkInv
<1>11. Closed = [open |-> Closed.open, writes |-> Closed.writes]
  BY DEF Closed
<1> QED
  BY <1>2, <1>3, <1>5, <1>7, <1>8, <1>9, <1>10, <1>11, SqlStep DEF poolVars

-----------------------------------------------------------------------------
(* Faults                                                                   *)

LEMMA BreakStep ==
  ASSUME IInv, NEW c \in Conns, Break(c) PROVE IInv'
<1>1. /\ broken' = broken \cup {c} /\ tx' = [tx EXCEPT ![c] = Closed]
      /\ UNCHANGED <<req, sends, tasks, w, poolVars, db, nextGroup>>
  BY DEF Break
<1>2. DOMAIN tx = Conns /\ \A d \in Conns : tx[d] = [open |-> tx[d].open, writes |-> tx[d].writes]
  BY DEF IInv, SqlInv
<1>3. \A d \in Conns : tx'[d] = IF d = c THEN Closed ELSE tx[d]
  BY <1>1, <1>2
<1>4. \A t \in Threads : TxInv(t)'
  <2>1. ASSUME NEW t \in Threads, w[t].conn # None
        PROVE  \/ tx'[w[t].conn] = tx[w[t].conn] /\ w[t].conn \in broken' \cup {w[t].conn}
               \/ tx'[w[t].conn] = Closed /\ w[t].conn \in broken'
    BY <1>1, <1>3, <2>1, Private
  <2> QED
    BY <1>1, <2>1, OtherTx
<1>5. WorkInv' /\ PoolInv' /\ \A t \in Threads : StepInv(t)'
  BY <1>1, SamePool DEF IInv, WorkInv, StepInv, Op, Kind, JobReq, poolVars
<1>6. SqlInv'
  <2>1. \A d \in InSeq(pool) : tx'[d] = Closed
    <3>1. pool \in Seq(1 .. opened) /\ 1 .. opened \subseteq Conns
      BY SocialAssumption DEF IInv, PoolInv, Conns
    <3>2. DOMAIN pool = 1 .. Len(pool) /\ \A i \in 1 .. Len(pool) : pool[i] \in 1 .. opened
      BY <3>1, LenProperties, ElementOfSeq
    <3>3. \A d \in InSeq(pool) : d \in Conns /\ tx[d] = Closed
      BY <3>1, <3>2 DEF InSeq, IInv, SqlInv
    <3> QED
      BY <1>3, <3>3
  <2>2. tx' = [d \in Conns |-> [open |-> tx'[d].open, writes |-> tx'[d].writes]]
    <3>1. tx' = [d \in Conns |-> tx'[d]]
      BY <1>1, <1>2
    <3>2. \A d \in Conns : tx'[d] = [open |-> tx'[d].open, writes |-> tx'[d].writes]
      BY <1>2, <1>3 DEF Closed
    <3> QED
      BY <3>1, <3>2
  <2>3. pool' = pool /\ db' = db
    BY <1>1 DEF poolVars
  <2> QED
    BY <2>1, <2>2, <2>3 DEF IInv, SqlInv
<1> QED
  BY <1>4, <1>5, <1>6 DEF IInv

LEMMA PoolAtStart ==
  ASSUME NEW n, NEW q, OpenPool(n, q)
  PROVE  n \in Conns /\ q \in Seq(1 .. n) /\ Distinct(q) /\ InSeq(q) = 1 .. n
<1>1. n \in Nat /\ n \in Conns /\ q = [i \in 1 .. n |-> i]
  BY SocialAssumption DEF OpenPool, Conns
<1>2. q \in Seq(1 .. n)
  BY <1>1
<1> QED
  BY <1>1, <1>2 DEF Distinct, InSeq

\* All threads idle and all connections in the pool.
AtStart == /\ OpenPool(opened, pool) /\ w = [t \in Threads |-> Idle]
           /\ tx = [c \in Conns |-> Closed]
           /\ (\A k \in DOMAIN db : db[k] # None) /\ Mutual(DOMAIN db)
Fine    == PoolInv /\ SqlInv /\ \A t \in Threads : StepInv(t) /\ TxInv(t)

LEMMA Restart == AtStart => Fine
<1> SUFFICES ASSUME AtStart PROVE Fine
  OBVIOUS
<1>1. \A t \in Threads : /\ w[t].at = "idle" /\ w[t].conn = None /\ w[t].call = 1
                         /\ w[t].at \notin {"begin", "run", "end", "release"}
  BY DEF AtStart, Idle, Fresh
<1>2. \A t \in Threads : StepInv(t) /\ TxInv(t)
  BY <1>1 DEF StepInv, TxInv
<1>3. opened \in Conns /\ pool \in Seq(1 .. opened) /\ Distinct(pool) /\ InSeq(pool) = 1 .. opened
  BY PoolAtStart DEF AtStart
<1>4. PoolInv
  BY <1>1, <1>3 DEF PoolInv
<1>5. Closed = [open |-> Closed.open, writes |-> Closed.writes]
  BY DEF Closed
<1>6. 1 .. opened \subseteq Conns
  BY <1>3, SocialAssumption DEF Conns
<1>7. SqlInv
  BY <1>3, <1>5, <1>6 DEF SqlInv, AtStart
<1> QED
  BY <1>2, <1>4, <1>7 DEF Fine

LEMMA RestartNext == AtStart' => Fine'
  BY Restart, PTL

LEMMA CrashStep ==
  ASSUME IInv, Crash PROVE IInv'
<1>1. /\ OpenPool(opened', pool') /\ w' = [t \in Threads |-> Idle] /\ tx' = [c \in Conns |-> Closed]
      /\ tasks' = <<>> /\ UNCHANGED <<req, sends, db, nextGroup>>
  BY DEF Crash
<1>2. Idle \in Work
  BY DEF Idle, Fresh, Work, Places
<1>3. WorkInv'
  BY <1>1, <1>2, EmptySeq DEF IInv, WorkInv
<1>4. (\A k \in DOMAIN db' : db'[k] # None) /\ Mutual(DOMAIN db')
  BY <1>1 DEF IInv, SqlInv
<1>5. PoolInv' /\ SqlInv' /\ \A t \in Threads : StepInv(t)' /\ TxInv(t)'
  BY <1>1, <1>4, RestartNext DEF AtStart, Fine
<1> QED
  BY <1>3, <1>5 DEF IInv

LEMMA InitIInv == Init => IInv
<1> SUFFICES ASSUME Init PROVE IInv
  OBVIOUS
<1>1. Idle \in Work
  BY DEF Idle, Fresh, Work, Places
<1>2. WorkInv
  BY <1>1, EmptySeq DEF Init, WorkInv
<1>3. \A n : NoFriend(User(n))
  BY KeyLemma
<1>4. (\A k \in DOMAIN db : db[k] # None) /\ Mutual(DOMAIN db)
  BY <1>3, SocialAssumption DEF Init, Mutual, NoFriend
<1>5. PoolInv /\ SqlInv /\ \A t \in Threads : StepInv(t) /\ TxInv(t)
  BY <1>4, Restart DEF Init, AtStart, Fine
<1> QED
  BY <1>2, <1>5 DEF IInv

LEMMA NextIInv == IInv /\ [Next]_vars => IInv'
<1> SUFFICES ASSUME IInv, [Next]_vars PROVE IInv'
  OBVIOUS
<1>1. ASSUME UNCHANGED <<req, sends, tasks, w, opened, pool, sqlVars>> PROVE IInv'
  <2>1. WorkInv' /\ PoolInv' /\ SqlInv'
    BY <1>1, SamePool DEF IInv, WorkInv, SqlInv, sqlVars
  <2>2. \A t \in Threads : StepInv(t)' /\ TxInv(t)'
    BY <1>1 DEF IInv, StepInv, TxInv, Before, Op, Kind, JobReq, sqlVars
  <2> QED
    BY <2>1, <2>2 DEF IInv
<1>2. CASE \E r \in Requests : Expire(r)
  BY <1>1, <1>2 DEF Expire, poolVars
<1>3. CASE UNCHANGED vars
  BY <1>1, <1>3 DEF vars, poolVars
<1> QED
  BY <1>2, <1>3, TransmitStep, TakeStep, GetStep, ReleaseStep, NotifyStep, QueryStep, StartStep,
     ExecuteStep, FailStep, EndStep, ReplyStep, BreakStep, CrashStep DEF Next, ThreadStep

THEOREM IInvariant == Spec => []IInv
  BY InitIInv, NextIInv, PTL DEF Spec

-----------------------------------------------------------------------------
(* What has become of each execution of a request: it is queued, then with  *)
(* one thread, and is committed and answered at most once on the way.       *)

Busy(t)   == w[t].at # "idle"
Ended(t)  == w[t].code # None /\ w[t].at \in {"release", "notify", "reply", "cache"}
Queued(j) == j \in InSeq(tasks)
Told(j)   == \E m \in told : m.job = j

JobInv ==
  /\ Distinct(tasks)
  /\ \A t \in Threads : Busy(t) => ~Queued(w[t].job)
  /\ \A t, u \in Threads : Busy(t) /\ Busy(u) /\ w[t].job = w[u].job => t = u
  /\ \A j \in InSeq(tasks) \cup applied : j \in Jobs /\ j.n <= sends[j.req]
  /\ \A t \in Threads : Busy(t) => w[t].job.n <= sends[w[t].job.req]
  /\ \A m \in told : m.job \in Jobs /\ m.job.n <= sends[m.job.req]

\* What has been committed, and said, of the execution a thread has.
EndInv(t) ==
  /\ Busy(t) /\ ~Ended(t) => w[t].job \notin applied
  /\ Ended(t) /\ w[t].job \notin cut => (w[t].code = 0 <=> w[t].job \in applied)
  /\ w[t].at = "end" /\ w[t].ok /\ w[t].job \notin cut => tx[w[t].conn].open
  /\ w[t].at \in {"reply", "cache"} => w[t].code # None
  /\ Busy(t) /\ w[t].at # "cache" => ~Told(w[t].job)
  /\ w[t].at = "cache" => Ack(t) \in told

AckInv ==
  /\ \A j \in InSeq(tasks) : j \notin applied /\ ~Told(j)
  /\ \A t \in Threads : EndInv(t)
  /\ \A r \in Requests : acks[r] = None \/ acks[r] \in told
  /\ AckTrue

\* The executions of a request that were, or may yet be, committed.
Live(r) == {j \in Jobs : j.req = r /\ (Queued(j) \/ \E t \in Threads : Busy(t) /\ w[t].job = j)}
Runs(r) == Live(r) \cup {j \in applied : j.req = r}

GateInv ==
  /\ expired \in [Requests -> Nat]
  /\ \A r \in Requests : Gated(r) =>
       /\ IsFiniteSet(Runs(r))
       /\ Cardinality(Runs(r)) <= expired[r] + (IF r \in marks THEN 1 ELSE 0)
       /\ r \notin marks => Live(r) = {}

RunInv == JobInv /\ AckInv /\ GateInv

LEMMA HeldJob ==
  ASSUME IInv, NEW t \in Threads, Busy(t)
  PROVE  w[t].job \in Jobs
<1>1. w[t].job.req \in Requests /\ w[t].job \in [req : Requests \cup {None}, n : Nat]
  BY DEF IInv, WorkInv, Work, StepInv, Busy
<1> QED
  BY <1>1 DEF Jobs

\* The gate stays shut when no execution is added.
LEMMA GateKept ==
  ASSUME GateInv, UNCHANGED <<req, expired, marks>>,
         \A r \in Requests : Runs(r)' \subseteq Runs(r) /\ Live(r)' \subseteq Live(r)
  PROVE  GateInv'
<1> SUFFICES ASSUME NEW r \in Requests, Gated(r)'
             PROVE  /\ IsFiniteSet(Runs(r)')
                    /\ Cardinality(Runs(r)') <= expired'[r] + (IF r \in marks' THEN 1 ELSE 0)
                    /\ r \notin marks' => Live(r)' = {}
  BY DEF GateInv
<1>1. Gated(r)
  BY DEF Gated
<1>2. /\ IsFiniteSet(Runs(r)) /\ expired[r] \in Nat
      /\ Cardinality(Runs(r)) <= expired[r] + (IF r \in marks THEN 1 ELSE 0)
      /\ r \notin marks => Live(r) = {}
  BY <1>1 DEF GateInv
<1>3. IsFiniteSet(Runs(r)') /\ Cardinality(Runs(r)') <= Cardinality(Runs(r))
  BY <1>2, FS_Subset
<1>4. Cardinality(Runs(r)) \in Nat /\ Cardinality(Runs(r)') \in Nat
  BY <1>2, <1>3, FS_CardinalityType
<1>5. r \notin marks' => Live(r)' = {}
  BY <1>2
<1>6. expired'[r] = expired[r] /\ marks' = marks
  OBVIOUS
<1> DEFINE x == Cardinality(Runs(r))
           y == Cardinality(Runs(r)')
           e == expired[r]
           b == IF r \in marks THEN 1 ELSE 0
<1>7. x \in Nat /\ y \in Nat /\ e \in Nat /\ b \in Nat /\ y <= x /\ x <= e + b
  BY <1>2, <1>3, <1>4
<1> HIDE DEF x, y, e, b
<1>8. y <= e + b
  BY <1>7
<1> QED
  BY <1>2, <1>3, <1>5, <1>6, <1>8 DEF y, e, b

\* A step of a thread that goes on with its execution.
LEMMA GoesOn ==
  ASSUME IInv, RunInv, NEW t \in Threads, Busy(t), w[t].at \notin {"reply", "cache"},
         \A u \in Threads : u # t => w'[u] = w[u],
         w'[t].job = w[t].job, w'[t].at \notin {"idle", "cache"},
         UNCHANGED <<req, sends, tasks, told, acks, marks, expired>>,
         applied \subseteq applied', applied' \subseteq applied \cup {w[t].job},
         cut \subseteq cut',
         \A c \in Conns : c # w[t].conn => tx'[c] = tx[c],
         EndInv(t)'
  PROVE  RunInv'
<1>1. /\ w[t].job \in Jobs /\ ~Queued(w[t].job) /\ ~Told(w[t].job)
      /\ w[t].job.n <= sends[w[t].job.req]
      /\ \A u \in Threads : u # t /\ Busy(u) => w[u].job # w[t].job
  BY HeldJob DEF RunInv, JobInv, AckInv, EndInv
<1>2. \A u \in Threads : (Busy(u)' <=> Busy(u)) /\ w'[u].job = w[u].job
  BY DEF Busy
<1>3. JobInv'
  BY <1>1, <1>2 DEF RunInv, JobInv, Queued
<1>4. \A j : (Queued(j)' <=> Queued(j)) /\ (Told(j)' <=> Told(j))
  BY DEF Queued, Told
<1>5. ASSUME NEW u \in Threads, u # t PROVE EndInv(u)'
  <2>1. w'[u] = w[u] /\ EndInv(u) /\ (Busy(u) => w[u].job # w[t].job)
    BY <1>1, <1>5 DEF RunInv, AckInv
  <2>2. w[u].at = "end" => tx'[w[u].conn] = tx[w[u].conn]
    <3>1. w[u].at = "end" => w[u].conn # None
      BY DEF IInv, StepInv
    <3>2. w[u].conn # None => w[u].conn \in Conns /\ w[t].conn # w[u].conn
      BY <1>5, Private
    <3> QED
      BY <3>1, <3>2
  <2>3. /\ Busy(u)' <=> Busy(u)
        /\ Ended(u)' <=> Ended(u)
        /\ Ack(u)' = Ack(u)
    BY <2>1 DEF Busy, Ended, Ack
  <2>4. Busy(u) => (w[u].job \in applied' <=> w[u].job \in applied)
    BY <2>1
  <2>5. Ended(u) => Busy(u)
    BY DEF Ended, Busy
  <2> QED
    BY <2>1, <2>2, <2>3, <2>4, <2>5, <1>4 DEF EndInv
<1>6. AckTrue'
  <2>1. \A m \in told : m.job # w[t].job
    BY <1>1 DEF Told
  <2> QED
    BY <2>1 DEF RunInv, AckInv, AckTrue
<1>7. AckInv'
  <2>1. \A j \in InSeq(tasks) : j # w[t].job
    BY <1>1 DEF Queued
  <2>2. \A j \in InSeq(tasks') : j \notin applied' /\ ~Told(j)'
    BY <2>1, <1>4 DEF RunInv, AckInv
  <2>3. \A r \in Requests : acks'[r] = None \/ acks'[r] \in told'
    BY DEF RunInv, AckInv
  <2> QED
    BY <1>5, <1>6, <2>2, <2>3 DEF AckInv
<1>8. \A r \in Requests : Runs(r)' \subseteq Runs(r) /\ Live(r)' \subseteq Live(r)
  <2> SUFFICES ASSUME NEW r \in Requests
               PROVE  Runs(r)' \subseteq Runs(r) /\ Live(r)' \subseteq Live(r)
    OBVIOUS
  <2>1. Live(r)' = Live(r)
    BY <1>2, <1>4 DEF Live
  <2>2. w[t].job.req = r => w[t].job \in Live(r)
    BY <1>1 DEF Live
  <2> QED
    BY <2>1, <2>2 DEF Runs
<1> QED
  BY <1>3, <1>7, <1>8, GateKept DEF RunInv

LEMMA RunGet ==
  ASSUME IInv, RunInv, NEW t \in Threads, GetConnection(t) PROVE RunInv'
<1>1. /\ w[t].at = "get" /\ WorkInv /\ EndInv(t)
      /\ UNCHANGED <<req, sends, tasks, sqlVars, redis, history>>
  BY DEF GetConnection, IInv, RunInv, AckInv
<1>2. \/ w' = w
      \/ \E c \in Conns \cup {None}, x \in {"begin", "run"} : w' = [w EXCEPT ![t].conn = c, ![t].at = x]
  <2>1. CASE pool = <<>>
    BY <2>1 DEF GetConnection
  <2>2. CASE pool # <<>>
    <3>1. pool \in Seq(1 .. opened) /\ opened \in Conns /\ 1 .. opened \subseteq Conns
      BY SocialAssumption DEF IInv, PoolInv, Conns
    <3>2. Head(pool) \in Conns
      BY <2>2, <3>1, HeadTailProperties
    <3>3. w' = [w EXCEPT ![t].conn = Head(pool),
                         ![t].at = IF Call(t).kind = "txn" THEN "begin" ELSE "run"]
      BY <2>2 DEF GetConnection
    <3> QED
      BY <3>2, <3>3
  <2> QED
    BY <2>1, <2>2
<1>3. /\ \A u \in Threads : u # t => w'[u] = w[u]
      /\ w'[t].job = w[t].job /\ w'[t].at \in {"get", "begin", "run"}
  <2>1. ASSUME NEW c \in Conns \cup {None}, NEW x \in {"begin", "run"},
               w' = [w EXCEPT ![t].conn = c, ![t].at = x]
        PROVE  /\ \A u \in Threads : u # t => w'[u] = w[u]
               /\ w'[t].job = w[t].job /\ w'[t].at = x
    BY <1>1, <2>1, UpdateConn DEF Places
  <2> QED
    BY <1>1, <1>2, <2>1
<1>4. EndInv(t)'
  BY <1>1, <1>3 DEF EndInv, Busy, Ended, Told, history
<1> QED
  BY <1>1, <1>3, <1>4, GoesOn DEF Busy, sqlVars, redis, history

LEMMA RunRelease ==
  ASSUME IInv, RunInv, NEW t \in Threads, ReleaseConnection(t) PROVE RunInv'
<1>1. /\ w[t].at = "release" /\ WorkInv /\ EndInv(t)
      /\ w' = [w EXCEPT ![t].conn = None, ![t].at = "notify"]
      /\ UNCHANGED <<req, sends, tasks, sqlVars, redis, history>>
  BY DEF ReleaseConnection, IInv, RunInv, AckInv
<1>2. /\ \A u \in Threads : u # t => w'[u] = w[u]
      /\ w'[t].job = w[t].job /\ w'[t].at = "notify" /\ w'[t].code = w[t].code
  BY <1>1, UpdateConn DEF Places
<1>3. EndInv(t)'
  <2>1. (Ended(t)' <=> Ended(t)) /\ Busy(t)' /\ Busy(t)
    BY <1>1, <1>2 DEF Ended, Busy
  <2>2. Told(w[t].job)' <=> Told(w[t].job)
    BY <1>1, <1>2 DEF Told, history
  <2>3. applied' = applied /\ cut' = cut
    BY <1>1 DEF history
  <2> QED
    BY <1>1, <1>2, <2>1, <2>2, <2>3 DEF EndInv
<1> QED
  BY <1>1, <1>2, <1>3, GoesOn DEF Busy, sqlVars, redis, history

LEMMA RunNotify ==
  ASSUME IInv, RunInv, NEW t \in Threads, ReleaseNotifies(t) PROVE RunInv'
<1>1. /\ w[t].at = "notify" /\ WorkInv /\ EndInv(t)
      /\ UNCHANGED <<req, sends, tasks, sqlVars, redis, history>>
  BY DEF ReleaseNotifies, IInv, RunInv, AckInv
<1>2. /\ \A u \in Threads : u # t => w'[u] = w[u]
      /\ w'[t].job = w[t].job /\ w'[t].code = w[t].code
      /\ w'[t].at = IF w[t].code = None THEN "get" ELSE "reply"
  BY <1>1 DEF ReleaseNotifies, WorkInv, Work
<1>3. EndInv(t)'
  BY <1>1, <1>2 DEF EndInv, Busy, Ended, Told, history
<1> QED
  BY <1>1, <1>2, <1>3, GoesOn DEF Busy, sqlVars, redis, history

LEMMA RunFind ==
  ASSUME IInv, RunInv, NEW t \in Threads, RunQuery(t) PROVE RunInv'
<1>1. /\ w[t].at = "run" /\ WorkInv /\ EndInv(t) /\ StepInv(t)
      /\ UNCHANGED <<req, sends, tasks, sqlVars, redis, history>>
  BY DEF RunQuery, IInv, RunInv, AckInv
<1>2. Call(t).code \in Nat \ {0}
  BY <1>1, CallLemma
<1>3. PICK code \in (Nat \ {0}) \cup {None} : w' = [w EXCEPT ![t].at = "release", ![t].code = code]
  BY <1>2 DEF RunQuery
<1>4. /\ \A u \in Threads : u # t => w'[u] = w[u]
      /\ w'[t].job = w[t].job /\ w'[t].at = "release" /\ w'[t].code = code
  BY <1>1, <1>3, UpdateCode DEF Places
<1>5. EndInv(t)'
  <2>1. code # 0
    BY SocialAssumption
  <2> QED
    BY <1>1, <1>4, <2>1 DEF EndInv, Busy, Ended, Told, history
<1> QED
  BY <1>1, <1>4, <1>5, GoesOn DEF Busy, sqlVars, redis, history

LEMMA RunStart ==
  ASSUME IInv, RunInv, NEW t \in Threads, StartTransaction(t) PROVE RunInv'
<1>1. /\ w[t].at = "begin" /\ WorkInv /\ EndInv(t) /\ SqlInv
      /\ w' = [w EXCEPT ![t].at = "run"] /\ tx' = [tx EXCEPT ![w[t].conn].open = w[t].conn \notin broken]
      /\ UNCHANGED <<req, sends, tasks, redis, history>>
  BY DEF StartTransaction, IInv, RunInv, AckInv
<1>2. /\ \A u \in Threads : u # t => w'[u] = w[u]
      /\ w'[t].job = w[t].job /\ w'[t].at = "run"
  BY <1>1, UpdateAt DEF Places
<1>3. EndInv(t)'
  BY <1>1, <1>2 DEF EndInv, Busy, Ended, Told, history
<1>4. \A c \in Conns : c # w[t].conn => tx'[c] = tx[c]
  BY <1>1 DEF SqlInv
<1> QED
  BY <1>1, <1>2, <1>3, <1>4, GoesOn DEF Busy, redis, history

\* A statement in a transaction that succeeds leaves it open; a statement by
\* itself is all there is to commit.
LEMMA RunWrite ==
  ASSUME IInv, RunInv, NEW t \in Threads, Execute(t) \/ LostReply(t) PROVE RunInv'
<1> DEFINE c == w[t].conn
<1>0. PICK ok \in BOOLEAN : (ok /\ Execute(t)) \/ (~ok /\ LostReply(t))
  OBVIOUS
<1>1. /\ Executing(t) /\ Free(t) /\ Write(t) /\ After(t, ok) /\ w[t].at = "run"
      /\ UNCHANGED <<req, sends, tasks, redis, told>>
      /\ nextGroup' \in Nat
  <2>1. CASE ok /\ Execute(t)
    <3>1. After(t, ok)
      BY <2>1 DEF Execute, After
    <3>2. nextGroup' \in Nat
      BY <2>1 DEF Execute, IInv, WorkInv
    <3> QED
      BY <2>1, <3>1, <3>2 DEF Execute, Executing
  <2>2. CASE ~ok /\ LostReply(t)
    <3>1. After(t, ok)
      BY <2>2 DEF LostReply, After
    <3> QED
      BY <2>2, <3>1 DEF LostReply, Executing, IInv, WorkInv
  <2> QED
    BY <1>0, <2>1, <2>2
<1>2. /\ w'[t].conn = c /\ c # None /\ \A u \in Threads : u # t => w'[u] = w[u]
      /\ Kind(t) \in {"auto", "txn"} /\ Op(t)' = Op(t)
      /\ Kind(t) = "auto" => w'[t].at = "release"
      /\ Kind(t) = "txn" => w'[t].at \in {"run", "end"} /\ w'[t].ok = ok
      /\ w'[t].job = w[t].job
      /\ w'[t].code = IF Kind(t) # "auto" THEN w[t].code ELSE Outcome(t, ok)
  BY <1>1, AfterLemma DEF c
<1>3. /\ StepInv(t) /\ TxInv(t) /\ SqlInv /\ WorkInv /\ EndInv(t) /\ c \in Conns /\ c \notin broken
      /\ Call(t).kind = Kind(t) /\ Call(t).code \in Nat \ {0}
  BY <1>1, <1>2, CallLemma, Private DEF IInv, RunInv, AckInv, Free, c
<1>4. /\ w[t].job \notin applied /\ ~Told(w[t].job)
  BY <1>1, <1>3 DEF EndInv, Busy, Ended
<1>5. /\ applied' = IF Kind(t) = "auto" THEN applied \cup {w[t].job} ELSE applied
      /\ cut \subseteq cut' /\ (Kind(t) = "txn" => cut' = cut) /\ (ok \/ w[t].job \in cut')
  <2>1. CASE ok /\ Execute(t)
    BY <2>1, <1>3 DEF Execute
  <2>2. CASE ~ok /\ LostReply(t)
    BY <2>2, <1>3 DEF LostReply
  <2> QED
    BY <1>0, <2>1, <2>2
<1>6. \A d \in Conns : d # c => tx'[d] = tx[d]
  <2>1. DOMAIN tx = Conns
    BY <1>3 DEF SqlInv
  <2> QED
    BY <1>1, <2>1 DEF Write, c
<1>7. EndInv(t)'
  <2>1. Told(w[t].job)' <=> Told(w[t].job)
    BY <1>1, <1>2 DEF Told
  <2>2. CASE Kind(t) = "auto"
    <3>1. w'[t].at = "release" /\ w'[t].code = Outcome(t, ok) /\ w'[t].job \in applied'
      BY <1>2, <1>5, <2>2
    <3>2. ok => w'[t].code = 0
      BY <3>1 DEF Outcome
    <3>3. w'[t].code # None
      BY <3>1, <1>3, SocialAssumption DEF Outcome
    <3>4. w'[t].job \notin cut' => ok
      BY <1>2, <1>5
    <3> QED
      BY <1>2, <1>4, <2>1, <3>1, <3>2, <3>3, <3>4 DEF EndInv, Busy, Ended
  <2>3. CASE Kind(t) = "txn"
    <3>1. applied' = applied /\ w'[t].at \in {"run", "end"} /\ cut' = cut
      BY <1>2, <1>5, <2>3
    <3>2. tx[c].open = TRUE
      BY <1>1, <1>3, <2>3 DEF TxInv, c
    <3>3. tx'[c].open = TRUE
      <4>1. DOMAIN tx = Conns /\ tx[c] = [open |-> tx[c].open, writes |-> tx[c].writes]
        BY <1>3 DEF SqlInv
      <4>2. tx' = [tx EXCEPT ![c].writes = With(@, Stmt(t).key, Stmt(t).row)]
        BY <1>1, <3>2 DEF Write, c
      <4> QED
        BY <1>3, <3>2, <4>1, <4>2
    <3> QED
      BY <1>2, <1>4, <2>1, <3>1, <3>3 DEF EndInv, Busy, Ended
  <2> QED
    BY <1>2, <2>2, <2>3
<1>8. applied \subseteq applied' /\ applied' \subseteq applied \cup {w[t].job} /\ cut \subseteq cut'
  BY <1>5
<1>9. /\ Busy(t) /\ w[t].at \notin {"reply", "cache"} /\ w'[t].at \notin {"idle", "cache"}
      /\ w'[t].job = w[t].job /\ \A u \in Threads : u # t => w'[u] = w[u]
  BY <1>1, <1>2 DEF Busy
<1> QED
  BY <1>1, <1>6, <1>7, <1>8, <1>9, GoesOn DEF redis, c

LEMMA RunFail ==
  ASSUME IInv, RunInv, NEW t \in Threads, StatementFails(t) \/ DeadlockVictim(t) PROVE RunInv'
<1> DEFINE c == w[t].conn
<1>1. /\ Executing(t) /\ After(t, FALSE) /\ w[t].at = "run"
      /\ tx' = tx \/ tx' = [tx EXCEPT ![c] = Closed]
      /\ UNCHANGED <<req, sends, tasks, redis, history, nextGroup>>
  BY DEF StatementFails, DeadlockVictim, Executing, sqlVars
<1>2. /\ nextGroup' \in Nat /\ SqlInv /\ EndInv(t) /\ WorkInv /\ StepInv(t)
  BY <1>1 DEF IInv, WorkInv, RunInv, AckInv
<1>3. /\ \A u \in Threads : u # t => w'[u] = w[u]
      /\ Kind(t) \in {"auto", "txn"}
      /\ Kind(t) = "auto" => w'[t].at = "release"
      /\ Kind(t) = "txn" => w'[t].at \in {"run", "end"}
      /\ w'[t].job = w[t].job /\ w'[t].ok = FALSE
      /\ w'[t].code = IF Kind(t) # "auto" THEN w[t].code ELSE Outcome(t, FALSE)
  BY <1>1, <1>2, AfterLemma
<1>4. Outcome(t, FALSE) \in Nat \ {0}
  BY <1>1, <1>2, CallLemma DEF Outcome
<1>5. EndInv(t)'
  <2>1. w[t].job \notin applied' /\ ~Told(w[t].job)'
    BY <1>1, <1>2, <1>3 DEF EndInv, Busy, Ended, history, Told
  <2> QED
    BY <1>3, <1>4, <2>1 DEF EndInv, Busy, Ended
<1>6. \A d \in Conns : d # c => tx'[d] = tx[d]
  BY <1>1, <1>2 DEF SqlInv
<1>7. /\ Busy(t) /\ w[t].at \notin {"reply", "cache"} /\ w'[t].at \notin {"idle", "cache"}
  BY <1>1, <1>3 DEF Busy
<1> QED
  BY <1>1, <1>3, <1>5, <1>6, <1>7, GoesOn DEF redis, history

\* A commit without an open transaction is one of an execution that was cut.
LEMMA RunEnd ==
  ASSUME IInv, RunInv, NEW t \in Threads, Commit(t) \/ Rollback(t) PROVE RunInv'
<1> DEFINE c == w[t].conn
<1>1. PICK ok \in BOOLEAN : Ending(t, ok) /\ (ok <=> Commit(t))
  BY DEF Commit, Rollback, Ending
<1>2. /\ w[t].at = "end" /\ w[t].ok = ok
      /\ w' = [w EXCEPT ![t].at = "release", ![t].code = Outcome(t, ok)]
      /\ UNCHANGED <<req, sends, tasks, redis, told, cut>>
      /\ tx' = [tx EXCEPT ![c] = Closed]
      /\ applied' = IF ok /\ tx[c].open THEN applied \cup {w[t].job} ELSE applied
  BY <1>1 DEF Ending, Commit, Rollback, RolledBack
<1>3. WorkInv /\ StepInv(t) /\ SqlInv /\ EndInv(t)
  BY DEF IInv, RunInv, AckInv
<1>4. Outcome(t, ok) \in Nat /\ Outcome(t, ok) # None /\ (Outcome(t, ok) = 0 <=> ok)
  BY <1>2, <1>3, CallLemma, SocialAssumption DEF Outcome
<1>5. /\ \A u \in Threads : u # t => w'[u] = w[u]
      /\ w'[t].at = "release" /\ w'[t].code = Outcome(t, ok) /\ w'[t].job = w[t].job
  BY <1>2, <1>3, <1>4, UpdateCode DEF Places
<1>6. w[t].job \notin applied /\ ~Told(w[t].job)
  BY <1>2, <1>3 DEF EndInv, Busy, Ended
<1>7. w[t].job \notin cut => (ok <=> w[t].job \in applied')
  BY <1>2, <1>3, <1>6 DEF EndInv
<1>8. EndInv(t)'
  <2>1. ~Told(w[t].job)'
    BY <1>2, <1>5, <1>6 DEF Told
  <2> QED
    BY <1>2, <1>4, <1>5, <1>7, <2>1 DEF EndInv, Busy, Ended
<1>9. \A d \in Conns : d # c => tx'[d] = tx[d]
  BY <1>2, <1>3 DEF SqlInv
<1>10. applied \subseteq applied' /\ applied' \subseteq applied \cup {w[t].job} /\ cut \subseteq cut'
  BY <1>2
<1> QED
  BY <1>2, <1>5, <1>8, <1>9, <1>10, GoesOn DEF Busy, redis

\* A transmission that passes the gate adds a new execution; one that does
\* not repeats an answer.
LEMMA RunTransmit ==
  ASSUME IInv, RunInv, NEW r \in Requests, Transmit(r) PROVE RunInv'
<1> DEFINE j == [req |-> r, n |-> sends[r] + 1]
<1>1. /\ sends \in [Requests -> Nat] /\ sends' = [sends EXCEPT ![r] = @ + 1]
      /\ UNCHANGED <<req, w, tx, acks, expired, applied, cut>>
      /\ tasks \in Seq(Jobs) /\ JobInv /\ AckInv
  BY DEF Transmit, sqlVars, IInv, WorkInv, RunInv
<1>2. told' = told
  <2>1. acks[r] = None \/ acks[r] \in told
    BY <1>1 DEF AckInv
  <2> QED
    BY <2>1 DEF Transmit
<1>3. j \in Jobs /\ j.req = r /\ j.n = sends[r] + 1 /\ j.n \in Nat
  BY <1>1 DEF Jobs
<1> HIDE DEF j
<1>4. /\ \A s \in Requests : sends[s] <= sends'[s] /\ sends'[s] \in Nat /\ sends[s] \in Nat
      /\ sends'[r] = sends[r] + 1
  BY <1>1
<1>5. \A i \in Jobs : i.n <= sends[i.req] => i.n <= sends'[i.req] /\ i # j
  <2> SUFFICES ASSUME NEW i \in Jobs, i.n <= sends[i.req]
               PROVE  i.n <= sends'[i.req] /\ i # j
    OBVIOUS
  <2>1. i.n \in Nat /\ i.req \in Requests
    BY DEF Jobs
  <2>2. i.n <= sends'[i.req]
    BY <1>4, <2>1
  <2>3. ~(sends[r] + 1 <= sends[r])
    BY <1>1
  <2> QED
    BY <1>3, <2>2, <2>3
<1>6. /\ \A i \in InSeq(tasks) \cup applied : i \in Jobs /\ i.n <= sends'[i.req] /\ i # j
      /\ \A t \in Threads : Busy(t) => w[t].job.n <= sends'[w[t].job.req] /\ w[t].job # j
      /\ \A m \in told : m.job \in Jobs /\ m.job.n <= sends'[m.job.req] /\ m.job # j
  BY <1>1, <1>5, HeldJob DEF JobInv
<1>7. CASE ~Passes(r)
  <2>1. tasks' = tasks /\ marks' = marks
    BY <1>7 DEF Transmit
  <2>2. JobInv'
    BY <1>1, <1>2, <1>6, <2>1 DEF JobInv, Busy, Queued, InSeq
  <2>3. AckInv'
    BY <1>1, <1>2, <2>1 DEF AckInv, AckTrue, EndInv, Busy, Ended, Told, Ack
  <2>4. GateInv'
    BY <1>1, <2>1, GateKept DEF RunInv, Runs, Live, Queued, Busy
  <2> QED
    BY <2>2, <2>3, <2>4 DEF RunInv
<1>8. CASE Passes(r)
  <2>1. tasks' = Append(tasks, j) /\ marks' = IF Gated(r) THEN marks \cup {r} ELSE marks
    BY <1>8 DEF Transmit, j
  <2>2. InSeq(tasks') = InSeq(tasks) \cup {j} /\ Distinct(tasks')
    <3>1. Distinct(tasks) /\ j \notin InSeq(tasks)
      BY <1>1, <1>6 DEF JobInv
    <3> QED
      BY <1>1, <1>3, <2>1, <3>1, AppendSet
  <2>3. j.n <= sends'[j.req]
    BY <1>3, <1>4
  <2>4. JobInv'
    <3>1. \A t \in Threads : Busy(t)' => ~Queued(w[t].job)'
      BY <1>1, <1>6, <2>2 DEF JobInv, Busy, Queued
    <3>2. \A i \in InSeq(tasks') \cup applied' : i \in Jobs /\ i.n <= sends'[i.req]
      BY <1>1, <1>3, <1>6, <2>2, <2>3
    <3> QED
      BY <1>1, <1>2, <1>6, <2>2, <3>1, <3>2 DEF JobInv, Busy
  <2>5. AckInv'
    <3>1. \A i \in InSeq(tasks') : i \notin applied' /\ ~Told(i)'
      BY <1>1, <1>2, <1>6, <2>2 DEF AckInv, Told
    <3> QED
      BY <1>1, <1>2, <3>1 DEF AckInv, AckTrue, EndInv, Busy, Ended, Told, Ack
  <2>6. GateInv'
    <3> SUFFICES ASSUME NEW s \in Requests, Gated(s)'
                 PROVE  /\ IsFiniteSet(Runs(s)')
                        /\ Cardinality(Runs(s)') <= expired'[s] + (IF s \in marks' THEN 1 ELSE 0)
                        /\ s \notin marks' => Live(s)' = {}
      BY <1>1 DEF RunInv, GateInv
    <3>1. Gated(s)
      BY <1>1 DEF Gated
    <3>2. /\ IsFiniteSet(Runs(s)) /\ expired[s] \in Nat
          /\ Cardinality(Runs(s)) <= expired[s] + (IF s \in marks THEN 1 ELSE 0)
          /\ s \notin marks => Live(s) = {}
      BY <3>1 DEF RunInv, GateInv
    <3>3. Cardinality(Runs(s)) \in Nat
      BY <3>2, FS_CardinalityType
    <3>4. CASE s # r
      <4>1. Runs(s)' = Runs(s) /\ Live(s)' = Live(s)
        BY <1>1, <1>3, <2>2, <3>4 DEF Runs, Live, Queued, Busy
      <4>2. s \in marks' <=> s \in marks
        BY <2>1, <3>4
      <4> QED
        BY <1>1, <3>2, <4>1, <4>2
    <3>5. CASE s = r
      <4>1. r \notin marks /\ r \in marks'
        BY <1>8, <2>1, <3>1, <3>5 DEF Passes
      <4>2. Runs(s)' = Runs(s) \cup {j}
        BY <1>1, <1>3, <2>2, <3>5 DEF Runs, Live, Queued, Busy
      <4>3. IsFiniteSet(Runs(s)') /\ Cardinality(Runs(s)') <= Cardinality(Runs(s)) + 1
        BY <3>2, <3>3, <4>2, FS_AddElement
      <4>4. Cardinality(Runs(s)) <= expired[s]
        BY <3>2, <3>5, <4>1
      <4>5. Cardinality(Runs(s)') \in Nat
        BY <4>3, FS_CardinalityType
      <4>6. Cardinality(Runs(s)') <= expired[s] + 1
        BY <3>2, <3>3, <4>3, <4>4, <4>5
      <4> QED
        BY <1>1, <3>2, <3>5, <4>1, <4>3, <4>6
    <3> QED
      BY <3>4, <3>5
  <2> QED
    BY <2>4, <2>5, <2>6 DEF RunInv
<1> QED
  BY <1>7, <1>8

LEMMA RunTake ==
  ASSUME IInv, RunInv, NEW t \in Threads, TakeTask(t) PROVE RunInv'
<1> DEFINE j == Head(tasks)
<1>1. /\ tasks \in Seq(Jobs) /\ tasks # <<>> /\ w \in [Threads -> Work]
      /\ tasks' = Tail(tasks) /\ w' = [w EXCEPT ![t] = Fresh("get", j)] /\ w[t].at = "idle"
      /\ UNCHANGED <<req, sends, tx, marks, acks, expired, told, applied, cut>>
      /\ JobInv /\ AckInv
  BY DEF TakeTask, sqlVars, redis, history, IInv, WorkInv, RunInv
<1>2. /\ j \in Jobs /\ InSeq(tasks) = InSeq(tasks') \cup {j} /\ j \notin InSeq(tasks')
      /\ Distinct(tasks')
  BY <1>1, TailSet DEF JobInv
<1> HIDE DEF j
<1>3. /\ \A u \in Threads : u # t => w'[u] = w[u]
      /\ w'[t].at = "get" /\ w'[t].job = j /\ w'[t].code = None
  BY <1>1 DEF Fresh
<1>4. /\ Busy(t)' /\ ~Busy(t) /\ ~Ended(t)'
      /\ \A u \in Threads : u # t => (Busy(u)' <=> Busy(u)) /\ w'[u].job = w[u].job
  BY <1>1, <1>3 DEF Busy, Ended
<1>5. /\ \A u \in Threads : Busy(u) => w[u].job # j
      /\ j \notin applied /\ ~Told(j) /\ j.n <= sends[j.req]
  BY <1>1, <1>2 DEF JobInv, AckInv, Queued
<1>6. JobInv'
  <2>1. \A u \in Threads : Busy(u)' => ~Queued(w[u].job)'
    BY <1>1, <1>2, <1>3, <1>4 DEF JobInv, Queued
  <2>2. \A u, v \in Threads : Busy(u)' /\ Busy(v)' /\ w'[u].job = w'[v].job => u = v
    BY <1>1, <1>3, <1>4, <1>5 DEF JobInv
  <2>3. \A u \in Threads : Busy(u)' => w'[u].job.n <= sends'[w'[u].job.req]
    BY <1>1, <1>3, <1>4, <1>5 DEF JobInv
  <2>4. \A i \in InSeq(tasks') \cup applied' : i \in Jobs /\ i.n <= sends'[i.req]
    BY <1>1, <1>2 DEF JobInv
  <2> QED
    BY <1>1, <1>2, <2>1, <2>2, <2>3, <2>4 DEF JobInv
<1>7. AckInv'
  <2>1. EndInv(t)'
    BY <1>1, <1>3, <1>4, <1>5 DEF EndInv, Told
  <2>2. \A u \in Threads : u # t => EndInv(u)'
    BY <1>1, <1>3 DEF AckInv, EndInv, Busy, Ended, Told, Ack
  <2>3. \A i \in InSeq(tasks') : i \notin applied' /\ ~Told(i)'
    BY <1>1, <1>2 DEF AckInv, Told
  <2> QED
    BY <1>1, <2>1, <2>2, <2>3 DEF AckInv, AckTrue
<1>8. \A r \in Requests : Runs(r)' \subseteq Runs(r) /\ Live(r)' \subseteq Live(r)
  <2> SUFFICES ASSUME NEW r \in Requests
               PROVE  Runs(r)' \subseteq Runs(r) /\ Live(r)' \subseteq Live(r)
    OBVIOUS
  <2>1. Live(r)' \subseteq Live(r)
    BY <1>2, <1>3, <1>4 DEF Live, Queued
  <2> QED
    BY <1>1, <2>1 DEF Runs
<1> QED
  BY <1>1, <1>6, <1>7, <1>8, GateKept DEF RunInv

\* The execution of a thread is over, or its answer is yet to be cached.
LEMMA RunReply ==
  ASSUME IInv, RunInv, NEW t \in Threads, Reply(t) \/ CacheAck(t) PROVE RunInv'
<1>1. /\ w \in [Threads -> Work] /\ EndInv(t) /\ JobInv /\ AckInv
      /\ UNCHANGED <<req, sends, tasks, tx, marks, expired, applied, cut>>
      /\ w[t].at \in {"reply", "cache"} /\ Busy(t)
  BY DEF Reply, CacheAck, sqlVars, redis, history, IInv, WorkInv, RunInv, AckInv, Busy
<1>2. /\ \A u \in Threads : u # t => w'[u] = w[u]
      /\ \/ ~Busy(t)'
         \/ /\ w'[t].at = "cache" /\ w'[t].job = w[t].job /\ w'[t].code = w[t].code
            /\ Ack(t) \in told'
  <2>1. w' = [w EXCEPT ![t] = Idle] \/ (w' = [w EXCEPT ![t].at = "cache"] /\ Reply(t))
    BY <1>1 DEF Reply, CacheAck
  <2>2. CASE w' = [w EXCEPT ![t] = Idle]
    BY <1>1, <2>2 DEF Idle, Fresh, Busy
  <2>3. CASE w' = [w EXCEPT ![t].at = "cache"] /\ Reply(t)
    BY <1>1, <2>3 DEF Reply, Work
  <2> QED
    BY <2>1, <2>2, <2>3
<1>3. /\ told \subseteq told' /\ told' \subseteq told \cup {Ack(t)}
      /\ \A r \in Requests : acks'[r] = acks[r] \/ acks'[r] \in told'
  <2>1. CASE Reply(t)
    BY <2>1 DEF Reply, redis, history
  <2>2. CASE CacheAck(t)
    BY <1>1, <2>2 DEF CacheAck, history, EndInv
  <2> QED
    BY <2>1, <2>2
<1>4. /\ Ack(t).job = w[t].job /\ Ack(t).code = w[t].code /\ w[t].job \in Jobs /\ Ended(t)
      /\ w[t].job.n <= sends[w[t].job.req]
  BY <1>1, HeldJob DEF Ack, Ended, EndInv, JobInv
<1>5. \A u \in Threads : /\ Busy(u)' => Busy(u) /\ w'[u].job = w[u].job
                         /\ Busy(u) /\ u # t => w[u].job # w[t].job
  BY <1>1, <1>2 DEF Busy, JobInv
<1>6. \A j : Told(j)' => Told(j) \/ j = w[t].job
  BY <1>3, <1>4 DEF Told
<1>7. JobInv'
  <2>1. \A m \in told' : m.job \in Jobs /\ m.job.n <= sends[m.job.req]
    BY <1>1, <1>3, <1>4 DEF JobInv
  <2> QED
    BY <1>1, <1>5, <2>1 DEF JobInv, Queued
<1>8. \A u \in Threads : EndInv(u)'
  <2>1. ASSUME NEW u \in Threads, u # t PROVE EndInv(u)'
    <3>1. (Busy(u)' <=> Busy(u)) /\ (Ended(u)' <=> Ended(u)) /\ Ack(u)' = Ack(u) /\ w'[u] = w[u]
      BY <1>2, <2>1 DEF Busy, Ended, Ack
    <3>2. EndInv(u)
      BY <1>1 DEF AckInv
    <3>3. Busy(u) /\ Told(w[u].job)' => Told(w[u].job)
      BY <1>3, <1>4, <1>5, <2>1, <3>1 DEF Told
    <3>4. w[u].at = "cache" => Ack(u) \in told'
      BY <1>3, <3>2 DEF EndInv
    <3> QED
      BY <1>1, <3>1, <3>2, <3>3, <3>4 DEF EndInv
  <2>2. EndInv(t)'
    <3>1. CASE ~Busy(t)'
      BY <3>1 DEF EndInv, Busy, Ended
    <3>2. CASE w'[t].at = "cache" /\ w'[t].job = w[t].job /\ w'[t].code = w[t].code /\ Ack(t) \in told'
      <4>1. Ack(t)' = Ack(t) /\ Ended(t)' /\ Ended(t)
        BY <1>4, <3>2 DEF Ack, Ended
      <4> QED
        BY <1>1, <3>2, <4>1 DEF EndInv
    <3> QED
      BY <1>2, <3>1, <3>2
  <2> QED
    BY <2>1, <2>2
<1>9. AckTrue'
  <2>1. Ack(t).job \notin cut => (Ack(t).code = 0 <=> Ack(t).job \in applied)
    BY <1>1, <1>4 DEF EndInv
  <2>2. AckTrue
    BY <1>1 DEF AckInv
  <2> QED
    BY <1>1, <1>3, <2>1, <2>2 DEF AckTrue
<1>10. AckInv'
  <2>1. \A j \in InSeq(tasks') : j \notin applied' /\ ~Told(j)'
    <3>1. \A j \in InSeq(tasks) : j # w[t].job
      BY <1>1 DEF JobInv, Queued
    <3> QED
      BY <1>1, <1>6, <3>1 DEF AckInv
  <2>2. \A r \in Requests : acks'[r] = None \/ acks'[r] \in told'
    BY <1>1, <1>3 DEF AckInv
  <2> QED
    BY <1>8, <1>9, <2>1, <2>2 DEF AckInv
<1>11. \A r \in Requests : Runs(r)' \subseteq Runs(r) /\ Live(r)' \subseteq Live(r)
  <2> SUFFICES ASSUME NEW r \in Requests
               PROVE  Runs(r)' \subseteq Runs(r) /\ Live(r)' \subseteq Live(r)
    OBVIOUS
  <2>1. Live(r)' \subseteq Live(r)
    BY <1>1, <1>5 DEF Live, Queued
  <2> QED
    BY <1>1, <2>1 DEF Runs
<1> QED
  BY <1>1, <1>7, <1>10, <1>11, GateKept DEF RunInv

\* A lost connection cuts the execution that has it.
LEMMA RunBreak ==
  ASSUME IInv, RunInv, NEW c \in Conns, Break(c) PROVE RunInv'
<1>1. /\ UNCHANGED <<req, sends, tasks, w, marks, acks, expired, told, applied>>
      /\ cut' = cut \cup JobsOn(c) /\ tx' = [tx EXCEPT ![c] = Closed]
      /\ JobInv /\ AckInv /\ SqlInv
  BY DEF Break, redis, RunInv, IInv
<1>2. JobInv'
  BY <1>1 DEF JobInv, Busy, Queued
<1>3. ASSUME NEW t \in Threads PROVE EndInv(t)'
  <2>1. EndInv(t)
    BY <1>1 DEF AckInv
  <2>2. /\ (Busy(t)' <=> Busy(t)) /\ (Ended(t)' <=> Ended(t)) /\ Ack(t)' = Ack(t)
        /\ (Told(w[t].job)' <=> Told(w[t].job)) /\ w'[t] = w[t]
    BY <1>1 DEF Busy, Ended, Ack, Told
  <2>3. w[t].at = "end" /\ w[t].ok /\ w[t].job \notin cut' => tx'[w[t].conn].open
    <3>1. CASE w[t].conn = c
      BY <1>1, <3>1 DEF JobsOn, Holders
    <3>2. CASE w[t].conn # c /\ w[t].at = "end"
      <4>1. w[t].conn \in Conns
        BY <3>2, Private DEF IInv, StepInv
      <4> QED
        BY <1>1, <2>1, <3>2, <4>1 DEF EndInv, SqlInv
    <3> QED
      BY <3>1, <3>2
  <2> QED
    BY <1>1, <2>1, <2>2, <2>3 DEF EndInv
<1>4. AckInv'
  <2>1. AckTrue'
    BY <1>1 DEF AckInv, AckTrue
  <2> QED
    BY <1>1, <1>3, <2>1 DEF AckInv, Told
<1>5. GateInv'
  BY <1>1, GateKept DEF RunInv, Runs, Live, Queued, Busy
<1> QED
  BY <1>2, <1>4, <1>5 DEF RunInv

LEMMA RunCrash ==
  ASSUME IInv, RunInv, Crash PROVE RunInv'
<1>1. /\ UNCHANGED <<req, sends, marks, acks, expired, told, applied, cut>>
      /\ tasks' = <<>> /\ w' = [t \in Threads |-> Idle]
      /\ JobInv /\ AckInv
  BY DEF Crash, redis, RunInv
<1>2. \A t \in Threads : w'[t].at = "idle"
  BY <1>1 DEF Idle, Fresh
<1>3. InSeq(tasks') = {} /\ Distinct(tasks')
  BY <1>1 DEF InSeq, Distinct
<1>4. JobInv'
  BY <1>1, <1>2, <1>3 DEF JobInv, Busy
<1>5. AckInv'
  <2>1. \A t \in Threads : EndInv(t)'
    BY <1>2 DEF EndInv, Busy, Ended
  <2> QED
    BY <1>1, <1>3, <2>1 DEF AckInv, AckTrue
<1>6. GateInv'
  BY <1>1, <1>2, <1>3, GateKept DEF RunInv, Runs, Live, Queued, Busy
<1> QED
  BY <1>4, <1>5, <1>6 DEF RunInv

\* A mark goes when no execution of its request is left; the next
\* transmission passes.
LEMMA RunExpire ==
  ASSUME IInv, RunInv, NEW r \in Requests, Expire(r) PROVE RunInv'
<1>1. /\ UNCHANGED <<req, sends, tasks, w, tx, told, applied, cut>>
      /\ r \in marks /\ marks' = marks \ {r}
      /\ expired' = [expired EXCEPT ![r] = @ + 1]
      /\ \A t \in Threads : w[t].job.req # r
      /\ \A i \in DOMAIN tasks : tasks[i].req # r
      /\ JobInv /\ AckInv
  BY DEF Expire, sqlVars, history, RunInv
<1>2. \A s \in Requests : acks'[s] = None \/ acks'[s] \in told
  BY <1>1 DEF Expire, AckInv
<1>3. JobInv'
  BY <1>1 DEF JobInv, Busy, Queued
<1>4. AckInv'
  BY <1>1, <1>2 DEF AckInv, AckTrue, EndInv, Busy, Ended, Told, Ack
<1>5. \A s \in Requests : Live(s)' = Live(s) /\ Runs(s)' = Runs(s)
  BY <1>1 DEF Runs, Live, Queued, Busy
<1>6. Live(r) = {}
  BY <1>1 DEF Live, Queued, InSeq
<1>7. GateInv'
  <2> SUFFICES ASSUME NEW s \in Requests, Gated(s)'
               PROVE  /\ IsFiniteSet(Runs(s)')
                      /\ Cardinality(Runs(s)') <= expired'[s] + (IF s \in marks' THEN 1 ELSE 0)
                      /\ s \notin marks' => Live(s)' = {}
    BY <1>1 DEF RunInv, GateInv
  <2>1. Gated(s)
    BY <1>1 DEF Gated
  <2>2. /\ IsFiniteSet(Runs(s)) /\ expired[s] \in Nat
        /\ Cardinality(Runs(s)) <= expired[s] + (IF s \in marks THEN 1 ELSE 0)
        /\ s \notin marks => Live(s) = {}
    BY <2>1 DEF RunInv, GateInv
  <2>3. (s # r => expired'[s] = expired[s]) /\ (s = r => expired'[s] = expired[s] + 1)
    BY <1>1 DEF RunInv, GateInv
  <2>4. CASE s # r
    <3>1. s \in marks' <=> s \in marks
      BY <1>1, <2>4
    <3> QED
      BY <1>5, <2>2, <2>3, <2>4, <3>1
  <2>5. CASE s = r
    <3>1. expired'[s] = expired[s] + 1
      BY <2>3, <2>5
    <3>2. s \in marks /\ s \notin marks'
      BY <1>1, <2>5
    <3>3. Cardinality(Runs(s)) \in Nat
      BY <2>2, FS_CardinalityType
    <3>4. Cardinality(Runs(s)') <= expired'[s] + 0
      BY <1>5, <2>2, <3>1, <3>2, <3>3
    <3> QED
      BY <1>5, <1>6, <2>2, <2>3, <2>5, <3>2, <3>4
  <2> QED
    BY <2>4, <2>5
<1> QED
  BY <1>3, <1>4, <1>7 DEF RunInv

LEMMA InitRunInv == Init => RunInv
<1> SUFFICES ASSUME Init PROVE RunInv
  OBVIOUS
<1>1. InSeq(tasks) = {} /\ Distinct(tasks) /\ applied = {} /\ told = {}
  BY DEF Init, InSeq, Distinct
<1>2. \A t \in Threads : w[t].at = "idle"
  BY DEF Init, Idle, Fresh
<1>3. JobInv
  BY <1>1, <1>2 DEF JobInv, Busy
<1>4. AckInv
  BY <1>1, <1>2 DEF AckInv, AckTrue, EndInv, Busy, Ended, Init
<1>5. GateInv
  <2>1. \A r \in Requests : Live(r) = {} /\ Runs(r) = {}
    BY <1>1, <1>2 DEF Live, Runs, Queued, Busy
  <2>2. Cardinality({}) = 0 /\ IsFiniteSet({})
    BY FS_EmptySet
  <2>3. expired \in [Requests -> Nat] /\ \A r \in Requests : expired[r] = 0 /\ r \notin marks
    BY DEF Init
  <2> QED
    BY <2>1, <2>2, <2>3 DEF GateInv
<1> QED
  BY <1>3, <1>4, <1>5 DEF RunInv

LEMMA NextRunInv == IInv /\ RunInv /\ [Next]_vars => RunInv'
<1> SUFFICES ASSUME IInv, RunInv, [Next]_vars PROVE RunInv'
  OBVIOUS
<1>1. CASE UNCHANGED vars
  <2>1. UNCHANGED <<req, sends, tasks, w, tx, marks, acks, expired, told, applied, cut>>
    BY <1>1 DEF vars, sqlVars, redis, history
  <2>2. JobInv'
    BY <2>1 DEF RunInv, JobInv, Busy, Queued
  <2>3. AckInv'
    BY <2>1 DEF RunInv, AckInv, AckTrue, EndInv, Busy, Ended, Told, Ack
  <2>4. GateInv'
    BY <2>1, GateKept DEF RunInv, Runs, Live, Queued, Busy
  <2> QED
    BY <2>2, <2>3, <2>4 DEF RunInv
<1> QED
  BY <1>1, RunTransmit, RunTake, RunGet, RunRelease, RunNotify, RunFind, RunStart, RunWrite, RunFail,
     RunEnd, RunReply, RunBreak, RunCrash, RunExpire DEF Next, ThreadStep

-----------------------------------------------------------------------------
(* Rows of users and groups are inserted once and stay: the lock of a       *)
(* transaction that has inserted one keeps every other from doing so before *)
(* it ends.                                                                 *)

Lasting(k) == k[1] \in {"User", "GroupInfo"}

LockInv ==
  /\ \A c, d \in Conns : c # d => DOMAIN tx[c].writes \cap DOMAIN tx[d].writes = {}
  /\ \A c \in Conns : ~tx[c].open => DOMAIN tx[c].writes = {}
  /\ \A c \in Conns : \A k \in DOMAIN tx[c].writes :
       Lasting(k) => Row(db, k) = None /\ tx[c].writes[k] # None

\* What an open transaction of each operation has written.
Contents(t, f) ==
  LET a == JobReq(t).a  g == w[t].gid IN
  /\ Op(t) = "reg" => DOMAIN f = IF w[t].at = "run" THEN {} ELSE {User(a)}
  /\ Op(t) = "createGroup" =>
       IF w[t].at = "run" /\ w[t].stmt = 1 THEN DOMAIN f = {}
       ELSE /\ f[Group(g)] = a
            /\ IF w[t].at = "run" THEN DOMAIN f = {Group(g)}
               ELSE DOMAIN f = {Group(g), Member(g, a)} /\ f[Member(g, a)] = "creator"
  /\ OnFriends(Op(t)) => \A k \in DOMAIN f : k[1] = "Friend"

Filled(t) ==
  (w[t].at = "run" \/ (w[t].at = "end" /\ w[t].ok)) /\ tx[w[t].conn].open =>
    Contents(t, tx[w[t].conn].writes)

NameInv ==
  /\ \A j \in applied : req[j.req].op = "reg" => Row(db, User(req[j.req].a)) # None
  /\ \A i, j \in {x \in applied : req[x.req].op = "reg"} : req[i.req].a = req[j.req].a => i = j

RowInv == LockInv /\ NameInv /\ CreatorIsMember /\ \A t \in Threads : Filled(t)

LEMMA KeyNames ==
  ASSUME NEW x, NEW y
  PROVE  /\ User(x)[1] = "User" /\ Group(x)[1] = "GroupInfo" /\ Member(x, y)[1] = "GroupMember"
         /\ Friend(x, y)[1] = "Friend"
         /\ Lasting(User(x)) /\ Lasting(Group(x)) /\ ~Lasting(Member(x, y)) /\ ~Lasting(Friend(x, y))
BY DEF User, Group, Member, Friend, Lasting

LEMMA KeyInjective ==
  ASSUME NEW x, NEW y, NEW u, NEW v
  PROVE  /\ User(x) = User(u) => x = u
         /\ Group(x) = Group(u) => x = u
         /\ Member(x, y) = Member(u, v) => x = u /\ y = v
<1>1. User(x)[2] = x /\ User(u)[2] = u /\ Group(x)[2] = x /\ Group(u)[2] = u
  BY DEF User, Group
<1>2. Member(x, y)[2] = x /\ Member(u, v)[2] = u /\ Member(x, y)[3] = y /\ Member(u, v)[3] = v
  BY DEF Member
<1> QED
  BY <1>1, <1>2

LEMMA RowAfterWrite ==
  ASSUME SqlInv, NEW key, NEW row, NEW k
  PROVE  Row(Rows(With(db, key, row)), k) = IF k = key THEN row ELSE Row(db, k)
<1> DEFINE g == With(db, key, row)
           f == Rows(g)
<1>1. /\ DOMAIN g = DOMAIN db \cup {key} /\ g[key] = row
      /\ \A x \in DOMAIN db : x # key => g[x] = db[x]
  BY DEF With
<1>2. DOMAIN f = {x \in DOMAIN g : g[x] # None} /\ \A x \in DOMAIN f : f[x] = g[x]
  BY DEF Rows
<1> HIDE DEF f, g
<1>3. Row(f, k) = IF k = key THEN row ELSE Row(db, k)
  BY <1>1, <1>2 DEF Row, SqlInv
<1> QED
  BY <1>3 DEF f, g

LEMMA RowAfterCommit ==
  ASSUME SqlInv, NEW c \in Conns, NEW k
  PROVE  Row(Rows([x \in DOMAIN db \cup DOMAIN tx[c].writes |-> Seen(c, x)]), k) = Seen(c, k)
<1> DEFINE g == [x \in DOMAIN db \cup DOMAIN tx[c].writes |-> Seen(c, x)]
           f == Rows(g)
<1>1. DOMAIN g = DOMAIN db \cup DOMAIN tx[c].writes /\ \A x \in DOMAIN g : g[x] = Seen(c, x)
  OBVIOUS
<1>2. DOMAIN f = {x \in DOMAIN g : g[x] # None} /\ \A x \in DOMAIN f : f[x] = g[x]
  BY DEF Rows
<1> HIDE DEF f, g
<1>3. k \notin DOMAIN g => Seen(c, k) = None
  BY <1>1 DEF Seen, Row
<1>4. Row(f, k) = Seen(c, k)
  BY <1>1, <1>2, <1>3 DEF Row
<1> QED
  BY <1>4 DEF f, g

LEMMA RowStmt ==
  ASSUME IInv, NEW t \in Threads, Executing(t)
  PROVE  LET s == Stmt(t)  a == JobReq(t).a  b == JobReq(t).b
             g == IF Draws(t) THEN nextGroup ELSE w[t].gid
         IN
         /\ w[t].stmt \in {1, 2} /\ w[t].stmt <= CountOf(Op(t)) /\ Op(t) \in Ops /\ a \in Users
         /\ Kind(t) = "auto" <=> Op(t) \in {"addGroup", "quitGroup"}
         /\ Op(t) = "reg" => s.key = User(a) /\ s.row = "row"
         /\ OnFriends(Op(t)) => s.key[1] = "Friend"
         /\ Op(t) = "createGroup" => /\ w[t].stmt = 1 => s.key = Group(g) /\ s.row = a
                                     /\ w[t].stmt = 2 => s.key = Member(g, a) /\ s.row = "creator"
         /\ Op(t) = "addGroup" => s.key = Member(b, a) /\ s.row = "normal"
         /\ Op(t) = "quitGroup" => s.key = Member(b, a) /\ s.row = None
<1> DEFINE a == JobReq(t).a
           b == JobReq(t).b
           g == IF Draws(t) THEN nextGroup ELSE w[t].gid
           n == w[t].call
<1>1. /\ w[t].at = "run" /\ WorkInv /\ StepInv(t)
      /\ Op(t) \in Ops /\ a \in Users /\ Kind(t) # "find" /\ n \in {1, 2} /\ (n = 2 => Two(Op(t)))
  BY CallLemma DEF Executing, IInv, WorkInv, Work, StepInv
<1>2. /\ Two(Op(t)) => n = 2
      /\ ~Two(Op(t)) => n = 1
  BY <1>1 DEF Kind, KindOf
<1>3. w[t].stmt \in {1, 2} /\ w[t].stmt <= CountOf(Op(t))
  BY <1>1 DEF StepInv, WorkInv, Work, CountOf
<1>4. Stmt(t) = Calls(Op(t), a, b, g)[n].stmts[w[t].stmt]
  BY DEF Stmt, Op
<1>5. Kind(t) = "auto" <=> Op(t) \in {"addGroup", "quitGroup"}
  BY <1>1 DEF Kind, KindOf
<1> HIDE DEF a, b, g, n
<1>6. CASE Op(t) = "reg"
  <2>1. w[t].stmt = 1 /\ n = 2
    BY <1>2, <1>3, <1>6 DEF CountOf, OnFriends, Two
  <2>2. Stmt(t) = Insert(User(a), "row")
    BY <1>4, <1>6, <2>1 DEF Calls, Reg, Else, InsertUser, Change
  <2> QED
    BY <1>1, <1>3, <1>5, <1>6, <2>2 DEF Insert, OnFriends, a, b, g
<1>7. CASE OnFriends(Op(t))
  <2>1. Stmt(t).key \in {Friend(a, b), Friend(b, a)}
    <3>1. CASE Op(t) = "addFriend"
      <4>1. Stmt(t) \in {Insert(Friend(a, b), "row"), Insert(Friend(b, a), "row")}
        BY <1>2, <1>3, <1>4, <3>1 DEF Calls, AddFriend, Else, InsertFriend, Change, Two
      <4> QED
        BY <4>1 DEF Insert
    <3>2. CASE Op(t) = "delFriend"
      <4>1. Stmt(t) \in {Delete(Friend(a, b)), Delete(Friend(b, a))}
        BY <1>2, <1>3, <1>4, <3>2 DEF Calls, DelFriend, Else, RemoveFriend, Change, Two
      <4> QED
        BY <4>1 DEF Delete
    <3> QED
      BY <1>7, <3>1, <3>2 DEF OnFriends
  <2>2. Stmt(t).key[1] = "Friend"
    BY <2>1, KeyNames
  <2> QED
    BY <1>1, <1>3, <1>5, <1>7, <2>2 DEF OnFriends, a, b, g
<1>8. CASE Op(t) = "createGroup"
  <2>1. n = 1
    BY <1>2, <1>8 DEF Two
  <2>2. Calls(Op(t), a, b, g)[n].stmts = <<Insert(Group(g), a), Insert(Member(g, a), "creator")>>
    BY <1>8, <2>1 DEF Calls, CreateGroup, Else, InsertGroup, Change
  <2>3. /\ w[t].stmt = 1 => Stmt(t) = Insert(Group(g), a)
        /\ w[t].stmt = 2 => Stmt(t) = Insert(Member(g, a), "creator")
    BY <1>4, <2>2
  <2>4. /\ w[t].stmt = 1 => Stmt(t).key = Group(g) /\ Stmt(t).row = a
        /\ w[t].stmt = 2 => Stmt(t).key = Member(g, a) /\ Stmt(t).row = "creator"
    BY <2>3 DEF Insert
  <2> QED
    BY <1>1, <1>3, <1>5, <1>8, <2>4 DEF OnFriends, a, b, g
<1>9. CASE Op(t) = "addGroup"
  <2>1. w[t].stmt = 1 /\ n = 2
    BY <1>2, <1>3, <1>9 DEF CountOf, OnFriends, Two
  <2>2. Stmt(t) = Insert(Member(b, a), "normal")
    BY <1>4, <1>9, <2>1 DEF Calls, AddGroup, Else, InsertMember, Single
  <2> QED
    BY <1>1, <1>3, <1>5, <1>9, <2>2 DEF Insert, OnFriends, a, b, g
<1>10. CASE Op(t) = "quitGroup"
  <2>1. w[t].stmt = 1 /\ n = 1
    BY <1>2, <1>3, <1>10 DEF CountOf, OnFriends, Two
  <2>2. Stmt(t) = Delete(Member(b, a))
    BY <1>4, <1>10, <2>1 DEF Calls, QuitGroup, Else, DeleteMember, Single
  <2> QED
    BY <1>1, <1>3, <1>5, <1>10, <2>2 DEF Delete, OnFriends, a, b, g
<1> QED
  BY <1>1, <1>6, <1>7, <1>8, <1>9, <1>10 DEF Ops, OnFriends

LEMMA FilledKept ==
  ASSUME IInv, RowInv, NEW u \in Threads, w'[u] = w[u], req' = req,
         w[u].conn # None => tx'[w[u].conn] = tx[w[u].conn] \/ tx'[w[u].conn] = Closed
  PROVE  Filled(u)'
<1>1. Filled(u) /\ StepInv(u)
  BY DEF RowInv, IInv
<1>2. JobReq(u)' = JobReq(u) /\ Op(u)' = Op(u)
  BY DEF JobReq, Op
<1>3. CASE w[u].conn = None
  BY <1>1, <1>3 DEF Filled, StepInv
<1>4. CASE tx'[w[u].conn] = tx[w[u].conn]
  BY <1>1, <1>2, <1>4 DEF Filled, Contents
<1>5. CASE tx'[w[u].conn] = Closed
  BY <1>5 DEF Filled, Closed
<1> QED
  BY <1>3, <1>4, <1>5

\* A step that writes nothing.
LEMMA RowKept ==
  ASSUME IInv, RowInv, NEW t \in Threads, \A u \in Threads : u # t => w'[u] = w[u],
         UNCHANGED <<req, db, applied>>,
         \A c \in Conns : tx'[c] = tx[c] \/ tx'[c] = Closed,
         w'[t].at \notin {"run", "end"} \/ ~tx'[w'[t].conn].open \/ (w'[t].at = "end" /\ ~w'[t].ok)
  PROVE  RowInv'
<1>1. Filled(t)'
  BY DEF Filled
<1>2. ASSUME NEW u \in Threads, u # t PROVE Filled(u)'
  <2>1. w[u].conn # None => w[u].conn \in Conns
    BY Private
  <2> QED
    BY <1>2, <2>1, FilledKept
<1>3. LockInv'
  <2>1. \A c \in Conns : tx'[c] = Closed => DOMAIN tx'[c].writes = {}
    BY ClosedFacts
  <2> QED
    BY <2>1 DEF RowInv, LockInv
<1>4. NameInv' /\ CreatorIsMember'
  BY DEF RowInv, NameInv, CreatorIsMember
<1> QED
  BY <1>1, <1>2, <1>3, <1>4 DEF RowInv

LEMMA RowQuiet ==
  ASSUME IInv, RowInv, NEW t \in Threads,
         TakeTask(t) \/ GetConnection(t) \/ ReleaseConnection(t) \/ ReleaseNotifies(t)
           \/ RunQuery(t) \/ Reply(t) \/ CacheAck(t)
  PROVE  RowInv'
<1>1. /\ UNCHANGED <<req, sqlVars, applied>> /\ WorkInv /\ w \in [Threads -> Work]
      /\ \A u \in Threads : u # t => w'[u] = w[u]
  BY DEF TakeTask, GetConnection, ReleaseConnection, ReleaseNotifies, RunQuery, Reply, CacheAck,
         history, IInv, WorkInv
<1>2. CASE TakeTask(t)
  <2>1. w'[t].at = "get"
    BY <1>1, <1>2 DEF TakeTask, Fresh
  <2> QED
    BY <1>1, <2>1, RowKept DEF sqlVars
<1>3. CASE GetConnection(t)
  <2>1. CASE pool = <<>>
    <3>1. w'[t].at = "get"
      BY <1>3, <2>1 DEF GetConnection
    <3> QED
      BY <1>1, <3>1, RowKept DEF sqlVars
  <2>2. CASE pool # <<>>
    <3>1. w' = [w EXCEPT ![t].conn = Head(pool),
                         ![t].at = IF Call(t).kind = "txn" THEN "begin" ELSE "run"]
      BY <1>3, <2>2 DEF GetConnection
    <3>2. w'[t].conn = Head(pool)
      BY <1>1, <3>1 DEF Work
    <3>3. Head(pool) \in InSeq(pool)
      <4>1. pool \in Seq(1 .. opened)
        BY DEF IInv, PoolInv
      <4> QED
        BY <2>2, <4>1, TailSet
    <3>4. ~tx'[w'[t].conn].open
      BY <1>1, <3>2, <3>3, ClosedFacts DEF IInv, SqlInv, sqlVars
    <3> QED
      BY <1>1, <3>4, RowKept DEF sqlVars
  <2> QED
    BY <2>1, <2>2
<1>4. CASE ReleaseConnection(t)
  <2>1. w'[t].at = "notify"
    BY <1>1, <1>4 DEF ReleaseConnection, Work
  <2> QED
    BY <1>1, <2>1, RowKept DEF sqlVars
<1>5. CASE ReleaseNotifies(t)
  <2>1. w'[t].at \in {"get", "reply"}
    BY <1>1, <1>5 DEF ReleaseNotifies, Work
  <2> QED
    BY <1>1, <2>1, RowKept DEF sqlVars
<1>6. CASE RunQuery(t)
  <2>1. w'[t].at = "release"
    BY <1>1, <1>6 DEF RunQuery, Work
  <2> QED
    BY <1>1, <2>1, RowKept DEF sqlVars
<1>7. CASE Reply(t) \/ CacheAck(t)
  <2>1. w'[t].at \in {"idle", "cache"}
    BY <1>1, <1>7 DEF Reply, CacheAck, Work, Idle, Fresh
  <2> QED
    BY <1>1, <2>1, RowKept DEF sqlVars
<1> QED
  BY <1>2, <1>3, <1>4, <1>5, <1>6, <1>7

LEMMA RowStart ==
  ASSUME IInv, RowInv, NEW t \in Threads, StartTransaction(t) PROVE RowInv'
<1> DEFINE c == w[t].conn
<1>1. /\ w[t].at = "begin" /\ WorkInv /\ StepInv(t) /\ SqlInv /\ TxInv(t)
      /\ w' = [w EXCEPT ![t].at = "run"] /\ tx' = [tx EXCEPT ![c].open = c \notin broken]
      /\ UNCHANGED <<req, db, applied>>
  BY DEF StartTransaction, IInv, history
<1>2. /\ \A u \in Threads : u # t => w'[u] = w[u]
      /\ w'[t].job = w[t].job /\ w'[t].at = "run" /\ w'[t].conn = c /\ w'[t].stmt = w[t].stmt
  BY <1>1, UpdateAt DEF Places
<1>3. c \in Conns /\ \A u \in Threads : u # t => w[u].conn # c
  BY <1>1, Private DEF StepInv
<1>4. tx[c] = Closed /\ w[t].stmt = 1
  BY <1>1 DEF TxInv, StepInv
<1>5. /\ DOMAIN tx'[c].writes = {}
      /\ \A d \in Conns : d # c => tx'[d] = tx[d]
  BY <1>1, <1>3, <1>4 DEF SqlInv, Closed
<1>6. LockInv'
  BY <1>1, <1>5 DEF RowInv, LockInv
<1>7. Filled(t)'
  <2>1. Op(t)' = Op(t)
    BY <1>1, <1>2 DEF Op, JobReq
  <2> QED
    BY <1>2, <1>4, <1>5, <2>1 DEF Filled, Contents
<1>8. ASSUME NEW u \in Threads, u # t PROVE Filled(u)'
  <2>1. w[u].conn # None => tx'[w[u].conn] = tx[w[u].conn]
    BY <1>3, <1>5, <1>8, Private
  <2> QED
    BY <1>1, <1>2, <1>8, <2>1, FilledKept
<1>9. NameInv' /\ CreatorIsMember'
  BY <1>1 DEF RowInv, NameInv, CreatorIsMember
<1> QED
  BY <1>6, <1>7, <1>8, <1>9 DEF RowInv

LEMMA RowFail ==
  ASSUME IInv, RowInv, NEW t \in Threads, StatementFails(t) \/ DeadlockVictim(t) PROVE RowInv'
<1>1. /\ Executing(t) /\ After(t, FALSE) /\ SqlInv
      /\ tx' = tx \/ tx' = [tx EXCEPT ![w[t].conn] = Closed]
      /\ UNCHANGED <<req, sends, tasks, db, applied, nextGroup>>
  BY DEF StatementFails, DeadlockVictim, sqlVars, history, IInv
<1>2. nextGroup' \in Nat
  BY <1>1 DEF IInv, WorkInv
<1>3. /\ \A u \in Threads : u # t => w'[u] = w[u]
      /\ w'[t].ok = FALSE /\ w'[t].at # "run"
  <2>1. /\ \A u \in Threads : u # t => w'[u] = w[u]
        /\ w'[t].ok = FALSE /\ (w'[t].at = "run" => FALSE = TRUE)
    BY <1>1, <1>2, AfterLemma
  <2> QED
    BY <2>1
<1>4. \A c \in Conns : tx'[c] = tx[c] \/ tx'[c] = Closed
  BY <1>1 DEF SqlInv
<1> QED
  BY <1>1, <1>3, <1>4, RowKept

\* A statement in a transaction.
LEMMA RowInTxn ==
  ASSUME IInv, RowInv, NEW t \in Threads, Execute(t), Kind(t) = "txn"
  PROVE  RowInv'
<1> DEFINE c == w[t].conn
           s == Stmt(t)
           a == JobReq(t).a
           f == tx[c].writes
<1>1. /\ Executing(t) /\ Free(t) /\ ~Duplicate(t) /\ Write(t) /\ After(t, TRUE)
      /\ nextGroup' \in Nat /\ UNCHANGED <<req, sends, tasks>>
      /\ w[t].at = "run" /\ WorkInv /\ StepInv(t) /\ TxInv(t) /\ SqlInv /\ LockInv /\ Filled(t)
      /\ Call(t).kind = Kind(t)
  <2>1. WorkInv /\ StepInv(t) /\ TxInv(t) /\ SqlInv /\ LockInv /\ Filled(t)
    BY DEF IInv, RowInv
  <2>2. /\ Executing(t) /\ Free(t) /\ ~Duplicate(t) /\ Write(t) /\ After(t, TRUE)
        /\ UNCHANGED <<req, sends, tasks>> /\ w[t].at = "run"
    BY DEF Execute, Executing
  <2>3. nextGroup' \in Nat
    BY <2>1 DEF Execute, WorkInv
  <2>4. Call(t).kind = Kind(t)
    BY <2>1, <2>2, CallLemma
  <2> QED
    BY <2>1, <2>2, <2>3, <2>4
<1>2. /\ w'[t].conn = c /\ c # None /\ \A u \in Threads : u # t => w'[u] = w[u]
      /\ Op(t)' = Op(t) /\ JobReq(t)' = JobReq(t)
      /\ w'[t].at \in {"run", "end"}
      /\ w'[t].at = "run" => w[t].stmt = 1 /\ w'[t].stmt = 2 /\ CountOf(Op(t)) = 2
      /\ w'[t].at = "end" => w[t].stmt = CountOf(Op(t))
      /\ w'[t].gid = IF Draws(t) THEN nextGroup ELSE w[t].gid
  BY <1>1, AfterLemma
<1> DEFINE g == w'[t].gid
<1>3. /\ w[t].stmt \in {1, 2} /\ w[t].stmt <= CountOf(Op(t)) /\ a \in Users
      /\ Op(t) = "reg" => s.key = User(a) /\ s.row = "row"
      /\ OnFriends(Op(t)) => s.key[1] = "Friend"
      /\ Op(t) = "createGroup" => /\ w[t].stmt = 1 => s.key = Group(g) /\ s.row = a
                                  /\ w[t].stmt = 2 => s.key = Member(g, a) /\ s.row = "creator"
      /\ Op(t) \notin {"addGroup", "quitGroup"} /\ Op(t) \in Ops
  BY <1>1, <1>2, RowStmt
<1>4. /\ c \in Conns /\ tx[c].open = TRUE
      /\ \A d \in Conns : d # c => s.key \notin DOMAIN tx[d].writes
      /\ s.row # None => Seen(c, s.key) = None
      /\ \A u \in Threads : u # t => w[u].conn # c
  BY <1>1, <1>2, Private DEF Free, Blocked, Duplicate, TxInv
<1>5. db' = db /\ applied' = applied /\ tx' = [tx EXCEPT ![c].writes = With(@, s.key, s.row)]
  BY <1>1, <1>4 DEF Write, Execute
<1>6. DOMAIN tx = Conns /\ tx[c] = [open |-> TRUE, writes |-> f]
  BY <1>1, <1>4 DEF SqlInv
<1> DEFINE h == tx'[c].writes
<1>7. /\ h = With(f, s.key, s.row) /\ tx'[c].open = TRUE
      /\ \A d \in Conns : d # c => tx'[d] = tx[d]
  <2>1. tx'[c] = [tx[c] EXCEPT !.writes = With(tx[c].writes, s.key, s.row)]
    BY <1>4, <1>5, <1>6
  <2>2. tx'[c] = [open |-> TRUE, writes |-> With(f, s.key, s.row)]
    BY <1>6, <2>1, WritesLemma
  <2> QED
    BY <1>5, <1>6, <2>2
<1>8. /\ DOMAIN h = DOMAIN f \cup {s.key} /\ h[s.key] = s.row
      /\ \A k \in DOMAIN f : k # s.key => h[k] = f[k]
  BY <1>7 DEF With
<1>9. Contents(t, f) /\ (Op(t) = "reg" => DOMAIN f = {})
  BY <1>1, <1>4 DEF Filled, Contents
<1>10. Lasting(s.key) => s.row # None
  <2>1. a # None /\ "row" # None
    BY <1>3, SocialAssumption
  <2>2. CASE Op(t) = "reg"
    BY <1>3, <2>1, <2>2
  <2>3. CASE OnFriends(Op(t))
    BY <1>3, <2>3 DEF Lasting
  <2>4. CASE Op(t) = "createGroup"
    BY <1>3, <2>1, <2>4, KeyNames
  <2> QED
    BY <1>3, <2>2, <2>3, <2>4 DEF Ops, OnFriends
<1> HIDE DEF c, s, a, f, g, h
<1>11. LockInv'
  <2>1. \A d, e \in Conns : d # e => DOMAIN tx'[d].writes \cap DOMAIN tx'[e].writes = {}
    <3>1. \A d \in Conns : d # c => DOMAIN h \cap DOMAIN tx[d].writes = {}
      BY <1>1, <1>4, <1>8 DEF LockInv, f
    <3>2. \A d \in Conns : DOMAIN tx'[d].writes = IF d = c THEN DOMAIN h ELSE DOMAIN tx[d].writes
      BY <1>7 DEF h
    <3> QED
      BY <1>1, <1>4, <3>1, <3>2 DEF LockInv
  <2>2. \A d \in Conns : ~tx'[d].open => DOMAIN tx'[d].writes = {}
    BY <1>1, <1>7 DEF LockInv
  <2>3. ASSUME NEW k \in DOMAIN h, Lasting(k) PROVE Row(db, k) = None /\ h[k] # None
    <3>1. CASE k # s.key
      BY <1>1, <1>4, <1>8, <2>3, <3>1 DEF LockInv, f
    <3>2. CASE k = s.key
      <4>1. s.row # None /\ Seen(c, k) = None
        BY <1>4, <1>10, <2>3, <3>2
      <4>2. k \notin DOMAIN f
        BY <1>1, <1>4, <2>3, <4>1 DEF Seen, LockInv, f
      <4> QED
        BY <1>8, <3>2, <4>1, <4>2 DEF Seen, f
    <3> QED
      BY <3>1, <3>2
  <2>4. \A d \in Conns : \A k \in DOMAIN tx'[d].writes :
          Lasting(k) => Row(db', k) = None /\ tx'[d].writes[k] # None
    <3>1. ASSUME NEW d \in Conns, NEW k \in DOMAIN tx'[d].writes, Lasting(k)
          PROVE  Row(db', k) = None /\ tx'[d].writes[k] # None
      <4>1. CASE d = c
        BY <1>5, <2>3, <3>1, <4>1 DEF h
      <4>2. CASE d # c
        BY <1>1, <1>5, <1>7, <3>1, <4>2 DEF LockInv
      <4> QED
        BY <4>1, <4>2
    <3> QED
      BY <3>1
  <2> QED
    BY <2>1, <2>2, <2>4 DEF LockInv
<1>12. Contents(t, tx[w[t].conn].writes)'
  <2>1. tx'[w'[t].conn].writes = h
    BY <1>2 DEF h, c
  <2>2. ASSUME Op(t) = "reg" PROVE w'[t].at = "end" /\ DOMAIN h = {User(a)}
    <3>1. CountOf(Op(t)) = 1
      BY <2>2 DEF CountOf, OnFriends
    <3> QED
      BY <1>2, <1>3, <1>8, <1>9, <2>2, <3>1
  <2>3. ASSUME Op(t) = "createGroup"
        PROVE  /\ h[Group(g)] = a
               /\ w'[t].at = "run" => DOMAIN h = {Group(g)} /\ w'[t].stmt = 2
               /\ w'[t].at = "end" => DOMAIN h = {Group(g), Member(g, a)} /\ h[Member(g, a)] = "creator"
    <3>1. CountOf(Op(t)) = 2
      BY <2>3 DEF CountOf, OnFriends
    <3>2. Group(g) # Member(g, a)
      BY KeyNames
    <3>3. CASE w[t].stmt = 1
      <4>1. DOMAIN f = {}
        BY <1>1, <1>9, <2>3, <3>3 DEF Contents
      <4>2. s.key = Group(g) /\ s.row = a
        BY <1>3, <2>3, <3>3
      <4>3. w'[t].at = "run" /\ w'[t].stmt = 2
        BY <1>2, <3>1, <3>3
      <4> QED
        BY <1>8, <4>1, <4>2, <4>3
    <3>4. CASE w[t].stmt = 2
      <4>1. g = w[t].gid
        BY <1>2, <3>4 DEF Draws, g
      <4>2. DOMAIN f = {Group(g)} /\ f[Group(g)] = a
        BY <1>1, <1>9, <2>3, <3>4, <4>1 DEF Contents, a
      <4>3. s.key = Member(g, a) /\ s.row = "creator"
        BY <1>3, <2>3, <3>4
      <4>4. w'[t].at = "end"
        BY <1>2, <3>4
      <4> QED
        BY <1>8, <3>2, <4>2, <4>3, <4>4
    <3> QED
      BY <1>3, <3>3, <3>4
  <2>4. ASSUME OnFriends(Op(t)) PROVE \A k \in DOMAIN h : k[1] = "Friend"
    BY <1>3, <1>8, <1>9, <2>4 DEF Contents
  <2>5. \/ w'[t].at = "run" /\ w'[t].at # "end"
        \/ w'[t].at = "end" /\ w'[t].at # "run"
    BY <1>2
  <2> QED
    BY <1>2, <2>1, <2>2, <2>3, <2>4, <2>5 DEF Contents, a, g
<1>13. Filled(t)'
  BY <1>12 DEF Filled
<1>14. ASSUME NEW u \in Threads, u # t PROVE Filled(u)'
  <2>1. w[u].conn # None => tx'[w[u].conn] = tx[w[u].conn]
    BY <1>4, <1>7, <1>14, Private
  <2> QED
    BY <1>1, <1>2, <1>14, <2>1, FilledKept
<1>15. NameInv' /\ CreatorIsMember'
  BY <1>1, <1>5 DEF RowInv, NameInv, CreatorIsMember
<1> QED
  BY <1>11, <1>13, <1>14, <1>15 DEF RowInv

\* A statement by itself: someone joins or quits a group.
LEMMA RowAlone ==
  ASSUME IInv, RowInv, NEW t \in Threads, Execute(t) \/ LostReply(t), Kind(t) = "auto"
  PROVE  RowInv'
<1> DEFINE c == w[t].conn
           s == Stmt(t)
           x == JobReq(t).a
           y == JobReq(t).b
<1>1. PICK ok \in BOOLEAN : (ok /\ Execute(t)) \/ (~ok /\ LostReply(t))
  OBVIOUS
<1>2. /\ Executing(t) /\ Free(t) /\ ~Duplicate(t) /\ Write(t) /\ After(t, ok)
      /\ nextGroup' \in Nat /\ UNCHANGED <<req, sends, tasks>>
      /\ w[t].at = "run" /\ WorkInv /\ StepInv(t) /\ TxInv(t) /\ SqlInv /\ LockInv
  <2>1. CASE ok /\ Execute(t)
    <3>1. After(t, ok)
      BY <2>1 DEF Execute, After
    <3>2. nextGroup' \in Nat
      BY <2>1 DEF Execute, IInv, WorkInv
    <3> QED
      BY <2>1, <3>1, <3>2 DEF Execute, Executing, IInv, RowInv
  <2>2. CASE ~ok /\ LostReply(t)
    <3>1. After(t, ok)
      BY <2>2 DEF LostReply, After
    <3>2. nextGroup' \in Nat
      BY <2>2 DEF LostReply, IInv, WorkInv
    <3> QED
      BY <2>2, <3>1, <3>2 DEF LostReply, Executing, IInv, RowInv
  <2> QED
    BY <1>1, <2>1, <2>2
<1>3. /\ c # None /\ \A u \in Threads : u # t => w'[u] = w[u]
      /\ w'[t].at = "release" /\ Call(t).kind = "auto"
  BY <1>2, AfterLemma, CallLemma
<1>4. /\ Op(t) \in {"addGroup", "quitGroup"} /\ s.key = Member(y, x)
      /\ Op(t) = "addGroup" => s.row = "normal"
      /\ Op(t) = "quitGroup" => s.row = None
  BY <1>2, RowStmt
<1>5. tx[c] = Closed /\ tx[c].open = FALSE /\ DOMAIN tx[c].writes = {}
  BY <1>2, ClosedFacts DEF TxInv
<1>6. db' = Rows(With(db, s.key, s.row)) /\ tx' = tx
  BY <1>2, <1>5 DEF Write
<1>7. applied' = applied \cup {w[t].job}
  BY <1>1, <1>3 DEF Execute, LostReply
<1>8. s.row # None => Row(db, s.key) = None
  BY <1>2, <1>5 DEF Duplicate, Seen
<1> HIDE DEF c, s, x, y
<1>9. ASSUME NEW k PROVE Row(db', k) = IF k = s.key THEN s.row ELSE Row(db, k)
  BY <1>2, <1>6, RowAfterWrite
<1>10. \A k : Lasting(k) => Row(db', k) = Row(db, k)
  <2>1. ASSUME NEW k, Lasting(k) PROVE Row(db', k) = Row(db, k)
    <3>1. k # s.key
      BY <1>4, <2>1, KeyNames
    <3> QED
      BY <1>9, <3>1
  <2> QED
    BY <2>1
<1>11. LockInv'
  BY <1>2, <1>6, <1>10 DEF LockInv
<1>12. NameInv'
  <2>1. req[w[t].job.req].op # "reg"
    BY <1>4 DEF Op, JobReq
  <2>2. \A j : Row(db', User(req[j.req].a)) = Row(db, User(req[j.req].a))
    BY <1>10, KeyNames
  <2> QED
    BY <1>2, <1>7, <2>1, <2>2 DEF RowInv, NameInv
<1>13. CreatorIsMember'
  <2> SUFFICES ASSUME NEW g \in Groups, NEW u \in Users
               PROVE  /\ Row(db', Group(g)) = u =>
                           \/ Row(db', Member(g, u)) = "creator"
                           \/ \E j \in applied' : /\ req[j.req].op = "quitGroup"
                                                  /\ req[j.req].a = u /\ req[j.req].b = g
                      /\ Row(db', Member(g, u)) = "creator" => Row(db', Group(g)) = u
    BY <1>2 DEF CreatorIsMember
  <2>1. /\ Row(db, Group(g)) = u =>
             \/ Row(db, Member(g, u)) = "creator"
             \/ \E j \in applied : /\ req[j.req].op = "quitGroup"
                                   /\ req[j.req].a = u /\ req[j.req].b = g
        /\ Row(db, Member(g, u)) = "creator" => Row(db, Group(g)) = u
    BY DEF RowInv, CreatorIsMember
  <2>2. Row(db', Group(g)) = Row(db, Group(g))
    BY <1>10, KeyNames
  <2>3. CASE Member(g, u) # s.key
    <3>1. Row(db', Member(g, u)) = Row(db, Member(g, u))
      BY <1>9, <2>3
    <3> QED
      BY <1>7, <2>1, <2>2, <3>1
  <2>4. CASE Member(g, u) = s.key
    <3>1. g = y /\ u = x
      BY <1>4, <2>4, KeyInjective
    <3>2. Row(db', Member(g, u)) = s.row
      BY <1>9, <2>4
    <3>3. None # "creator"
      BY SocialAssumption
    <3>4. CASE Op(t) = "addGroup"
      <4>1. s.row = "normal" /\ Row(db, Member(g, u)) = None
        BY <1>4, <1>8, <2>4, <3>4, SocialAssumption
      <4> QED
        BY <1>7, <2>1, <2>2, <3>2, <3>3, <4>1
    <3>5. CASE Op(t) = "quitGroup"
      <4>1. /\ req[w[t].job.req].op = "quitGroup"
            /\ req[w[t].job.req].a = u /\ req[w[t].job.req].b = g
        BY <3>1, <3>5 DEF Op, JobReq, x, y
      <4>2. s.row = None
        BY <1>4, <3>5
      <4> QED
        BY <1>7, <3>2, <3>3, <4>1, <4>2
    <3> QED
      BY <1>4, <3>4, <3>5
  <2> QED
    BY <2>3, <2>4
<1>14. Filled(t)'
  BY <1>3 DEF Filled
<1>15. ASSUME NEW u \in Threads, u # t PROVE Filled(u)'
  BY <1>2, <1>3, <1>6, <1>15, FilledKept
<1> QED
  BY <1>11, <1>12, <1>13, <1>14, <1>15 DEF RowInv

\* A commit makes what the transaction has written visible at once.
LEMMA RowCommit ==
  ASSUME IInv, JobInv, RowInv, NEW t \in Threads, Commit(t) PROVE RowInv'
<1> DEFINE c == w[t].conn
           f == tx[c].writes
           a == JobReq(t).a
           g == w[t].gid
<1>1. /\ w[t].at = "end" /\ w[t].ok = TRUE /\ WorkInv /\ StepInv(t) /\ SqlInv /\ LockInv /\ Filled(t)
      /\ w' = [w EXCEPT ![t].at = "release", ![t].code = Outcome(t, TRUE)]
      /\ tx' = [tx EXCEPT ![c] = Closed] /\ req' = req
      /\ db' = Rows([k \in DOMAIN db \cup DOMAIN f |-> Seen(c, k)])
      /\ applied' = IF tx[c].open THEN applied \cup {w[t].job} ELSE applied
  BY DEF Commit, Ending, IInv, RowInv
<1>2. c \in Conns /\ DOMAIN tx = Conns /\ \A u \in Threads : u # t => w[u].conn # c
  BY <1>1, Private DEF StepInv, SqlInv
<1>3. /\ \A u \in Threads : u # t => w'[u] = w[u]
      /\ w'[t].at = "release"
  BY <1>1 DEF WorkInv, Work
<1>4. DOMAIN tx'[c].writes = {} /\ \A d \in Conns : d # c => tx'[d] = tx[d]
  BY <1>1, <1>2, ClosedFacts
<1>5. /\ Kind(t) = "txn" /\ Op(t) \in Ops /\ a \in Users /\ Op(t) \notin {"addGroup", "quitGroup"}
  BY <1>1, CallLemma DEF StepInv, Kind, KindOf, Two
<1>6. tx[c].open => Contents(t, f)
  BY <1>1 DEF Filled
<1> HIDE DEF c, f, a, g
<1>7. ASSUME NEW k PROVE Row(db', k) = IF k \in DOMAIN f THEN f[k] ELSE Row(db, k)
  BY <1>1, <1>2, RowAfterCommit DEF Seen, f
<1>8. \A k \in DOMAIN f : Lasting(k) => Row(db, k) = None /\ f[k] # None
  BY <1>1, <1>2 DEF LockInv, f
<1>9. ~tx[c].open => DOMAIN f = {}
  BY <1>1, <1>2 DEF LockInv, f
<1>10. LockInv'
  <2>1. \A d, e \in Conns : d # e => DOMAIN tx'[d].writes \cap DOMAIN tx'[e].writes = {}
    BY <1>1, <1>2, <1>4 DEF LockInv
  <2>2. \A d \in Conns : ~tx'[d].open => DOMAIN tx'[d].writes = {}
    BY <1>1, <1>4 DEF LockInv
  <2>3. ASSUME NEW d \in Conns, NEW k \in DOMAIN tx'[d].writes, Lasting(k)
        PROVE  Row(db', k) = None /\ tx'[d].writes[k] # None
    <3>1. d # c /\ tx'[d] = tx[d]
      BY <1>4, <2>3
    <3>2. k \notin DOMAIN f
      BY <1>1, <1>2, <2>3, <3>1 DEF LockInv, f
    <3> QED
      BY <1>1, <1>7, <2>3, <3>1, <3>2 DEF LockInv
  <2> QED
    BY <2>1, <2>2, <2>3 DEF LockInv
<1>11. NameInv'
  <2> DEFINE name(j) == req[j.req].a
  <2>1. /\ \A j \in applied : req[j.req].op = "reg" => Row(db, User(name(j))) # None
        /\ \A i, j \in {z \in applied : req[z.req].op = "reg"} : name(i) = name(j) => i = j
    BY DEF RowInv, NameInv
  <2>2. ASSUME NEW j \in applied, req[j.req].op = "reg" PROVE Row(db', User(name(j))) # None
    <3>1. Row(db, User(name(j))) # None
      BY <2>1, <2>2
    <3>2. User(name(j)) \notin DOMAIN f
      BY <1>8, <3>1, KeyNames
    <3> QED
      BY <1>7, <3>1, <3>2
  <2>3. ASSUME w[t].job \in applied' \ applied, req[w[t].job.req].op = "reg"
        PROVE  User(a) \in DOMAIN f /\ name(w[t].job) = a
    <3>1. tx[c].open /\ Op(t) = "reg"
      BY <1>1, <2>3 DEF Op, JobReq
    <3> QED
      BY <1>1, <1>6, <3>1 DEF Contents, JobReq, a
  <2>4. ASSUME NEW j \in applied', req[j.req].op = "reg" PROVE Row(db', User(name(j))) # None
    <3>1. CASE j \in applied
      BY <2>2, <2>4, <3>1
    <3>2. CASE j \notin applied
      <4>1. j = w[t].job
        BY <1>1, <2>4, <3>2
      <4>2. User(a) \in DOMAIN f /\ name(j) = a
        BY <2>3, <2>4, <3>2, <4>1
      <4>3. f[User(a)] # None
        BY <1>8, <4>2, KeyNames
      <4> QED
        BY <1>7, <4>2, <4>3
    <3> QED
      BY <3>1, <3>2
  <2>5. ASSUME NEW i \in applied', NEW j \in applied, req[i.req].op = "reg", req[j.req].op = "reg",
               name(i) = name(j)
        PROVE  i = j
    <3>1. CASE i \in applied
      BY <2>1, <2>5, <3>1
    <3>2. CASE i \notin applied
      <4>1. i = w[t].job
        BY <1>1, <2>5, <3>2
      <4>2. User(a) \in DOMAIN f /\ name(i) = a
        BY <2>3, <2>5, <3>2, <4>1
      <4>3. Row(db, User(a)) = None
        BY <1>8, <4>2, KeyNames
      <4>4. Row(db, User(a)) # None
        BY <2>1, <2>5, <4>2
      <4> QED
        BY <4>3, <4>4
    <3> QED
      BY <3>1, <3>2
  <2> HIDE DEF name
  <2>6. ASSUME NEW i \in applied', NEW j \in applied', req[i.req].op = "reg", req[j.req].op = "reg",
               name(i) = name(j)
        PROVE  i = j
    <3>1. i \in applied \/ i = w[t].job
      BY <1>1
    <3>2. j \in applied \/ j = w[t].job
      BY <1>1
    <3> QED
      BY <2>5, <2>6, <3>1, <3>2
  <2> QED
    BY <1>1, <2>4, <2>6 DEF NameInv, name
<1>12. CreatorIsMember'
  <2> SUFFICES ASSUME NEW h \in Groups, NEW u \in Users
               PROVE  /\ Row(db', Group(h)) = u =>
                           \/ Row(db', Member(h, u)) = "creator"
                           \/ \E j \in applied' : /\ req[j.req].op = "quitGroup"
                                                  /\ req[j.req].a = u /\ req[j.req].b = h
                      /\ Row(db', Member(h, u)) = "creator" => Row(db', Group(h)) = u
    BY <1>1 DEF CreatorIsMember
  <2>1. /\ Row(db, Group(h)) = u =>
             \/ Row(db, Member(h, u)) = "creator"
             \/ \E j \in applied : /\ req[j.req].op = "quitGroup"
                                   /\ req[j.req].a = u /\ req[j.req].b = h
        /\ Row(db, Member(h, u)) = "creator" => Row(db, Group(h)) = u
    BY DEF RowInv, CreatorIsMember
  <2>2. applied \subseteq applied'
    BY <1>1
  <2>3. CASE Group(h) \notin DOMAIN f /\ Member(h, u) \notin DOMAIN f
    <3>1. Row(db', Group(h)) = Row(db, Group(h)) /\ Row(db', Member(h, u)) = Row(db, Member(h, u))
      BY <1>7, <2>3
    <3> QED
      BY <2>1, <2>2, <3>1
  <2>4. CASE Group(h) \in DOMAIN f \/ Member(h, u) \in DOMAIN f
    <3>1. tx[c].open /\ Contents(t, f)
      BY <1>6, <1>9, <2>4
    <3>2. Op(t) = "createGroup"
      <4>1. Op(t) # "reg"
        BY <1>1, <2>4, <3>1, KeyNames DEF Contents
      <4>2. ~OnFriends(Op(t))
        BY <2>4, <3>1, KeyNames DEF Contents
      <4> QED
        BY <1>5, <4>1, <4>2 DEF Ops, OnFriends
    <3>3. /\ DOMAIN f = {Group(g), Member(g, a)}
          /\ f[Group(g)] = a /\ f[Member(g, a)] = "creator"
      BY <1>1, <3>1, <3>2 DEF Contents, a, g
    <3>4. h = g
      BY <2>4, <3>3, KeyNames, KeyInjective
    <3>5. Row(db', Group(h)) = a /\ Row(db, Group(h)) = None
      BY <1>7, <1>8, <3>3, <3>4, KeyNames
    <3>6. CASE u = a
      <4>1. Row(db', Member(h, u)) = "creator"
        BY <1>7, <3>3, <3>4, <3>6
      <4> QED
        BY <3>5, <3>6, <4>1
    <3>7. CASE u # a
      <4>1. Member(h, u) \notin DOMAIN f
        BY <3>3, <3>7, KeyNames, KeyInjective
      <4>2. Row(db', Member(h, u)) = Row(db, Member(h, u))
        BY <1>7, <4>1
      <4>3. u # None
        BY SocialAssumption
      <4> QED
        BY <2>1, <3>5, <3>7, <4>2, <4>3
    <3> QED
      BY <3>6, <3>7
  <2> QED
    BY <2>3, <2>4
<1>13. Filled(t)'
  BY <1>3 DEF Filled
<1>14. ASSUME NEW u \in Threads, u # t PROVE Filled(u)'
  <2>1. w[u].conn # None => tx'[w[u].conn] = tx[w[u].conn]
    BY <1>2, <1>4, <1>14, Private
  <2> QED
    BY <1>1, <1>3, <1>14, <2>1, FilledKept
<1> QED
  BY <1>10, <1>11, <1>12, <1>13, <1>14 DEF RowInv

LEMMA RowRollback ==
  ASSUME IInv, RowInv, NEW t \in Threads, Rollback(t) PROVE RowInv'
<1>1. /\ w' = [w EXCEPT ![t].at = "release", ![t].code = Outcome(t, FALSE)]
      /\ tx' = [tx EXCEPT ![w[t].conn] = Closed] /\ UNCHANGED <<req, db, applied>>
      /\ WorkInv /\ SqlInv
  BY DEF Rollback, Ending, RolledBack, IInv
<1>2. /\ \A u \in Threads : u # t => w'[u] = w[u]
      /\ w'[t].at = "release"
  BY <1>1 DEF WorkInv, Work
<1>3. \A c \in Conns : tx'[c] = tx[c] \/ tx'[c] = Closed
  BY <1>1 DEF SqlInv
<1> QED
  BY <1>1, <1>2, <1>3, RowKept

\* What leaves threads and rows alone.
LEMMA RowStill ==
  ASSUME IInv, RowInv, UNCHANGED <<req, w, db, applied>>,
         \A c \in Conns : tx'[c] = tx[c] \/ tx'[c] = Closed
  PROVE  RowInv'
<1>1. ASSUME NEW u \in Threads PROVE Filled(u)'
  <2>1. w[u].conn # None => w[u].conn \in Conns
    BY Private
  <2> QED
    BY <2>1, FilledKept
<1>2. LockInv'
  <2>1. \A c \in Conns : tx'[c] = Closed => DOMAIN tx'[c].writes = {}
    BY ClosedFacts
  <2> QED
    BY <2>1 DEF RowInv, LockInv
<1>3. NameInv' /\ CreatorIsMember'
  BY DEF RowInv, NameInv, CreatorIsMember
<1> QED
  BY <1>1, <1>2, <1>3 DEF RowInv

LEMMA RowBreak ==
  ASSUME IInv, RowInv, NEW c \in Conns, Break(c) PROVE RowInv'
<1>1. \A d \in Conns : tx'[d] = tx[d] \/ tx'[d] = Closed
  BY DEF Break, IInv, SqlInv
<1> QED
  BY <1>1, RowStill DEF Break

LEMMA RowCrash ==
  ASSUME IInv, RowInv, Crash PROVE RowInv'
<1>1. /\ UNCHANGED <<req, db, applied>> /\ w' = [t \in Threads |-> Idle]
      /\ tx' = [c \in Conns |-> Closed]
  BY DEF Crash
<1>2. \A t \in Threads : Filled(t)'
  BY <1>1 DEF Filled, Idle, Fresh
<1>3. LockInv'
  <2>1. \A c \in Conns : DOMAIN tx'[c].writes = {}
    BY <1>1, ClosedFacts
  <2> QED
    BY <2>1 DEF LockInv
<1>4. NameInv' /\ CreatorIsMember'
  BY <1>1 DEF RowInv, NameInv, CreatorIsMember
<1> QED
  BY <1>2, <1>3, <1>4 DEF RowInv

LEMMA InitRowInv == Init => RowInv
<1> SUFFICES ASSUME Init PROVE RowInv
  OBVIOUS
<1>1. applied = {} /\ \A t \in Threads : w[t].at = "idle"
  BY DEF Init, Idle, Fresh
<1>2. LockInv
  <2>1. \A c \in Conns : DOMAIN tx[c].writes = {}
    BY ClosedFacts DEF Init
  <2> QED
    BY <2>1 DEF LockInv
<1>3. CreatorIsMember
  <2>1. ASSUME NEW g \in Groups, NEW u \in Users
        PROVE  Row(db, Group(g)) = None /\ Row(db, Member(g, u)) = None
    <3>1. Group(g) \notin DOMAIN db /\ Member(g, u) \notin DOMAIN db
      BY KeyNames DEF Init
    <3> QED
      BY <3>1 DEF Row
  <2>2. None # "creator" /\ \A u \in Users : None # u
    BY SocialAssumption
  <2> QED
    BY <2>1, <2>2 DEF CreatorIsMember
<1>4. NameInv /\ \A t \in Threads : Filled(t)
  BY <1>1 DEF NameInv, Filled
<1> QED
  BY <1>2, <1>3, <1>4 DEF RowInv

LEMMA NextRowInv == IInv /\ RunInv /\ RowInv /\ [Next]_vars => RowInv'
<1> SUFFICES ASSUME IInv, RunInv, RowInv, [Next]_vars PROVE RowInv'
  OBVIOUS
<1>1. CASE UNCHANGED vars
  BY <1>1, RowStill DEF vars, sqlVars, history
<1>2. ASSUME NEW r \in Requests, Transmit(r) \/ Expire(r) PROVE RowInv'
  BY <1>2, RowStill DEF Transmit, Expire, sqlVars, history
<1>3. ASSUME NEW t \in Threads, Execute(t) \/ LostReply(t) PROVE RowInv'
  <2>1. Kind(t) \in {"auto", "txn"} /\ (LostReply(t) => Kind(t) = "auto")
    <3>1. Executing(t) /\ w[t].at = "run" /\ (LostReply(t) => Call(t).kind = "auto")
      BY <1>3 DEF Execute, LostReply, Executing
    <3>2. Call(t).kind = Kind(t)
      BY <3>1, CallLemma DEF IInv
    <3> QED
      BY <3>1, <3>2 DEF Executing, Kind, KindOf
  <2> QED
    BY <1>3, <2>1, RowInTxn, RowAlone
<1> QED
  BY <1>1, <1>2, <1>3, RowQuiet, RowStart, RowFail, RowCommit, RowRollback, RowBreak, RowCrash
  DEF Next, ThreadStep, RunInv

LEMMA HistoryInvariant == Spec => [](RunInv /\ RowInv)
  BY IInvariant, InitRunInv, InitRowInv, NextRunInv, NextRowInv, PTL DEF Spec

-----------------------------------------------------------------------------
(* Theorems                                                                 *)

\* Friendship is mutual and never with oneself, for any number of users,
\* threads, connections and faults: a transaction that commits has written
\* both rows (FriendModel.cpp:3, 27) and no statement of one that lost its
\* connection commits by itself.
THEOREM FriendsSymmetricHolds == Spec => []FriendsSymmetric
<1>1. IInv => FriendsSymmetric
  BY DEF IInv, SqlInv, Mutual, FriendsSymmetric
<1> QED
  BY <1>1, IInvariant, PTL

\* A connection is in the pool, without an open transaction, or has one
\* holder (mysql.hpp:28-48).
THEOREM PoolSoundHolds == Spec => []PoolSound
<1>1. ASSUME IInv PROVE PoolSound
  <2>1. \A c \in 1 .. opened : c # None
    BY <1>1, SocialAssumption DEF IInv, PoolInv, Conns
  <2>2. ASSUME NEW c \in 1 .. opened
        PROVE  Cardinality(Holders(c)) <= 1 /\ (c \in InSeq(pool) <=> Holders(c) = {})
    <3>1. CASE Holders(c) = {}
      <4>1. Cardinality(Holders(c)) = 0
        BY <3>1, FS_EmptySet
      <4>2. c \in InSeq(pool)
        BY <1>1, <3>1 DEF IInv, PoolInv, Holders
      <4> QED
        BY <3>1, <4>1, <4>2
    <3>2. CASE Holders(c) # {}
      <4>1. PICK t \in Threads : w[t].conn = c
        BY <3>2 DEF Holders
      <4>2. Holders(c) = {t}
        BY <1>1, <2>1, <4>1 DEF IInv, PoolInv, Holders
      <4>3. Cardinality(Holders(c)) = 1
        BY <4>2, FS_Singleton
      <4>4. c \notin InSeq(pool)
        BY <1>1, <2>1, <4>1 DEF IInv, PoolInv
      <4> QED
        BY <3>2, <4>3, <4>4
    <3> QED
      BY <3>1, <3>2
  <2> QED
    BY <1>1, <2>2 DEF PoolSound, IInv, PoolInv, SqlInv, Distinct
<1> QED
  BY <1>1, IInvariant, PTL

\* An ACK says success exactly when its execution was committed, for any
\* number of threads, retransmissions and faults, unless that execution lost
\* its connection: the code of an answer is decided in the step that commits
\* (FriendModel.cpp:12-21, GroupModel.cpp:25-37), and a repeated ACK is one
\* that was given before (chatservice.cpp:408-422).
THEOREM AckTrueHolds == Spec => []AckTrue
<1>1. RunInv => AckTrue
  BY DEF RunInv, AckInv
<1> QED
  BY <1>1, HistoryInvariant, PTL

\* A name is registered once, and a friend request goes through once but for
\* transmissions after its mark expired: the row of a user is inserted under
\* its lock and never deleted, and a request has at most one execution for
\* each time its mark was set (RedisMgr.cpp:171-182).
THEOREM AppliedOnceHolds == Spec => []AppliedOnce
<1>1. ASSUME RunInv, RowInv PROVE AppliedOnce
  <2>1. ASSUME NEW r \in Requests, Gated(r)
        PROVE  Cardinality({j \in applied : j.req = r}) <= 1 + expired[r]
    <3> DEFINE A == {j \in applied : j.req = r}
    <3>1. /\ IsFiniteSet(Runs(r)) /\ expired[r] \in Nat
          /\ Cardinality(Runs(r)) <= expired[r] + (IF r \in marks THEN 1 ELSE 0)
      BY <1>1, <2>1 DEF RunInv, GateInv
    <3>2. A \subseteq Runs(r)
      BY DEF Runs
    <3> HIDE DEF A
    <3>3. IsFiniteSet(A) /\ Cardinality(A) <= Cardinality(Runs(r))
      BY <3>1, <3>2, FS_Subset
    <3>4. Cardinality(A) \in Nat /\ Cardinality(Runs(r)) \in Nat
      BY <3>1, <3>3, FS_CardinalityType
    <3>5. Cardinality(A) <= 1 + expired[r]
      BY <3>1, <3>3, <3>4
    <3> QED
      BY <3>5 DEF A
  <2> QED
    BY <1>1, <2>1 DEF AppliedOnce, RowInv, NameInv
<1> QED
  BY <1>1, HistoryInvariant, PTL

\* The creator of a group is a member in that role until he has quit, and
\* nobody else has it, whoever joined the id before the group was created:
\* the row of the group and that of its creator are committed together
\* (GroupModel.cpp:4-38).
THEOREM CreatorIsMemberHolds == Spec => []CreatorIsMember
<1>1. RowInv => CreatorIsMember
  BY DEF RowInv
<1> QED
  BY <1>1, HistoryInvariant, PTL
=============================================================================
