--------------------------- MODULE ExecutorProofs ---------------------------
(* The two components that run what they are given implement Executor: the *)
(* fixed thread pool, for any workers, callers, tasks and size of the      *)
(* queue, and the event loop, for any threads and functors.                *)
EXTENDS FixedThreadPool, LoopExecutor, SequenceTheorems, TLAPS

\* Where threads are and what they hold, and the flags: the pool's goes
\* before the queue's.
Busy(t) == at[t] \in {"add", "run"} \/ (at[t] = "taken" /\ isRunning)
FlagInv ==
  /\ TypeOK
  /\ owner # "using" => ~isRunning
  /\ owner \in {"using", "queue"} => ~needstop
  /\ \A t \in Threads : Busy(t) => arg[t] \in Tasks
  /\ NoTask \notin ran

Places == {"idle", "add", "check", "take", "taken", "run", "ended"}

LEMMA GotoLemma ==
  ASSUME TypeOK, NEW t \in Threads, NEW place \in Places, NEW task \in Tasks \cup {NoTask},
         Goto(t, place, task)
  PROVE  /\ at' \in [Threads -> Places] /\ arg' \in [Threads -> Tasks \cup {NoTask}]
         /\ at'[t] = place /\ arg'[t] = task
         /\ \A u \in Threads : u # t => at'[u] = at[u] /\ arg'[u] = arg[u]
BY DEF TypeOK, Goto, Places

LEMMA ReturnLemma ==
  ASSUME TypeOK, NEW t \in Threads, Return(t)
  PROVE  /\ at' \in [Threads -> Places] /\ arg' \in [Threads -> Tasks \cup {NoTask}]
         /\ at'[t] \in {"check", "idle"}
         /\ \A u \in Threads : u # t => at'[u] = at[u] /\ arg'[u] = arg[u]
<1> DEFINE place == IF t \in Workers THEN "check" ELSE "idle"
<1>1. place \in Places /\ place \in {"check", "idle"}
  BY DEF Places
<1> HIDE DEF place
<1> QED
  BY <1>1, GotoLemma DEF Return, place

LEMMA FlagInit == Init => FlagInv
  BY EmptySeq DEF Init, FlagInv, TypeOK, Busy, Threads

LEMMA AddLemma ==
  ASSUME FlagInv, NEW t \in Threads, Add(t)
  PROVE  FlagInv'
<1>1. /\ at' \in [Threads -> Places] /\ arg' \in [Threads -> Tasks \cup {NoTask}]
      /\ at'[t] \in {"check", "idle"}
      /\ \A u \in Threads : u # t => at'[u] = at[u] /\ arg'[u] = arg[u]
  BY ReturnLemma DEF FlagInv, Add
<1>2. queue' \in Seq(Tasks)
  <2>1. arg[t] \in Tasks
    BY DEF FlagInv, Busy, Add
  <2>2. Append(queue, arg[t]) \in Seq(Tasks)
    BY <2>1, AppendProperties DEF FlagInv, TypeOK
  <2> QED
    BY <2>2 DEF Add, Pushed, FlagInv, TypeOK
<1>3. notEmpty' \subseteq Workers
  BY DEF Add, AfterOne, FlagInv, TypeOK
<1>4. UNCHANGED <<flags, notFull, given, taken, ran>>
  BY DEF Add
<1>5. TypeOK'
  BY <1>1, <1>2, <1>3, <1>4 DEF FlagInv, TypeOK, flags, Places
<1> QED
  BY <1>1, <1>4, <1>5 DEF FlagInv, Busy, flags

LEMMA TakeLemma ==
  ASSUME FlagInv, NEW w \in Workers, Take(w)
  PROVE  FlagInv'
<1> DEFINE task == IF needstop THEN NoTask ELSE Head(queue)
<1>1. ~needstop => Head(queue) \in Tasks /\ Tail(queue) \in Seq(Tasks)
                   /\ Append(taken, Head(queue)) \in Seq(Tasks)
  BY HeadTailProperties, AppendProperties DEF FlagInv, TypeOK, Take
<1>2. w \in Threads /\ task \in Tasks \cup {NoTask} /\ Goto(w, "taken", task)
  BY <1>1 DEF Take, Threads
<1>3. /\ at' \in [Threads -> Places] /\ arg' \in [Threads -> Tasks \cup {NoTask}]
      /\ at'[w] = "taken" /\ arg'[w] = task
      /\ \A u \in Threads : u # w => at'[u] = at[u] /\ arg'[u] = arg[u]
  BY <1>2, GotoLemma DEF FlagInv, Places
<1>4. queue' \in Seq(Tasks) /\ taken' \in Seq(Tasks) /\ notFull' \subseteq Threads
  BY <1>1 DEF Take, Room, AfterOne, FlagInv, TypeOK
<1>5. UNCHANGED <<flags, notEmpty, given, ran>>
  BY DEF Take
<1>6. TypeOK'
  BY <1>3, <1>4, <1>5 DEF FlagInv, TypeOK, flags, Places
<1>7. isRunning' => arg'[w] \in Tasks
  BY <1>1, <1>3, <1>5 DEF FlagInv, TypeOK, flags
<1> QED
  BY <1>3, <1>5, <1>6, <1>7 DEF FlagInv, Busy, flags

LEMMA RunLemma ==
  ASSUME FlagInv, NEW w \in Workers, Run(w)
  PROVE  FlagInv'
<1>1. w \in Threads /\ arg[w] \in Tasks
  BY DEF FlagInv, Busy, Run, Threads
<1>2. ran' \subseteq Tasks /\ NoTask \notin ran'
  BY <1>1, FixedAssumption DEF FlagInv, TypeOK, Run
<1>3. CASE Child[arg[w]] # NoTask
  <2>1. Child[arg[w]] \in Tasks
    BY <1>1, <1>3, FixedAssumption
  <2>2. Goto(w, "add", Child[arg[w]]) /\ given' = given \cup {Child[arg[w]]}
    BY <1>1, <1>3 DEF Run
  <2>3. /\ at' \in [Threads -> Places] /\ arg' \in [Threads -> Tasks \cup {NoTask}]
        /\ at'[w] = "add" /\ arg'[w] = Child[arg[w]]
        /\ \A u \in Threads : u # w => at'[u] = at[u] /\ arg'[u] = arg[u]
    BY <1>1, <2>1, <2>2, GotoLemma DEF FlagInv, Places
  <2>4. TypeOK'
    BY <1>2, <2>1, <2>2, <2>3 DEF FlagInv, TypeOK, Run, flags, sleep, Places
  <2> QED
    BY <1>2, <2>1, <2>3, <2>4 DEF FlagInv, Busy, Run, flags
<1>4. CASE Child[arg[w]] = NoTask
  <2>1. /\ at' \in [Threads -> Places] /\ arg' \in [Threads -> Tasks \cup {NoTask}]
        /\ at'[w] \in {"check", "idle"}
        /\ \A u \in Threads : u # w => at'[u] = at[u] /\ arg'[u] = arg[u]
    BY <1>1, <1>4, ReturnLemma DEF FlagInv, Run
  <2>2. given' = given
    BY <1>4 DEF Run
  <2>3. TypeOK'
    BY <1>2, <2>1, <2>2 DEF FlagInv, TypeOK, Run, flags, sleep, Places
  <2> QED
    BY <1>2, <2>1, <2>3 DEF FlagInv, Busy, Run, flags
<1> QED
  BY <1>3, <1>4

LEMMA FlagNext == FlagInv /\ [Next]_vars => FlagInv'
<1> SUFFICES ASSUME FlagInv, [Next]_vars PROVE FlagInv'
  OBVIOUS
<1>1. ASSUME NEW c \in Callers, NEW task \in Tasks, AddTask(c, task) PROVE FlagInv'
  <2>1. /\ at' \in [Threads -> Places] /\ arg' \in [Threads -> Tasks \cup {NoTask}]
        /\ at'[c] = "add" /\ arg'[c] = task
        /\ \A u \in Threads : u # c => at'[u] = at[u] /\ arg'[u] = arg[u]
    BY <1>1, GotoLemma DEF AddTask, FlagInv, Threads, Places
  <2>2. TypeOK'
    BY <1>1, <2>1 DEF AddTask, FlagInv, TypeOK, flags, sleep, Places
  <2> QED
    BY <1>1, <2>1, <2>2 DEF AddTask, FlagInv, Busy, flags
<1>2. ASSUME NEW w \in Workers, Check(w) \/ Recheck(w) PROVE FlagInv'
  <2>1. PICK place \in Places : \E task \in {NoTask, arg[w]} :
          /\ Goto(w, place, task) /\ place # "add"
          /\ place = "run" => task = arg[w] /\ at[w] = "taken" /\ isRunning
          /\ place # "taken"
    BY <1>2 DEF Check, Recheck, Places
  <2>2. PICK task \in {NoTask, arg[w]} :
          /\ Goto(w, place, task) /\ place # "add"
          /\ place = "run" => task = arg[w] /\ at[w] = "taken" /\ isRunning
          /\ place # "taken"
    BY <2>1
  <2>3. w \in Threads /\ task \in Tasks \cup {NoTask}
    BY DEF FlagInv, TypeOK, Threads
  <2>4. /\ at' \in [Threads -> Places] /\ arg' \in [Threads -> Tasks \cup {NoTask}]
        /\ at'[w] = place /\ arg'[w] = task
        /\ \A u \in Threads : u # w => at'[u] = at[u] /\ arg'[u] = arg[u]
    BY <2>2, <2>3, GotoLemma DEF FlagInv
  <2>5. UNCHANGED <<queue, flags, sleep, given, taken, ran>>
    BY <1>2 DEF Check, Recheck
  <2>6. TypeOK'
    BY <2>4, <2>5 DEF FlagInv, TypeOK, flags, sleep, Places
  <2>7. place = "run" => arg[w] \in Tasks
    BY <2>2, <2>3 DEF FlagInv, Busy
  <2> QED
    BY <2>2, <2>4, <2>5, <2>6, <2>7 DEF FlagInv, Busy, flags
<1>3. ASSUME NEW w \in Workers, TakeSleeps(w) PROVE FlagInv'
  BY <1>3 DEF TakeSleeps, FlagInv, TypeOK, Busy, flags
<1>4. ASSUME NEW t \in Threads, AddSleeps(t) PROVE FlagInv'
  BY <1>4 DEF AddSleeps, FlagInv, TypeOK, Busy, flags
<1>5. ASSUME NEW t \in Threads, Spurious(t) PROVE FlagInv'
  BY <1>5 DEF Spurious, FlagInv, TypeOK, Busy, flags
<1>6. CASE ClearRunning \/ Stopping
  <2>1. UNCHANGED <<queue, maxSize, at, arg, given, taken, ran>>
    BY <1>6 DEF ClearRunning, Stopping, SetNeedstop, NotifyEmpty, NotifyFull, Join
  <2>2. notEmpty' \in {notEmpty, {}} /\ notFull' \in {notFull, {}}
    BY <1>6 DEF ClearRunning, Stopping, SetNeedstop, NotifyEmpty, NotifyFull, Join, sleep
  <2>3. /\ isRunning' \in BOOLEAN /\ needstop' \in BOOLEAN
        /\ owner' \in {"queue", "notEmpty", "notFull", "join", "gone"}
        /\ ~isRunning' /\ (owner' = "queue" => ~needstop')
    <3>1. /\ owner \in {"using", "queue", "notEmpty", "notFull", "join"}
          /\ needstop \in BOOLEAN /\ isRunning \in BOOLEAN
          /\ owner \in {"using", "queue"} => ~needstop
          /\ owner # "using" => ~isRunning
      BY <1>6 DEF ClearRunning, Stopping, SetNeedstop, NotifyEmpty, NotifyFull, Join, FlagInv, TypeOK
    <3>2. CASE ClearRunning
      BY <3>1, <3>2, Zenon DEF ClearRunning
    <3>3. CASE SetNeedstop
      BY <3>1, <3>3, Zenon DEF SetNeedstop
    <3>4. CASE NotifyEmpty
      BY <3>1, <3>4, Zenon DEF NotifyEmpty
    <3>5. CASE NotifyFull
      BY <3>1, <3>5, Zenon DEF NotifyFull
    <3>6. CASE Join
      BY <3>1, <3>6, Zenon DEF Join
    <3> QED
      BY <1>6, <3>2, <3>3, <3>4, <3>5, <3>6 DEF Stopping
  <2>4. TypeOK'
    BY <2>1, <2>2, <2>3 DEF FlagInv, TypeOK
  <2> QED
    BY <2>1, <2>3, <2>4 DEF FlagInv, Busy
<1>7. CASE UNCHANGED vars
  BY <1>7 DEF vars, flags, sleep, FlagInv, TypeOK, Busy
<1> QED
  BY <1>1, <1>2, <1>3, <1>4, <1>5, <1>6, <1>7, AddLemma, TakeLemma, RunLemma
     DEF Next, Worker, Adding

THEOREM FlagInvariant == Spec => []FlagInv
  BY FlagInit, FlagNext, PTL DEF Spec

\* Every reachable state is well-typed, for any threads, tasks and queue size.
THEOREM TypeCorrect == Spec => []TypeOK
<1>1. FlagInv => TypeOK
  BY DEF FlagInv
<1> QED
  BY <1>1, FlagInvariant, PTL

\* A worker calls only what it took: the pool's flag is cleared before the
\* queue's (FixedThreadPool.hpp:26, 32).
THEOREM NoEmptyTaskHolds == Spec => []NoEmptyTask
<1>1. FlagInv => NoEmptyTask
  BY FixedAssumption DEF FlagInv, NoEmptyTask, Busy, Threads
<1> QED
  BY <1>1, FlagInvariant, PTL

-----------------------------------------------------------------------------
(* Every task is taken at most once, in the order of the queue              *)

InSeq(q)    == {q[i] : i \in DOMAIN q}
Distinct(q) == \A i, j \in DOMAIN q : q[i] = q[j] => i = j
Queued      == InSeq(queue)
Taken       == InSeq(taken)
Adds(t)     == at[t] = "add"
Holds(t)    == at[t] \in {"taken", "run"} /\ arg[t] # NoTask

\* No task is in two places: it is about to be queued by one thread, queued
\* once, or taken, and then held by one thread until it has run.
OnceInv ==
  /\ Distinct(queue) /\ Queued \cap Taken = {}
  /\ Queued \cup Taken \subseteq given /\ ran \subseteq Taken
  /\ \A t \in Threads : Adds(t) => arg[t] \in given \ (Queued \cup Taken)
  /\ \A t \in Threads : Holds(t) => arg[t] \in Taken \ ran
  /\ \A t, u \in Threads : t # u /\ arg[t] = arg[u] =>
       ~(Adds(t) /\ Adds(u)) /\ ~(Holds(t) /\ Holds(u))
  /\ \A p \in Tasks : Child[p] \in given => p \in ran

LEMMA AppendSet ==
  ASSUME NEW S, NEW q \in Seq(S), NEW x \in S
  PROVE  /\ InSeq(Append(q, x)) = InSeq(q) \cup {x}
         /\ Distinct(q) /\ x \notin InSeq(q) => Distinct(Append(q, x))
<1>1. /\ DOMAIN q = 1 .. Len(q) /\ DOMAIN Append(q, x) = 1 .. Len(q) + 1
      /\ Len(q) \in Nat /\ Append(q, x)[Len(q) + 1] = x
      /\ \A i \in 1 .. Len(q) : Append(q, x)[i] = q[i]
  OBVIOUS
<1>2. \A i \in 1 .. Len(q) + 1 : i \in 1 .. Len(q) \/ i = Len(q) + 1
  BY <1>1
<1>3. InSeq(Append(q, x)) = InSeq(q) \cup {x}
  <2>1. \A i \in 1 .. Len(q) : i \in 1 .. Len(q) + 1
    BY <1>1
  <2>2. Len(q) + 1 \in 1 .. Len(q) + 1
    BY <1>1
  <2> QED
    BY <1>1, <1>2, <2>1, <2>2 DEF InSeq
<1>4. ASSUME Distinct(q), x \notin InSeq(q) PROVE Distinct(Append(q, x))
  <2>1. \A i \in 1 .. Len(q) : q[i] # x
    BY <1>1, <1>4 DEF InSeq
  <2> QED
    BY <1>1, <1>2, <1>4, <2>1 DEF Distinct
<1> QED
  BY <1>3, <1>4

LEMMA TailSet ==
  ASSUME NEW S, NEW q \in Seq(S), q # <<>>
  PROVE  /\ InSeq(q) = InSeq(Tail(q)) \cup {Head(q)}
         /\ Distinct(q) => Distinct(Tail(q)) /\ Head(q) \notin InSeq(Tail(q))
<1>1. /\ DOMAIN q = 1 .. Len(q) /\ DOMAIN Tail(q) = 1 .. Len(q) - 1
      /\ Len(q) \in Nat \ {0} /\ Head(q) = q[1]
      /\ \A i \in 1 .. Len(q) - 1 : Tail(q)[i] = q[i + 1]
  BY EmptySeq
<1>2. \A i \in 1 .. Len(q) - 1 : i + 1 \in 1 .. Len(q) /\ i + 1 # 1
  BY <1>1
<1>3. \A i \in 1 .. Len(q) : i = 1 \/ (i - 1 \in 1 .. Len(q) - 1 /\ (i - 1) + 1 = i)
  BY <1>1
<1>4. \A i \in 1 .. Len(q) : i = 1 \/ Tail(q)[i - 1] = q[i]
  BY <1>1, <1>3
<1>5. 1 \in 1 .. Len(q)
  BY <1>1
<1>6. InSeq(q) = InSeq(Tail(q)) \cup {Head(q)}
  <2>1. ASSUME NEW x \in InSeq(q) PROVE x \in InSeq(Tail(q)) \cup {Head(q)}
    <3>1. PICK i \in 1 .. Len(q) : x = q[i]
      BY <1>1, <2>1 DEF InSeq
    <3>2. CASE i = 1
      BY <1>1, <3>1, <3>2
    <3>3. CASE i # 1
      BY <1>1, <1>3, <1>4, <3>1, <3>3 DEF InSeq
    <3> QED
      BY <3>2, <3>3
  <2>2. ASSUME NEW x \in InSeq(Tail(q)) PROVE x \in InSeq(q)
    BY <1>1, <1>2, <2>2 DEF InSeq
  <2>3. Head(q) \in InSeq(q)
    BY <1>1, <1>5 DEF InSeq
  <2> QED
    BY <2>1, <2>2, <2>3
<1>7. ASSUME Distinct(q) PROVE Distinct(Tail(q)) /\ Head(q) \notin InSeq(Tail(q))
  <2>1. \A i, j \in 1 .. Len(q) - 1 : i + 1 = j + 1 => i = j
    BY <1>1
  <2>2. Distinct(Tail(q))
    BY <1>1, <1>2, <1>7, <2>1 DEF Distinct
  <2>3. \A i \in 1 .. Len(q) - 1 : Tail(q)[i] # Head(q)
    BY <1>1, <1>2, <1>5, <1>7 DEF Distinct
  <2> QED
    BY <1>1, <2>2, <2>3 DEF InSeq
<1> QED
  BY <1>6, <1>7

LEMMA OnceInit == Init => OnceInv
<1> SUFFICES ASSUME Init PROVE OnceInv
  OBVIOUS
<1>1. Queued = {} /\ Taken = {} /\ Distinct(queue) /\ given = {} /\ ran = {}
  BY EmptySeq DEF Init, Queued, Taken, InSeq, Distinct
<1>2. \A t \in Threads : ~Adds(t) /\ ~Holds(t)
  BY DEF Init, Adds, Holds
<1> QED
  BY <1>1, <1>2 DEF OnceInv

LEMMA OnceAdd ==
  ASSUME FlagInv, OnceInv, NEW t \in Threads, Add(t)
  PROVE  OnceInv'
<1>1. /\ at'[t] \in {"check", "idle"}
      /\ \A u \in Threads : u # t => at'[u] = at[u] /\ arg'[u] = arg[u]
  BY ReturnLemma DEF FlagInv, Add
<1>2. arg[t] \in Tasks /\ arg[t] \in given \ (Queued \cup Taken)
  BY DEF Add, FlagInv, Busy, OnceInv, Adds
<1>3. queue \in Seq(Tasks) /\ UNCHANGED <<taken, given, ran>>
  BY DEF Add, FlagInv, TypeOK
<1>4. Queued' \in {Queued, Queued \cup {arg[t]}} /\ Distinct(queue)'
  <2>1. queue' = queue \/ queue' = Append(queue, arg[t])
    BY DEF Add, Pushed
  <2>2. Distinct(queue) /\ arg[t] \notin InSeq(queue)
    BY <1>2 DEF OnceInv, Queued
  <2>3. /\ InSeq(Append(queue, arg[t])) = InSeq(queue) \cup {arg[t]}
        /\ Distinct(Append(queue, arg[t]))
    BY <1>2, <1>3, <2>2, AppendSet
  <2>4. CASE queue' = queue
    BY <2>2, <2>4 DEF Queued
  <2>5. CASE queue' = Append(queue, arg[t])
    BY <2>3, <2>5 DEF Queued
  <2> QED
    BY <2>1, <2>4, <2>5
<1>5. Taken' = Taken
  BY <1>3 DEF Taken
<1>6. \A u \in Threads : /\ Adds(u)' => u # t /\ Adds(u) /\ arg'[u] = arg[u]
                         /\ Holds(u)' => u # t /\ Holds(u) /\ arg'[u] = arg[u]
  BY <1>1 DEF Adds, Holds
<1>7. Adds(t)
  BY DEF Add, Adds
<1>8. \A u \in Threads : Adds(u)' => arg'[u] \in given' \ (Queued' \cup Taken')
  BY <1>3, <1>4, <1>5, <1>6, <1>7 DEF OnceInv
<1> QED
  BY <1>2, <1>3, <1>4, <1>5, <1>6, <1>8 DEF OnceInv

LEMMA OnceTake ==
  ASSUME FlagInv, OnceInv, NEW w \in Workers, Take(w)
  PROVE  OnceInv'
<1>1. w \in Threads /\ UNCHANGED <<given, ran>>
  BY DEF Take, Threads
<1>2. CASE needstop
  <2>1. /\ at'[w] = "taken" /\ arg'[w] = NoTask
        /\ \A u \in Threads : u # w => at'[u] = at[u] /\ arg'[u] = arg[u]
    BY <1>1, <1>2, GotoLemma DEF Take, FlagInv, Places
  <2>2. Queued' = Queued /\ Taken' = Taken /\ Distinct(queue)' = Distinct(queue)
    BY <1>2 DEF Take, Queued, Taken
  <2>3. \A u \in Threads : /\ Adds(u)' => Adds(u) /\ arg'[u] = arg[u]
                           /\ Holds(u)' => Holds(u) /\ arg'[u] = arg[u]
    BY <2>1 DEF Adds, Holds
  <2> QED
    BY <1>1, <2>2, <2>3 DEF OnceInv
<1>3. CASE ~needstop
  <2> DEFINE h == Head(queue)
  <2>1. /\ queue \in Seq(Tasks) /\ queue # <<>> /\ taken \in Seq(Tasks)
        /\ queue' = Tail(queue) /\ taken' = Append(taken, h) /\ Goto(w, "taken", h)
    BY <1>3 DEF Take, FlagInv, TypeOK
  <2>2. h \in Tasks
    BY <2>1, HeadTailProperties
  <2> HIDE DEF h
  <2>3. /\ at'[w] = "taken" /\ arg'[w] = h
        /\ \A u \in Threads : u # w => at'[u] = at[u] /\ arg'[u] = arg[u]
    BY <1>1, <2>1, <2>2, GotoLemma DEF FlagInv, Places
  <2>4. Queued = Queued' \cup {h} /\ h \notin Queued' /\ Distinct(queue)'
    BY <2>1, TailSet DEF Queued, h, OnceInv
  <2>5. Taken' = Taken \cup {h}
    BY <2>1, <2>2, AppendSet DEF Taken
  <2>6. \A u \in Threads : /\ Adds(u)' => u # w /\ Adds(u) /\ arg'[u] = arg[u]
                           /\ Holds(u)' /\ u # w => Holds(u) /\ arg'[u] = arg[u]
    BY <2>3 DEF Adds, Holds
  <2>7. h \notin Taken /\ h \notin ran
    BY <2>4 DEF OnceInv
  <2>8. \A u \in Threads : Holds(u)' => arg'[u] \in Taken' \ ran'
    BY <1>1, <2>3, <2>5, <2>6, <2>7 DEF OnceInv
  <2>9. \A u \in Threads : u # w /\ Holds(u)' => arg'[u] # arg'[w]
    BY <2>3, <2>6, <2>7 DEF OnceInv
  <2>10. \A u, v \in Threads : u # v /\ arg'[u] = arg'[v] =>
           ~(Adds(u)' /\ Adds(v)') /\ ~(Holds(u)' /\ Holds(v)')
    BY <2>6, <2>9 DEF OnceInv
  <2>11. \A u \in Threads : Adds(u)' => arg'[u] \in given' \ (Queued' \cup Taken')
    BY <1>1, <2>4, <2>5, <2>6 DEF OnceInv
  <2>12. Queued' \cap Taken' = {} /\ Queued' \cup Taken' \subseteq given' /\ ran' \subseteq Taken'
    BY <1>1, <2>4, <2>5 DEF OnceInv
  <2> QED
    BY <1>1, <2>4, <2>8, <2>10, <2>11, <2>12 DEF OnceInv
<1> QED
  BY <1>2, <1>3

LEMMA OnceRun ==
  ASSUME FlagInv, OnceInv, NEW w \in Workers, Run(w)
  PROVE  OnceInv'
<1> DEFINE task == arg[w]
<1>1. w \in Threads /\ task \in Tasks /\ task # NoTask /\ Holds(w)
  BY FixedAssumption DEF FlagInv, Busy, Run, Threads, Holds
<1>2. task \in Taken \ ran /\ Child[task] \notin given
  BY <1>1 DEF OnceInv
<1>3. ran' = ran \cup {task} /\ Queued' = Queued /\ Taken' = Taken
      /\ Distinct(queue)' = Distinct(queue)
  BY DEF Run, Queued, Taken
<1>4. \A u \in Threads : u # w => at'[u] = at[u] /\ arg'[u] = arg[u]
  <2>1. CASE Child[task] # NoTask
    <3>1. Child[task] \in Tasks /\ Goto(w, "add", Child[task])
      BY <1>1, <2>1, FixedAssumption DEF Run
    <3> QED
      BY <1>1, <3>1, GotoLemma DEF FlagInv, Places
  <2>2. CASE Child[task] = NoTask
    BY <1>1, <2>2, ReturnLemma DEF Run, FlagInv
  <2> QED
    BY <2>1, <2>2
<1>5. \/ /\ Adds(w)' /\ ~Holds(w)' /\ arg'[w] = Child[task] /\ Child[task] \in Tasks
         /\ given' = given \cup {Child[task]}
      \/ ~Adds(w)' /\ ~Holds(w)' /\ given' = given
  <2>1. CASE Child[task] # NoTask
    <3>1. /\ Child[task] \in Tasks /\ Goto(w, "add", Child[task])
          /\ given' = given \cup {Child[task]}
      BY <1>1, <2>1, FixedAssumption DEF Run
    <3>2. at'[w] = "add" /\ arg'[w] = Child[task]
      BY <1>1, <3>1, GotoLemma DEF FlagInv, Places
    <3> QED
      BY <3>1, <3>2 DEF Adds, Holds
  <2>2. CASE Child[task] = NoTask
    <3>1. at'[w] \in {"check", "idle"} /\ given' = given
      BY <1>1, <2>2, ReturnLemma DEF Run, FlagInv
    <3> QED
      BY <3>1 DEF Adds, Holds
  <2> QED
    BY <2>1, <2>2
<1>6. \A u \in Threads : u # w => Adds(u)' = Adds(u) /\ Holds(u)' = Holds(u)
  BY <1>4 DEF Adds, Holds
<1> HIDE DEF task
<1>7. \A u \in Threads : Holds(u)' => arg'[u] \in Taken' \ ran'
  <2>1. \A u \in Threads : Holds(u)' => u # w /\ Holds(u) /\ arg'[u] = arg[u]
    BY <1>4, <1>5, <1>6
  <2>2. \A u \in Threads : u # w /\ Holds(u) => arg[u] # task
    BY <1>1 DEF OnceInv, task
  <2> QED
    BY <1>3, <2>1, <2>2 DEF OnceInv
<1>8. \A u \in Threads : Adds(u)' => arg'[u] \in given' \ (Queued' \cup Taken')
  <2>1. \A u \in Threads : u # w /\ Adds(u)' => arg'[u] \in given' \ (Queued' \cup Taken')
    BY <1>3, <1>4, <1>5, <1>6 DEF OnceInv
  <2>2. Adds(w)' => arg'[w] \in given' \ (Queued' \cup Taken')
    BY <1>2, <1>3, <1>5 DEF OnceInv
  <2> QED
    BY <2>1, <2>2
<1>9. \A u, v \in Threads : u # v /\ arg'[u] = arg'[v] =>
        ~(Adds(u)' /\ Adds(v)') /\ ~(Holds(u)' /\ Holds(v)')
  <2>1. \A u \in Threads : u # w /\ Adds(u)' /\ Adds(w)' => arg'[u] # arg'[w]
    BY <1>2, <1>4, <1>5, <1>6 DEF OnceInv
  <2>2. \A u, v \in Threads : u # v /\ u # w /\ v # w /\ arg'[u] = arg'[v] =>
          ~(Adds(u)' /\ Adds(v)') /\ ~(Holds(u)' /\ Holds(v)')
    BY <1>4, <1>6 DEF OnceInv
  <2>3. ~Holds(w)'
    BY <1>5
  <2> QED
    BY <2>1, <2>2, <2>3
<1>10. \A p \in Tasks : Child[p] \in given' => p \in ran'
  BY <1>1, <1>3, <1>5, FixedAssumption DEF OnceInv
<1>11. Queued' \cup Taken' \subseteq given' /\ ran' \subseteq Taken'
  BY <1>2, <1>3, <1>5 DEF OnceInv
<1> QED
  BY <1>3, <1>7, <1>8, <1>9, <1>10, <1>11 DEF OnceInv

LEMMA OnceNext == FlagInv /\ OnceInv /\ [Next]_vars => OnceInv'
<1> SUFFICES ASSUME FlagInv, OnceInv, [Next]_vars PROVE OnceInv'
  OBVIOUS
<1>1. ASSUME NEW c \in Callers, NEW task \in Tasks, AddTask(c, task) PROVE OnceInv'
  <2>1. /\ c \in Threads /\ at'[c] = "add" /\ arg'[c] = task
        /\ \A u \in Threads : u # c => at'[u] = at[u] /\ arg'[u] = arg[u]
    BY <1>1, GotoLemma DEF AddTask, FlagInv, Threads, Places
  <2>2. /\ given' = given \cup {task} /\ task \notin given /\ ran' = ran
        /\ Queued' = Queued /\ Taken' = Taken /\ Distinct(queue)' = Distinct(queue)
    BY <1>1 DEF AddTask, Queued, Taken
  <2>3. \A p \in Tasks : Child[p] # task
    BY <1>1, FixedAssumption DEF AddTask, Children
  <2>4. \A u \in Threads : /\ Adds(u)' /\ u # c => Adds(u) /\ arg'[u] = arg[u]
                           /\ Holds(u)' => u # c /\ Holds(u) /\ arg'[u] = arg[u]
    BY <2>1 DEF Adds, Holds
  <2>5. \A u \in Threads : Adds(u)' => arg'[u] \in given' \ (Queued' \cup Taken')
    BY <2>1, <2>2, <2>4 DEF OnceInv
  <2>6. \A u \in Threads : Adds(u)' /\ u # c => arg'[u] # task
    BY <2>2, <2>4 DEF OnceInv
  <2> QED
    BY <2>1, <2>2, <2>3, <2>4, <2>5, <2>6 DEF OnceInv
<1>2. ASSUME NEW w \in Workers, Check(w) \/ Recheck(w) PROVE OnceInv'
  <2>1. w \in Threads /\ UNCHANGED <<queue, given, taken, ran>>
    BY <1>2 DEF Check, Recheck, Threads
  <2>2. \E place \in Places \ {"add", "taken"}, task \in {NoTask, arg[w]} :
          /\ Goto(w, place, task)
          /\ place = "run" => at[w] = "taken"
    BY <1>2 DEF Check, Recheck, Places
  <2>3. PICK place \in Places \ {"add", "taken"}, task \in {NoTask, arg[w]} :
          /\ Goto(w, place, task)
          /\ place = "run" => at[w] = "taken"
    BY <2>2
  <2>4. task \in Tasks \cup {NoTask}
    BY <2>1 DEF FlagInv, TypeOK
  <2>5. /\ at'[w] = place /\ arg'[w] = task
        /\ \A u \in Threads : u # w => at'[u] = at[u] /\ arg'[u] = arg[u]
    BY <2>1, <2>3, <2>4, GotoLemma DEF FlagInv
  <2>6. \A u \in Threads : /\ Adds(u)' => Adds(u) /\ arg'[u] = arg[u]
                           /\ Holds(u)' => Holds(u) /\ arg'[u] = arg[u]
    BY <2>3, <2>5 DEF Adds, Holds
  <2>7. Queued' = Queued /\ Taken' = Taken /\ Distinct(queue)' = Distinct(queue)
    BY <2>1 DEF Queued, Taken
  <2> QED
    BY <2>1, <2>6, <2>7 DEF OnceInv
<1>3. ASSUME UNCHANGED <<queue, at, arg, given, taken, ran>> PROVE OnceInv'
  <2>1. /\ Queued' = Queued /\ Taken' = Taken /\ Distinct(queue)' = Distinct(queue)
        /\ \A u \in Threads : Adds(u)' = Adds(u) /\ Holds(u)' = Holds(u)
    BY <1>3 DEF Queued, Taken, Adds, Holds
  <2> QED
    BY <1>3, <2>1 DEF OnceInv
<1>4. ASSUME NEW t \in Threads, TakeSleeps(t) \/ AddSleeps(t) \/ Spurious(t) PROVE OnceInv'
  BY <1>3, <1>4 DEF TakeSleeps, AddSleeps, Spurious
<1>5. CASE ClearRunning \/ Stopping \/ UNCHANGED vars
  BY <1>3, <1>5 DEF ClearRunning, Stopping, SetNeedstop, NotifyEmpty, NotifyFull, Join, vars
<1>6. Workers \subseteq Threads
  BY DEF Threads
<1> QED
  BY <1>1, <1>2, <1>4, <1>5, <1>6, OnceAdd, OnceTake, OnceRun DEF Next, Worker, Adding

LEMMA StepImplements ==
  ASSUME FlagInv, OnceInv, [Next]_vars
  PROVE  [Exec!Next]_(Exec!vars)
<1>1. ASSUME UNCHANGED <<queue, taken, needstop>> PROVE UNCHANGED Exec!vars
  BY <1>1 DEF Exec!vars
<1>2. ASSUME NEW t \in Threads, Add(t) PROVE [Exec!Next]_(Exec!vars)
  <2>1. arg[t] \in Tasks /\ arg[t] \notin Queued \cup Taken
    BY <1>2 DEF Add, FlagInv, Busy, OnceInv, Adds
  <2>2. arg[t] \in Exec!Fresh
    BY <2>1 DEF Exec!Fresh, Exec!InSeq, Queued, Taken, InSeq
  <2>3. CASE needstop
    BY <1>1, <1>2, <2>3 DEF Add, flags
  <2>4. CASE ~needstop
    <3>1. Exec!Submit(arg[t])
      BY <1>2, <2>2, <2>4 DEF Add, Pushed, flags, Exec!Submit
    <3> QED
      BY <2>1, <3>1 DEF Exec!Next
  <2> QED
    BY <2>3, <2>4
<1>3. ASSUME NEW w \in Workers, Take(w) PROVE [Exec!Next]_(Exec!vars)
  <2>1. CASE needstop
    BY <1>1, <1>3, <2>1 DEF Take, flags
  <2>2. CASE ~needstop
    <3>1. Exec!RunNext
      BY <1>3, <2>2 DEF Take, flags, Exec!RunNext
    <3> QED
      BY <3>1 DEF Exec!Next
  <2> QED
    BY <2>1, <2>2
<1>4. CASE SetNeedstop
  <2>1. needstop = FALSE
    BY <1>4 DEF SetNeedstop, FlagInv, TypeOK
  <2>2. Exec!Stop
    BY <1>4, <2>1 DEF SetNeedstop, Exec!Stop
  <2> QED
    BY <2>2 DEF Exec!Next
<1>5. CASE ClearRunning \/ NotifyEmpty \/ NotifyFull \/ Join \/ UNCHANGED vars
  BY <1>1, <1>5 DEF ClearRunning, NotifyEmpty, NotifyFull, Join, vars, flags
<1>6. ASSUME NEW t \in Threads, \/ \E task \in Tasks : AddTask(t, task)
                                \/ Check(t) \/ Recheck(t) \/ Run(t)
                                \/ TakeSleeps(t) \/ AddSleeps(t) \/ Spurious(t)
      PROVE [Exec!Next]_(Exec!vars)
  BY <1>1, <1>6 DEF AddTask, Check, Recheck, Run, TakeSleeps, AddSleeps, Spurious, flags
<1>7. Workers \subseteq Threads /\ Callers \subseteq Threads
  BY DEF Threads
<1> QED
  BY <1>2, <1>3, <1>4, <1>5, <1>6, <1>7 DEF Next, Worker, Adding, Stopping

\* Tasks are taken once each, in the order in which they were queued, and none
\* after the stop of the queue: every behaviour of the pool is one of Executor
\* (SyncQueue4.hpp, add, take and stop), whoever adds them, tasks included.
THEOREM PoolImplementsExecutor == Spec => ImplementsExecutor
<1>1. Init => OnceInv
  BY OnceInit
<1>2. Init => Exec!Init
  BY DEF Init, Exec!Init
<1>3. FlagInv /\ OnceInv /\ [Next]_vars => OnceInv'
  BY OnceNext
<1>4. FlagInv /\ OnceInv /\ [Next]_vars => [Exec!Next]_(Exec!vars)
  BY StepImplements
<1> QED
  BY <1>1, <1>2, <1>3, <1>4, FlagInvariant, PTL DEF Spec, ImplementsExecutor, Exec!SafeSpec

-----------------------------------------------------------------------------
(* The event loop, beside the pool and independent of it.                  *)

(* A batch exists only while its functors are run, and so does the flag.   *)
BatchInv == /\ pc \notin {"run", "body"} => functors = <<>>
            /\ callingPendingFunctors <=> pc \in {"run", "body"}

(* From the swap to the return of the next poll, and before the first one, *)
(* whoever queues a functor makes the eventfd readable.                    *)
SleepInv ==
  /\ pc \notin {"events", "handler", "ended", "gone"} /\ pendingFunctors # <<>>
       => Loop!WakeupComing
  /\ pc = "poll" /\ quit => Loop!WakeupComing

LoopInv == Loop!TypeOK /\ BatchInv /\ SleepInv

LEMMA AppendType ==
  ASSUME NEW S, NEW q \in Seq(S), NEW x \in S
  PROVE  Append(q, x) \in Seq(S) /\ Append(q, x) # <<>>
  BY AppendProperties

LEMMA LoopInit == Loop!Init => LoopInv
  BY EmptySeq DEF Loop!Init, LoopInv, Loop!TypeOK, BatchInv, SleepInv

LEMMA LoopNext == LoopInv /\ [Loop!Next]_(Loop!vars) => LoopInv'
<1> SUFFICES ASSUME LoopInv, [Loop!Next]_(Loop!vars)
             PROVE  LoopInv'
  OBVIOUS
<1> USE DEF LoopInv, Loop!TypeOK, BatchInv, SleepInv, Loop!WakeupComing, Loop!queueVars,
            Loop!pollVars, Loop!userVars, Loop!Channels
<1>1. CASE Loop!Publish
  BY <1>1 DEF Loop!Publish
<1>2. CASE Loop!Enter
  BY <1>2 DEF Loop!Enter
<1>3. CASE Loop!Check
  BY <1>3 DEF Loop!Check
<1>4. ASSUME NEW ready \in SUBSET {"io"}, Loop!PollReturn(ready)
      PROVE  LoopInv'
  BY <1>4 DEF Loop!PollReturn
<1>5. CASE Loop!HandleWakeupRead
  BY <1>5 DEF Loop!HandleWakeupRead
<1>6. CASE Loop!HandleIo
  BY <1>6 DEF Loop!HandleIo
<1>7. CASE Loop!SwapFunctors
  BY <1>7, EmptySeq DEF Loop!SwapFunctors, Loop!StillPending
<1>8. CASE Loop!RunFunctor
  <2>1. Head(functors) \in Functors /\ Tail(functors) \in Seq(Functors)
    BY <1>8, HeadTailProperties DEF Loop!RunFunctor
  <2> QED
    BY <1>8, <2>1, AppendType DEF Loop!RunFunctor
<1>9. CASE Loop!EndFunctors
  BY <1>9 DEF Loop!EndFunctors
<1>10. CASE Loop!Leave
  BY <1>10 DEF Loop!Leave
<1>11. ASSUME NEW f \in Functors, Loop!QueueFromLoop(f)
       PROVE  LoopInv'
  <2>1. Append(pendingFunctors, f) \in Seq(Functors)
    BY AppendType
  <2> QED
    BY <1>11, <2>1 DEF Loop!QueueFromLoop, Loop!InCallback, Loop!WakesItself
<1>12. ASSUME NEW f \in Functors, Loop!RunInLoop(f)
       PROVE  LoopInv'
  <2>1. Append(done, f) \in Seq(Functors)
    BY AppendType
  <2> QED
    BY <1>12, <2>1 DEF Loop!RunInLoop, Loop!InCallback
<1>13. CASE Loop!QuitFromLoop
  BY <1>13 DEF Loop!QuitFromLoop, Loop!InCallback
<1>14. CASE Loop!EndCallback
  BY <1>14 DEF Loop!EndCallback, Loop!InCallback
<1>15. ASSUME NEW t \in LoopThreads, NEW f \in Functors, Loop!QueueFromOutside(t, f)
       PROVE  LoopInv'
  <2>1. Append(pendingFunctors, f) \in Seq(Functors)
    BY AppendType
  <2>2. caller'[t] = "wakeup"
    BY <1>15 DEF Loop!QueueFromOutside
  <2> QED
    BY <1>15, <2>1, <2>2 DEF Loop!QueueFromOutside
<1>16. ASSUME NEW t \in LoopThreads, Loop!QuitFromOutside(t)
       PROVE  LoopInv'
  <2>1. caller'[t] = "wakeup"
    BY <1>16 DEF Loop!QuitFromOutside
  <2> QED
    BY <1>16, <2>1 DEF Loop!QuitFromOutside
<1>17. ASSUME NEW t \in LoopThreads, Loop!Wakeup(t)
       PROVE  LoopInv'
  BY <1>17 DEF Loop!Wakeup, Loop!AfterWakeup
<1>18. CASE Loop!StartLoop
  BY <1>18 DEF Loop!StartLoop
<1>19. CASE Loop!Destroy
  BY <1>19 DEF Loop!Destroy
<1>20. CASE Loop!OwnerWakeup
  BY <1>20 DEF Loop!OwnerWakeup, Loop!AfterWakeup
<1>21. CASE Loop!Join
  BY <1>21 DEF Loop!Join
<1>22. CASE UNCHANGED Loop!vars
  BY <1>22 DEF Loop!vars
<1> QED
  BY <1>1, <1>2, <1>3, <1>4, <1>5, <1>6, <1>7, <1>8, <1>9, <1>10, <1>11, <1>12, <1>13, <1>14,
     <1>15, <1>16, <1>17, <1>18, <1>19, <1>20, <1>21, <1>22
     DEF Loop!Next, Loop!LoopStep, Loop!OwnerStep

LEMMA LoopInvariant == LoopSpec => []LoopInv
  BY LoopInit, LoopNext, PTL DEF LoopSpec, Loop!Spec

(* The loop never sleeps on work: whenever it is blocked in epoll_wait     *)
(* with functors queued or told to quit, its eventfd is readable or about  *)
(* to be written (EventLoop.cpp:95-99).                                    *)
THEOREM NoLostWakeupHolds == LoopSpec => []NoLostWakeup
<1>1. LoopInv => NoLostWakeup
  BY DEF LoopInv, SleepInv, NoLostWakeup, Loop!NoLostWakeup
<1> QED
  BY <1>1, LoopInvariant, PTL

-----------------------------------------------------------------------------
(* The loop implements Executor: its queue is the batch followed by what   *)
(* has been pushed since the swap.                                         *)

LEMMA ConcatSet ==
  ASSUME NEW S, NEW q1 \in Seq(S), NEW q2 \in Seq(S)
  PROVE  Loop!InSeq(q1 \o q2) = Loop!InSeq(q1) \cup Loop!InSeq(q2)
<1>1. /\ q1 \o q2 \in Seq(S) /\ Len(q1 \o q2) = Len(q1) + Len(q2)
      /\ \A i \in 1 .. Len(q1) + Len(q2) :
           (q1 \o q2)[i] = IF i <= Len(q1) THEN q1[i] ELSE q2[i - Len(q1)]
  BY ConcatProperties
<1>2. /\ DOMAIN q1 = 1 .. Len(q1) /\ DOMAIN q2 = 1 .. Len(q2)
      /\ DOMAIN (q1 \o q2) = 1 .. Len(q1) + Len(q2)
      /\ Len(q1) \in Nat /\ Len(q2) \in Nat
  BY <1>1, LenProperties
<1>3. ASSUME NEW i \in 1 .. Len(q2)
      PROVE  /\ Len(q1) + i \in 1 .. Len(q1) + Len(q2)
             /\ (q1 \o q2)[Len(q1) + i] = q2[i]
  BY <1>1, <1>2
<1>4. ASSUME NEW i \in 1 .. Len(q1)
      PROVE  i \in 1 .. Len(q1) + Len(q2) /\ (q1 \o q2)[i] = q1[i]
  BY <1>1, <1>2
<1>5. ASSUME NEW i \in 1 .. Len(q1) + Len(q2)
      PROVE  \/ i \in 1 .. Len(q1) /\ (q1 \o q2)[i] = q1[i]
             \/ i - Len(q1) \in 1 .. Len(q2) /\ (q1 \o q2)[i] = q2[i - Len(q1)]
  BY <1>1, <1>2
<1>6. Loop!InSeq(q1) \cup Loop!InSeq(q2) \subseteq Loop!InSeq(q1 \o q2)
  BY <1>2, <1>3, <1>4 DEF Loop!InSeq
<1>7. Loop!InSeq(q1 \o q2) \subseteq Loop!InSeq(q1) \cup Loop!InSeq(q2)
  BY <1>2, <1>5 DEF Loop!InSeq
<1> QED
  BY <1>6, <1>7

(* The first of two concatenated sequences is taken from first, and what   *)
(* is appended goes to the second.                                         *)
LEMMA ConcatQueue ==
  ASSUME NEW S, NEW q1 \in Seq(S), NEW q2 \in Seq(S), NEW x \in S
  PROVE  /\ q1 # <<>> => /\ q1 \o q2 # <<>>
                         /\ Head(q1 \o q2) = Head(q1)
                         /\ Tail(q1 \o q2) = Tail(q1) \o q2
         /\ q1 \o Append(q2, x) = Append(q1 \o q2, x)
<1>1. ASSUME q1 # <<>>
      PROVE  /\ q1 \o q2 # <<>>
             /\ Head(q1 \o q2) = Head(q1)
             /\ Tail(q1 \o q2) = Tail(q1) \o q2
  <2>1. /\ q1 \o q2 \in Seq(S) /\ Len(q1 \o q2) = Len(q1) + Len(q2)
        /\ \A i \in 1 .. Len(q1) + Len(q2) :
             (q1 \o q2)[i] = IF i <= Len(q1) THEN q1[i] ELSE q2[i - Len(q1)]
    BY ConcatProperties
  <2>2. Len(q1) \in Nat \ {0} /\ Len(q2) \in Nat
    BY <1>1, EmptySeq, LenProperties
  <2>3. q1 \o q2 # <<>>
    BY <1>1, ConcatEqualIffEmpty
  <2>4. Head(q1 \o q2) = Head(q1)
    BY <2>1, <2>2
  <2>5. /\ Tail(q1) \in Seq(S) /\ Len(Tail(q1)) = Len(q1) - 1
        /\ \A i \in 1 .. Len(q1) - 1 : Tail(q1)[i] = q1[i+1]
    BY <1>1, HeadTailProperties
  <2>6. /\ Tail(q1 \o q2) \in Seq(S)
        /\ Len(Tail(q1 \o q2)) = Len(q1) + Len(q2) - 1
        /\ \A i \in 1 .. Len(q1) + Len(q2) - 1 : Tail(q1 \o q2)[i] = (q1 \o q2)[i+1]
    BY <2>1, <2>3, HeadTailProperties
  <2>7. /\ Tail(q1) \o q2 \in Seq(S)
        /\ Len(Tail(q1) \o q2) = Len(q1) - 1 + Len(q2)
        /\ \A i \in 1 .. Len(q1) - 1 + Len(q2) : (Tail(q1) \o q2)[i] =
              IF i <= Len(q1) - 1 THEN Tail(q1)[i] ELSE q2[i - (Len(q1) - 1)]
    BY <2>5, ConcatProperties
  <2>8. \A i \in 1 .. Len(q1) - 1 + Len(q2) : Tail(q1 \o q2)[i] = (Tail(q1) \o q2)[i]
    BY <2>1, <2>2, <2>5, <2>6, <2>7
  <2>9. Tail(q1 \o q2) = Tail(q1) \o q2
    BY <2>2, <2>6, <2>7, <2>8, SeqEqual
  <2> QED
    BY <2>3, <2>4, <2>9
<1>2. q1 \o Append(q2, x) = Append(q1 \o q2, x)
  <2>1. Append(q2, x) = q2 \o <<x>> /\ Append(q1 \o q2, x) = (q1 \o q2) \o <<x>>
    BY AppendIsConcat, ConcatProperties
  <2>2. <<x>> \in Seq(S)
    OBVIOUS
  <2> QED
    BY <2>1, <2>2, ConcatAssociative
<1> QED
  BY <1>1, <1>2

LEMMA FreshMeans ==
  ASSUME Loop!TypeOK
  PROVE  Loop!Fresh = Loop!E!Fresh
<1>1. Loop!InSeq(functors \o pendingFunctors) = Loop!InSeq(functors) \cup Loop!InSeq(pendingFunctors)
  BY ConcatSet DEF Loop!TypeOK
<1> QED
  BY <1>1 DEF Loop!Fresh, Loop!E!Fresh, Loop!InSeq, Loop!E!InSeq

LEMMA LoopStepImplements ==
  ASSUME LoopInv, [Loop!Next]_(Loop!vars)
  PROVE  [Loop!E!Next]_(Loop!E!vars)
<1> DEFINE waiting == functors \o pendingFunctors
           stopped == pc \in {"ended", "gone"}
<1>0. functors \in Seq(Functors) /\ pendingFunctors \in Seq(Functors)
  BY DEF LoopInv, Loop!TypeOK
<1>1. ASSUME UNCHANGED <<Loop!queueVars, stopped>>
      PROVE  UNCHANGED Loop!E!vars
  BY <1>1 DEF Loop!E!vars, Loop!queueVars
<1>2. CASE Loop!Check
  <2>1. CASE quit
    <3>1. Loop!E!Stop
      BY <1>2, <2>1 DEF Loop!Check, Loop!E!Stop, Loop!queueVars
    <3> QED
      BY <3>1 DEF Loop!E!Next
  <2>2. CASE ~quit
    BY <1>1, <1>2, <2>2 DEF Loop!Check
  <2> QED
    BY <2>1, <2>2
<1>3. CASE Loop!SwapFunctors
  <2>1. functors = <<>> /\ functors' \o pendingFunctors' = functors \o pendingFunctors
    BY <1>0, <1>3, ConcatEmptySeq DEF Loop!SwapFunctors, Loop!StillPending, LoopInv, BatchInv
  <2> QED
    BY <1>3, <2>1 DEF Loop!SwapFunctors, Loop!E!vars
<1>4. CASE Loop!RunFunctor
  <2>1. /\ waiting # <<>> /\ Head(waiting) = Head(functors)
        /\ Tail(waiting) = Tail(functors) \o pendingFunctors
    <3>1. Head(functors) \in Functors
      BY <1>0, <1>4, HeadTailProperties DEF Loop!RunFunctor
    <3> QED
      BY <1>0, <1>4, <3>1, ConcatQueue DEF Loop!RunFunctor
  <2>2. Loop!E!RunNext
    BY <1>4, <2>1 DEF Loop!RunFunctor, Loop!E!RunNext
  <2> QED
    BY <2>2 DEF Loop!E!Next
<1>5. ASSUME NEW f \in Functors,
             Loop!QueueFromLoop(f) \/ \E t \in LoopThreads : Loop!QueueFromOutside(t, f)
      PROVE  Loop!E!Next
  <2>0. pendingFunctors' = Append(pendingFunctors, f) /\ functors' = functors
    BY <1>5 DEF Loop!QueueFromLoop, Loop!QueueFromOutside
  <2>1. waiting' = Append(waiting, f)
    BY <1>0, <2>0, ConcatQueue
  <2>2. f \in Loop!E!Fresh
    BY <1>5, FreshMeans DEF LoopInv, Loop!QueueFromLoop, Loop!QueueFromOutside
  <2>3. UNCHANGED <<done, stopped>>
    BY <1>5 DEF Loop!QueueFromLoop, Loop!QueueFromOutside
  <2> QED
    BY <2>1, <2>2, <2>3 DEF Loop!E!Next, Loop!E!Submit
<1>6. ASSUME NEW f \in Functors, Loop!RunInLoop(f)
      PROVE  Loop!E!Next
  <2>1. f \in Loop!E!Fresh
    BY <1>6, FreshMeans DEF LoopInv, Loop!RunInLoop
  <2>2. Loop!E!RunNow(f)
    BY <1>6, <2>1 DEF Loop!RunInLoop, Loop!InCallback, Loop!E!RunNow
  <2> QED
    BY <2>2 DEF Loop!E!Next
<1>7. CASE \/ Loop!Publish \/ Loop!Enter \/ Loop!HandleWakeupRead \/ Loop!HandleIo
           \/ Loop!EndFunctors \/ Loop!EndCallback
           \/ \E ready \in SUBSET {"io"} : Loop!PollReturn(ready)
           \/ Loop!QuitFromLoop \/ Loop!StartLoop \/ Loop!OwnerWakeup \/ Loop!Join \/ Loop!Destroy
           \/ \E t \in LoopThreads : Loop!Wakeup(t) \/ Loop!QuitFromOutside(t)
  BY <1>1, <1>7 DEF Loop!Publish, Loop!Enter, Loop!HandleWakeupRead, Loop!HandleIo,
     Loop!EndFunctors, Loop!EndCallback,
     Loop!PollReturn, Loop!QuitFromLoop, Loop!StartLoop, Loop!OwnerWakeup, Loop!Join, Loop!Destroy,
     Loop!Wakeup, Loop!QuitFromOutside,
     Loop!InCallback
<1>8. CASE Loop!Leave
  BY <1>1, <1>8 DEF Loop!Leave
<1>9. CASE UNCHANGED Loop!vars
  BY <1>1, <1>9 DEF Loop!vars, Loop!queueVars
<1>10. Loop!LoopStep =>
         \/ Loop!Publish \/ Loop!Enter \/ Loop!Check \/ Loop!HandleWakeupRead
         \/ Loop!HandleIo \/ Loop!SwapFunctors \/ Loop!RunFunctor \/ Loop!EndFunctors
         \/ Loop!EndCallback \/ Loop!Leave
         \/ \E ready \in SUBSET {"io"} : Loop!PollReturn(ready)
  BY DEF Loop!LoopStep
<1> QED
  BY <1>2, <1>3, <1>4, <1>5, <1>6, <1>7, <1>8, <1>9, <1>10 DEF Loop!Next, Loop!OwnerStep

(* Functors run once each, in the order in which they were queued, across  *)
(* threads and batches, and none once the loop has stopped: every behaviour*)
(* of the loop is one of Executor (EventLoop.cpp:82-100 and 166-177).      *)
THEOREM LoopImplementsExecutor == LoopSpec => Loop!E!SafeSpec
<1>1. Loop!Init => Loop!E!Init
  BY ConcatEmptySeq, EmptySeq DEF Loop!Init, Loop!E!Init
<1>2. LoopInv /\ [Loop!Next]_(Loop!vars) => [Loop!E!Next]_(Loop!E!vars)
  BY LoopStepImplements
<1> QED
  BY <1>1, <1>2, LoopInvariant, PTL DEF LoopSpec, Loop!Spec, Loop!E!SafeSpec
=============================================================================
