---------------------------- MODULE FixedThreadPool ----------------------------
(* FixedThreadPool over the bounded SyncQueue (threadpool/): callers and    *)
(* running tasks add tasks, a fixed number of workers takes and runs them,  *)
(* an owner stops the pool.  A section under mutex_ is one step.            *)
EXTENDS Naturals, Sequences

CONSTANTS
  Workers, Callers,  \* threads
  Tasks,
  Child,    \* the task a task adds to the pool while it runs, or NoTask
  MaxSizes, \* what the queue may be constructed with
  NoTask

Threads  == Workers \cup Callers
Children == {Child[t] : t \in Tasks} \ {NoTask}

ASSUME FixedAssumption ==
  /\ Workers \cap Callers = {} /\ NoTask \notin Tasks
  /\ MaxSizes \subseteq Nat /\ Child \in [Tasks -> Tasks \cup {NoTask}]
  /\ \A t, u \in Tasks : Child[t] = Child[u] /\ Child[t] # NoTask => t = u

VARIABLES
  maxSize,             \* max_size_
  queue,               \* queue_, with size_
  needstop, isRunning, \* the flags of the queue and of the pool
  notEmpty, notFull,   \* the threads that sleep on the two condition variables
  at,                  \* where each thread is
  arg,                 \* the task a thread adds, or has taken
  owner,               \* where the owner is in stop()
  given,               \* history: tasks somebody has begun to add
  taken,               \* history: tasks in the order in which they were taken
  ran                  \* history: tasks that were called

flags  == <<maxSize, needstop, isRunning, owner>>
sleep  == <<notEmpty, notFull>>
vars   == <<queue, flags, sleep, at, arg, given, taken, ran>>

Init ==
  /\ maxSize \in MaxSizes
  /\ queue = <<>> /\ needstop = FALSE /\ isRunning = TRUE
  /\ notEmpty = {} /\ notFull = {}
  /\ at = [t \in Threads |-> IF t \in Workers THEN "check" ELSE "idle"]
  /\ arg = [t \in Threads |-> NoTask]
  /\ owner = "using" /\ given = {} /\ taken = <<>> /\ ran = {}

IsFull == Len(queue) >= maxSize

\* What notify_one may leave of the sleepers S.
AfterOne(S) == IF S = {} THEN {{}} ELSE {S \ {t} : t \in S}

Goto(t, place, task) == /\ at' = [at EXCEPT ![t] = place]
                        /\ arg' = [arg EXCEPT ![t] = task]

Return(t) == Goto(t, IF t \in Workers THEN "check" ELSE "idle", NoTask)

-----------------------------------------------------------------------------
(* addTask                                                                  *)

AddTask(c, task) ==
  /\ at[c] = "idle" /\ task \notin given \cup Children /\ owner # "gone"
  /\ given' = given \cup {task}
  /\ Goto(c, "add", task)
  /\ UNCHANGED <<queue, flags, sleep, taken, ran>>

AddWaitsMut == IsFull  \* mutant: the stop is not part of the predicate
AddWaits == IsFull /\ ~needstop

AddSleeps(t) ==
  /\ at[t] = "add" /\ t \notin notFull /\ AddWaits
  /\ notFull' = notFull \cup {t}
  /\ UNCHANGED <<queue, flags, notEmpty, at, arg, given, taken, ran>>

PushedMut(t) == <<arg[t]>> \o queue  \* mutant: pushed to the wrong end
Pushed(t) == Append(queue, arg[t])

Add(t) ==
  /\ at[t] = "add" /\ t \notin notFull /\ ~AddWaits
  /\ IF needstop THEN UNCHANGED <<queue, notEmpty>>
     ELSE /\ queue' = Pushed(t)
          /\ notEmpty' \in AfterOne(notEmpty)
  /\ Return(t)
  /\ UNCHANGED <<flags, notFull, given, taken, ran>>

-----------------------------------------------------------------------------
(* runworkthread                                                            *)

Check(w) ==
  /\ at[w] = "check"
  /\ Goto(w, IF isRunning THEN "take" ELSE "ended", NoTask)
  /\ UNCHANGED <<queue, flags, sleep, given, taken, ran>>

TakeSleeps(w) ==
  /\ at[w] = "take" /\ w \notin notEmpty /\ queue = <<>> /\ ~needstop
  /\ notEmpty' = notEmpty \cup {w}
  /\ UNCHANGED <<queue, flags, notFull, at, arg, given, taken, ran>>

RoomMut == {notFull}  \* mutant: nobody is told of the room
Room == AfterOne(notFull)

\* After the stop take() leaves the task as it is, and the queue too.
Take(w) ==
  /\ at[w] = "take" /\ w \notin notEmpty /\ (queue # <<>> \/ needstop)
  /\ IF needstop
     THEN Goto(w, "taken", NoTask) /\ UNCHANGED <<queue, notFull, taken>>
     ELSE /\ Goto(w, "taken", Head(queue))
          /\ queue' = Tail(queue)
          /\ taken' = Append(taken, Head(queue))
          /\ notFull' \in Room
  /\ UNCHANGED <<flags, notEmpty, given, ran>>

RecheckMut(w) ==  \* mutant: the flag is looked at before take() only
  /\ at[w] = "taken"
  /\ Goto(w, "run", arg[w])
  /\ UNCHANGED <<queue, flags, sleep, given, taken, ran>>

\* The flag once more: a task taken in vain is thrown away.
Recheck(w) ==
  /\ at[w] = "taken"
  /\ IF isRunning THEN Goto(w, "run", arg[w]) ELSE Goto(w, "ended", NoTask)
  /\ UNCHANGED <<queue, flags, sleep, given, taken, ran>>

Run(w) ==
  /\ at[w] = "run"
  /\ ran' = ran \cup {arg[w]}
  /\ IF arg[w] \in Tasks /\ Child[arg[w]] # NoTask
     THEN Goto(w, "add", Child[arg[w]]) /\ given' = given \cup {Child[arg[w]]}
     ELSE Return(w) /\ UNCHANGED given
  /\ UNCHANGED <<queue, flags, sleep, taken>>

\* A wait may end by itself; its predicate is looked at again.
Spurious(t) ==
  /\ t \in notEmpty \cup notFull
  /\ notEmpty' = notEmpty \ {t} /\ notFull' = notFull \ {t}
  /\ UNCHANGED <<queue, flags, at, arg, given, taken, ran>>

-----------------------------------------------------------------------------
(* stopworker                                                               *)

ClearRunning ==
  /\ owner = "using"
  /\ isRunning' = FALSE /\ owner' = "queue"
  /\ UNCHANGED <<queue, maxSize, needstop, sleep, at, arg, given, taken, ran>>

SetNeedstop ==
  /\ owner = "queue"
  /\ needstop' = TRUE /\ owner' = "notEmpty"
  /\ UNCHANGED <<queue, maxSize, isRunning, sleep, at, arg, given, taken, ran>>

NotifyEmpty ==
  /\ owner = "notEmpty"
  /\ notEmpty' = {} /\ owner' = "notFull"
  /\ UNCHANGED <<queue, maxSize, needstop, isRunning, notFull, at, arg, given, taken, ran>>

NotifyFull ==
  /\ owner = "notFull"
  /\ notFull' = {} /\ owner' = "join"
  /\ UNCHANGED <<queue, maxSize, needstop, isRunning, notEmpty, at, arg, given, taken, ran>>

Join ==
  /\ owner = "join" /\ \A w \in Workers : at[w] = "ended"
  /\ owner' = "gone"
  /\ UNCHANGED <<queue, maxSize, needstop, isRunning, sleep, at, arg, given, taken, ran>>

Stopping == SetNeedstop \/ NotifyEmpty \/ NotifyFull \/ Join
Worker(w) == Check(w) \/ TakeSleeps(w) \/ Take(w) \/ Recheck(w) \/ Run(w)
Adding(t) == AddSleeps(t) \/ Add(t)

Next ==
  \/ \E c \in Callers, t \in Tasks : AddTask(c, t)
  \/ \E w \in Workers : Worker(w)
  \/ \E t \in Threads : Adding(t) \/ Spurious(t)
  \/ ClearRunning \/ Stopping

Spec == Init /\ [][Next]_vars

\* Threads keep running and tasks return; nobody has to stop the pool.
FairSpec == /\ Spec /\ WF_vars(Stopping)
            /\ \A w \in Workers : WF_vars(Worker(w))
            /\ \A t \in Threads : WF_vars(Adding(t))

-----------------------------------------------------------------------------
(* Properties *)

TypeOK ==
  /\ maxSize \in MaxSizes
  /\ queue \in Seq(Tasks) /\ taken \in Seq(Tasks)
  /\ needstop \in BOOLEAN /\ isRunning \in BOOLEAN
  /\ notEmpty \subseteq Workers /\ notFull \subseteq Threads
  /\ at \in [Threads -> {"idle", "add", "check", "take", "taken", "run", "ended"}]
  /\ arg \in [Threads -> Tasks \cup {NoTask}]
  /\ owner \in {"using", "queue", "notEmpty", "notFull", "join", "gone"}
  /\ given \subseteq Tasks /\ ran \subseteq Tasks

\* A worker never calls an empty task: whoever comes out of take() without
\* one sees that the pool is no longer running (the order of stopworker), and
\* a task that was called had been taken from the queue.
NoEmptyTask == /\ \A w \in Workers : at[w] = "run" => arg[w] # NoTask
               /\ NoTask \notin ran

\* The pool is an executor: tasks are taken once each, in the order in which
\* they were queued, and none after the stop of the queue.
Exec == INSTANCE Executor WITH Functors <- Tasks, done <- taken, stopped <- needstop
ImplementsExecutor == Exec!SafeSpec

\* All workers are inside addTask of their tasks and the queue is full.
Stuck == IsFull /\ \A w \in Workers : at[w] = "add"

\* A queued task is taken and a caller of addTask comes back, whatever the two
\* condition variables do, unless the pool is stopped or its own workers wait
\* for room in its queue, which is for ever.
Progress ==
  /\ \A t \in Tasks : (\E i \in DOMAIN queue : queue[i] = t) ~>
                        (\E i \in DOMAIN taken : taken[i] = t) \/ ~isRunning \/ Stuck
  /\ \A c \in Callers : at[c] = "add" ~> at[c] = "idle" \/ Stuck

\* stop() returns and no caller is left behind, even when the pool was stuck.
StopReturns == owner = "queue" ~> owner = "gone" /\ \A c \in Callers : at[c] = "idle"
================================================================================
