------------------------------ MODULE DelayPool ------------------------------
(* ScheduleThreadPool over SyncTimerQueue (threadpool/): callers submit    *)
(* tasks with a delay, a scheduler thread moves those that are due to the  *)
(* ready queue with the help of a timerfd, an eventfd and epoll, and the   *)
(* workers run them.  Every section under mtx_ is one step; what follows   *)
(* the unlock is another one.                                              *)
EXTENDS Integers, Sequences, FiniteSets

CONSTANTS
  Workers, Callers,  \* threads
  Tasks,             \* numbered as they are submitted
  Delays,            \* in milliseconds
  Caps,              \* what the constructor may be given as max_cap
  Ms,                \* units of time in a millisecond
  MaxTime,           \* bound: the clock stops here
  NoTask

ASSUME PoolAssumption ==
  /\ Workers \cap Callers = {} /\ Tasks \subseteq Nat /\ NoTask \notin Tasks
  /\ Delays \subseteq Nat /\ Caps \subseteq Nat /\ Ms \in Nat \ {0} /\ MaxTime \in Nat

VARIABLES
  now,
  maxCap,     \* max_cap_
  due,        \* TimerTask::due_time
  waitDelay,  \* wait_delay_q_, as a set
  readyRun,   \* ready_run_q_
  running,    \* SyncTimerQueue::running_
  alarm,      \* when timer_fd_ becomes readable
  wakeFd,     \* wake_efd_ is readable
  scheduler,  \* where ScheduleLoop is
  evs,        \* what epoll_wait reported
  asleep,     \* workers that wait on cv_empty_
  worker,     \* where each worker is
  task,       \* the task a worker has taken
  caller,     \* what each caller is in the middle of
  wants,      \* the task it submits
  result,     \* what PutDelayTask returned for a task
  poolRunning, \* ScheduleThreadPool::running_
  owner,      \* where the owner is in ~ScheduleThreadPool
  ran         \* history: tasks that were started

queueVars == <<waitDelay, readyRun>>
schedVars == <<alarm, wakeFd, scheduler, evs>>
workVars  == <<worker, task>>
callVars  == <<caller, wants, result, due>>
stopVars  == <<maxCap, running, poolRunning, owner>>
vars == <<now, queueVars, schedVars, asleep, workVars, callVars, stopVars, ran>>

Never == -1

Init ==
  /\ now = 0 /\ maxCap \in Caps /\ due = [t \in Tasks |-> 0]
  /\ waitDelay = {} /\ readyRun = <<>>
  /\ running = TRUE /\ poolRunning = TRUE
  /\ alarm = Never /\ wakeFd = FALSE /\ scheduler = "top" /\ evs = {}
  /\ asleep = {}
  /\ worker = [w \in Workers |-> "check"] /\ task = [w \in Workers |-> NoTask]
  /\ caller = [c \in Callers |-> "idle"] /\ wants = [c \in Callers |-> NoTask]
  /\ result = [t \in Tasks |-> "none"]
  /\ owner = "using"
  /\ ran = {}

InSeq(q) == {q[i] : i \in DOMAIN q}

IsFull == Cardinality(waitDelay) + Len(readyRun) >= maxCap

-----------------------------------------------------------------------------
(* cv_empty_ *)

NotifyOne == IF asleep = {} THEN asleep' = {} ELSE \E w \in asleep : asleep' = asleep \ {w}
NotifyAll == asleep' = {}

-----------------------------------------------------------------------------
(* SubmitDelayTask *)

(* The task gets its due time before the lock is asked for.                *)
Submit(c, t, delay) ==
  /\ owner \in {"using", "stop", "notify", "join"} /\ caller[c] = "idle"
  /\ \A u \in Tasks : result[u] = "none" <=> u >= t
  /\ due' = [due EXCEPT ![t] = now + delay * Ms]
  /\ result' = [result EXCEPT ![t] = "asked"]
  /\ wants' = [wants EXCEPT ![c] = t]
  /\ caller' = [caller EXCEPT ![c] = "enqueue"]
  /\ UNCHANGED <<now, queueVars, schedVars, asleep, workVars, stopVars, ran>>

(* InnerEnqueue: there is room, or the queue has been stopped, ...         *)
Enqueue(c) ==
  /\ caller[c] = "enqueue" /\ (~IsFull \/ ~running)
  /\ IF running
     THEN /\ waitDelay' = waitDelay \cup {wants[c]}
          /\ result' = [result EXCEPT ![wants[c]] = "ok"]
          /\ caller' = [caller EXCEPT ![c] = "pushed"]
     ELSE /\ result' = [result EXCEPT ![wants[c]] = "stopped"]
          /\ caller' = [caller EXCEPT ![c] = "idle"]
          /\ UNCHANGED waitDelay
  /\ UNCHANGED <<now, readyRun, schedVars, asleep, workVars, wants, due, stopVars, ran>>

(* ... or enqueue_wait_ms_ is over.                                        *)
EnqueueTimeout(c) ==
  /\ caller[c] = "enqueue" /\ IsFull /\ running
  /\ result' = [result EXCEPT ![wants[c]] = "timeout"]
  /\ caller' = [caller EXCEPT ![c] = "idle"]
  /\ UNCHANGED <<now, queueVars, schedVars, asleep, workVars, wants, due, stopVars, ran>>

\* after the unlock
EnqueueNotifies(c) ==
  /\ caller[c] = "pushed"
  /\ wakeFd' = TRUE
  /\ NotifyOne
  /\ caller' = [caller EXCEPT ![c] = "idle"]
  /\ UNCHANGED <<now, queueVars, alarm, scheduler, evs, workVars, wants, result, due, stopVars,
                 ran>>

-----------------------------------------------------------------------------
(* ScheduleLoop *)

\* The time left is cut down to milliseconds; no time left at all turns the
\* timerfd off.
TimerFdFor(when) ==
  IF when <= now THEN now
  ELSE LET left == ((when - now) \div Ms) * Ms IN IF left = 0 THEN Never ELSE now + left

ResetTimerFd ==
  \/ waitDelay = {} /\ alarm' = Never
  \/ \E t \in waitDelay : /\ \A u \in waitDelay : due[t] <= due[u]
                          /\ alarm' = TimerFdFor(due[t])

SchedulerEndsMut == ~running /\ readyRun # <<>>  \* mutant: the test the wrong way round
SchedulerEnds == ~running /\ readyRun = <<>>

LoopTop ==
  /\ scheduler = "top"
  /\ IF readyRun # <<>> THEN NotifyOne ELSE UNCHANGED asleep
  /\ \/ /\ SchedulerEnds
        /\ scheduler' = "ended"
        /\ UNCHANGED alarm
     \/ /\ ~SchedulerEnds
        /\ ResetTimerFd
        /\ scheduler' = "epoll"
  /\ UNCHANGED <<now, queueVars, wakeFd, evs, workVars, callVars, stopVars, ran>>

TimerReadable == alarm # Never /\ alarm <= now

EpollReturns ==
  /\ scheduler = "epoll" /\ (TimerReadable \/ wakeFd)
  /\ scheduler' = "events"
  /\ evs' = {e \in {"timer", "wake"} : IF e = "timer" THEN TimerReadable ELSE wakeFd}
  /\ UNCHANGED <<now, queueVars, alarm, wakeFd, asleep, workVars, callVars, stopVars, ran>>

FallbackMut == FALSE  \* mutant: epoll_wait without a time limit
Fallback == TRUE

(* 500 ms without an event.                                                *)
EpollTimeout ==
  /\ scheduler = "epoll" /\ ~TimerReadable /\ ~wakeFd /\ Fallback
  /\ scheduler' = "top"
  /\ UNCHANGED <<now, queueVars, alarm, wakeFd, evs, asleep, workVars, callVars, stopVars, ran>>

DueMut == {t \in waitDelay : due[t] <= now + 1}  \* mutant: what the early timerfd suggests
Due == {t \in waitDelay : due[t] <= now}

\* the heap gives the tasks in the order of their due times
InOrder(s) == \A i, j \in DOMAIN s : i < j => due[s[i]] <= due[s[j]] /\ s[i] # s[j]
Sorted(S) == {s \in [1..Cardinality(S) -> S] : InOrder(s) /\ InSeq(s) = S}

MovedMut(S) == waitDelay       \* mutant: a copy of the task stays in the heap
Moved(S) == waitDelay \ S

HandleEvents ==
  /\ scheduler = "events"
  /\ IF "timer" \in evs
     THEN /\ alarm' = Never
          /\ \E s \in Sorted(Due) : readyRun' = readyRun \o s
          /\ waitDelay' = Moved(Due)
          /\ NotifyAll
     ELSE UNCHANGED <<alarm, queueVars, asleep>>
  /\ wakeFd' = (wakeFd /\ "wake" \notin evs)
  /\ evs' = {}
  /\ scheduler' = "top"
  /\ UNCHANGED <<now, workVars, callVars, stopVars, ran>>

-----------------------------------------------------------------------------
(* WorkerLoop *)

CheckRunning(w) ==
  /\ worker[w] = "check"
  /\ worker' = [worker EXCEPT ![w] = IF poolRunning THEN "take" ELSE "ended"]
  /\ UNCHANGED <<now, queueVars, schedVars, asleep, task, callVars, stopVars, ran>>

(* TakeTask: a task is there, ...                                          *)
TakeTask(w) ==
  /\ worker[w] = "take" /\ w \notin asleep /\ readyRun # <<>>
  /\ task' = [task EXCEPT ![w] = Head(readyRun)]
  /\ readyRun' = Tail(readyRun)
  /\ worker' = [worker EXCEPT ![w] = "run"]
  /\ UNCHANGED <<now, waitDelay, schedVars, asleep, callVars, stopVars, ran>>

(* ... or there is none: the worker sleeps, or learns of the stop.         *)
TakeNothing(w) ==
  /\ worker[w] = "take" /\ w \notin asleep /\ readyRun = <<>>
  /\ IF running
     THEN asleep' = asleep \cup {w} /\ UNCHANGED worker
     ELSE worker' = [worker EXCEPT ![w] = "ended"] /\ UNCHANGED asleep
  /\ UNCHANGED <<now, queueVars, schedVars, task, callVars, stopVars, ran>>

RunTask(w) ==
  /\ worker[w] = "run"
  /\ ran' = ran \cup {task[w]}
  /\ task' = [task EXCEPT ![w] = NoTask]
  /\ worker' = [worker EXCEPT ![w] = "check"]
  /\ UNCHANGED <<now, queueVars, schedVars, asleep, callVars, stopVars>>

-----------------------------------------------------------------------------
(* Stop and the destructors: the pool's flag, the queue's flag under mtx_, *)
(* then the notifications, first by Stop(), then by ~SyncTimerQueue, which *)
(* starts when nobody calls the pool any more.                             *)

StopPool ==
  /\ owner = "using"
  /\ poolRunning' = FALSE /\ owner' = "stop"
  /\ UNCHANGED <<now, queueVars, schedVars, asleep, workVars, callVars, maxCap, running, ran>>

StopQueue ==
  /\ owner = "stop"
  /\ running' = FALSE /\ owner' = "notify"
  /\ UNCHANGED <<now, queueVars, schedVars, asleep, workVars, callVars, maxCap, poolRunning, ran>>

StopNotifies ==
  /\ \/ owner = "notify"
     \/ owner = "notify2" /\ \A c \in Callers : caller[c] = "idle"
  /\ wakeFd' = TRUE
  /\ NotifyAll
  /\ owner' = IF owner = "notify" THEN "join" ELSE "joinScheduler"
  /\ UNCHANGED <<now, queueVars, alarm, scheduler, evs, workVars, callVars, maxCap, running,
                 poolRunning, ran>>

JoinWorkers ==
  /\ owner = "join"
  /\ \A w \in Workers : worker[w] = "ended"
  /\ owner' = "notify2"
  /\ UNCHANGED <<now, queueVars, schedVars, asleep, workVars, callVars, maxCap, running,
                 poolRunning, ran>>

JoinScheduler ==
  /\ owner = "joinScheduler" /\ scheduler = "ended"
  /\ owner' = "gone"
  /\ UNCHANGED <<now, queueVars, schedVars, asleep, workVars, callVars, maxCap, running,
                 poolRunning, ran>>

Tick ==
  /\ now < MaxTime
  /\ now' = now + 1
  /\ UNCHANGED <<queueVars, schedVars, asleep, workVars, callVars, stopVars, ran>>

Worker(w) == CheckRunning(w) \/ TakeTask(w) \/ TakeNothing(w) \/ RunTask(w)
Scheduler == LoopTop \/ EpollReturns \/ EpollTimeout \/ HandleEvents
Calling(c) == Enqueue(c) \/ EnqueueTimeout(c) \/ EnqueueNotifies(c)
Stopping == StopQueue \/ StopNotifies \/ JoinWorkers \/ JoinScheduler

Next ==
  \/ \E c \in Callers : Calling(c) \/ \E t \in Tasks, d \in Delays : Submit(c, t, d)
  \/ \E w \in Workers : Worker(w)
  \/ Scheduler \/ StopPool \/ Stopping \/ Tick

Spec == Init /\ [][Next]_vars

\* All threads keep running, tasks return, time goes on.
Fairness == /\ \A w \in Workers : WF_vars(Worker(w))
            /\ \A c \in Callers : WF_vars(Calling(c))
            /\ WF_vars(Scheduler) /\ WF_vars(Stopping) /\ WF_vars(Tick)

FairSpec == Spec /\ Fairness

-----------------------------------------------------------------------------
(* Properties *)

Hands == {task[w] : w \in Workers} \ {NoTask}

\* A task the pool said it took is in the heap, in the ready queue, with a
\* worker or done, in one of these and once; any other one is nowhere.
TaskAccounted ==
  /\ waitDelay \cap InSeq(readyRun) = {} /\ (waitDelay \cup InSeq(readyRun)) \cap Hands = {}
  /\ (waitDelay \cup InSeq(readyRun) \cup Hands) \cap ran = {}
  /\ \A i, j \in DOMAIN readyRun : readyRun[i] = readyRun[j] => i = j
  /\ \A v, w \in Workers : task[v] = task[w] /\ task[v] # NoTask => v = w
  /\ waitDelay \cup InSeq(readyRun) \cup Hands \cup ran = {t \in Tasks : result[t] = "ok"}

\* No task is run before its time, also when the timerfd goes off too early.
NeverEarly == \A t \in InSeq(readyRun) \cup Hands \cup ran : due[t] <= now

\* A task that was taken runs, unless the pool is stopped first: the timerfd
\* may be off, the notification may meet the wrong worker.
AcceptedRuns ==
  \A t \in Tasks : result[t] = "ok" /\ due[t] <= MaxTime ~> t \in ran \/ ~poolRunning

\* The destructor returns, unless it has no workers left for a ready task.
DestructorReturns ==
  owner = "stop" ~> owner = "gone" \/ (owner = "joinScheduler" /\ readyRun # <<>>)
=============================================================================
