--------------------------- MODULE DelayPoolProofs ---------------------------
(* Proofs about DelayPool for every set of workers, callers, tasks and     *)
(* delays, and every clock.                                                *)
EXTENDS DelayPool, FiniteSetTheorems, TLAPS

(* The types of the variables the tasks go through.  A worker holds a task *)
(* while it runs it, a caller that asks for the lock has a task nobody     *)
(* else submits, and a task has a result once its due time is set.         *)
TypeInv ==
  /\ now \in Int
  /\ due \in [Tasks -> Int]
  /\ waitDelay \subseteq Tasks /\ IsFiniteSet(waitDelay)
  /\ readyRun \in Seq(Tasks)
  /\ worker \in [Workers -> {"check", "take", "run", "ended"}]
  /\ task \in [Workers -> Tasks \cup {NoTask}]
  /\ caller \in [Callers -> {"idle", "enqueue", "pushed"}]
  /\ wants \in [Callers -> Tasks \cup {NoTask}]
  /\ result \in [Tasks -> {"none", "asked", "ok", "stopped", "timeout"}]
  /\ ran \subseteq Tasks
  /\ scheduler \in {"top", "epoll", "events", "ended"}

HandInv == \A w \in Workers : worker[w] = "run" <=> task[w] # NoTask
AskInv ==
  /\ \A c \in Callers : caller[c] = "enqueue" => wants[c] \in Tasks /\ result[wants[c]] = "asked"
  /\ \A c, d \in Callers : caller[c] = "enqueue" /\ caller[d] = "enqueue" /\ wants[c] = wants[d]
       => c = d

PoolInv == TypeInv /\ HandInv /\ AskInv /\ TaskAccounted /\ NeverEarly

LEMMA PoolInit == Init => PoolInv
<1> SUFFICES ASSUME Init
             PROVE  PoolInv
  OBVIOUS
<1>1. TypeInv
  BY FS_EmptySet, PoolAssumption DEF Init, TypeInv, PoolAssumption
<1>2. HandInv /\ AskInv
  BY DEF Init, HandInv, AskInv
<1>3. InSeq(readyRun) = {} /\ Hands = {} /\ waitDelay = {} /\ ran = {} /\ DOMAIN readyRun = {}
  BY DEF Init, InSeq, Hands
<1>4. TaskAccounted
  BY <1>3, PoolAssumption DEF Init, TaskAccounted, PoolAssumption
<1>5. NeverEarly
  BY <1>3 DEF NeverEarly
<1> QED
  BY <1>1, <1>2, <1>4, <1>5 DEF PoolInv

(* What is in the queues and with the workers when these stay as they are. *)
LEMMA SameTasks ==
  ASSUME UNCHANGED <<waitDelay, readyRun, task, ran>>
  PROVE  Hands' = Hands /\ InSeq(readyRun)' = InSeq(readyRun)
         /\ (UNCHANGED result /\ TaskAccounted => TaskAccounted')
  BY DEF Hands, InSeq, TaskAccounted

(* Steps that move no task and end no call.                                *)
LEMMA QuietStep ==
  ASSUME PoolInv,
         UNCHANGED <<due, waitDelay, readyRun, task, ran, result, wants>>,
         now' \in {now, now + 1},
         scheduler' \in {"top", "epoll", "events", "ended"},
         \/ UNCHANGED worker
         \/ \E w \in Workers : worker[w] # "run" /\
              \E pc \in {"check", "take", "ended"} : worker' = [worker EXCEPT ![w] = pc],
         \/ UNCHANGED caller
         \/ \E c \in Callers : caller' = [caller EXCEPT ![c] = "idle"]
  PROVE  PoolInv'
<1> USE DEF PoolInv
<1>1. TypeInv'
  <2>1. worker' \in [Workers -> {"check", "take", "run", "ended"}]
    BY DEF TypeInv
  <2>2. caller' \in [Callers -> {"idle", "enqueue", "pushed"}]
    BY DEF TypeInv
  <2>3. now' \in Int
    BY DEF TypeInv
  <2> QED
    BY <2>1, <2>2, <2>3 DEF TypeInv
<1>2. HandInv'
  BY DEF HandInv, TypeInv
<1>3. AskInv'
  <2>1. \A c \in Callers : caller'[c] = "enqueue" => caller[c] = "enqueue"
    BY DEF TypeInv
  <2> QED
    BY <2>1 DEF AskInv
<1>4. TaskAccounted'
  BY SameTasks
<1>5. NeverEarly'
  <2>1. Hands' = Hands /\ InSeq(readyRun)' = InSeq(readyRun)
    BY SameTasks
  <2>2. Hands \cup InSeq(readyRun) \cup ran \subseteq Tasks
    BY DEF TypeInv, Hands, InSeq
  <2>3. \A t \in Tasks : due[t] <= now => due[t] <= now'
    BY DEF TypeInv
  <2> QED
    BY <2>1, <2>2, <2>3 DEF NeverEarly
<1> QED
  BY <1>1, <1>2, <1>3, <1>4, <1>5

(* A task is submitted: it gets its due time and is nowhere yet.           *)
LEMMA SubmitKeeps ==
  ASSUME PoolInv, NEW c \in Callers, NEW t \in Tasks, NEW d \in Delays, Submit(c, t, d)
  PROVE  PoolInv'
<1> USE DEF PoolInv
<1>0. /\ result[t] = "none" /\ caller[c] = "idle" /\ t \in Int /\ d \in Int
      /\ UNCHANGED <<now, waitDelay, readyRun, worker, task, ran, scheduler>>
      /\ result' = [result EXCEPT ![t] = "asked"]
  <2>1. t \in Int /\ d \in Int
    BY PoolAssumption DEF PoolAssumption
  <2> QED
    BY <2>1 DEF Submit, queueVars, schedVars, workVars
<1>1. TypeInv'
  <2>1. d * Ms \in Int
    BY <1>0, PoolAssumption DEF PoolAssumption
  <2>2. due' \in [Tasks -> Int]
    BY <2>1 DEF TypeInv, Submit
  <2> QED
    BY <1>0, <2>2 DEF TypeInv, Submit
<1>2. HandInv'
  BY <1>0 DEF HandInv
<1>3. AskInv'
  BY <1>0 DEF AskInv, Submit, TypeInv
<1>4. Hands' = Hands /\ InSeq(readyRun)' = InSeq(readyRun)
  BY <1>0, SameTasks
<1>5. {u \in Tasks : result[u] = "ok"} = {u \in Tasks : result'[u] = "ok"}
  BY <1>0 DEF TypeInv
<1>6. TaskAccounted'
  BY <1>0, <1>4, <1>5 DEF TaskAccounted
<1>7. NeverEarly'
  <2>1. t \notin Hands \cup InSeq(readyRun) \cup ran
    BY <1>0 DEF TaskAccounted
  <2>2. \A u \in Hands \cup InSeq(readyRun) \cup ran : due'[u] = due[u]
    BY <2>1 DEF Submit, TypeInv, Hands, InSeq
  <2> QED
    BY <1>0, <1>4, <2>2 DEF NeverEarly
<1> QED
  BY <1>1, <1>2, <1>3, <1>6, <1>7

LEMMA EnqueueKeeps ==
  ASSUME PoolInv, NEW c \in Callers, Enqueue(c)
  PROVE  PoolInv'
<1> USE DEF PoolInv
<1>0. /\ UNCHANGED <<now, readyRun, worker, task, ran, scheduler, wants, due>>
      /\ caller[c] = "enqueue" /\ wants[c] \in Tasks /\ result[wants[c]] = "asked"
  BY DEF Enqueue, schedVars, workVars, AskInv
<1>1. PICK t \in Tasks : t = wants[c] /\ result[t] = "asked"
  BY <1>0
<1>2. PICK r \in {"ok", "stopped"}, pc \in {"pushed", "idle"} :
        /\ result' = [result EXCEPT ![t] = r] /\ caller' = [caller EXCEPT ![c] = pc]
        /\ waitDelay' = IF r = "ok" THEN waitDelay \cup {t} ELSE waitDelay
  BY <1>1 DEF Enqueue
<1>3. TypeInv'
  <2>1. waitDelay' \subseteq Tasks /\ IsFiniteSet(waitDelay')
    BY <1>2, FS_AddElement DEF TypeInv
  <2> QED
    BY <1>0, <1>2, <2>1 DEF TypeInv
<1>4. HandInv'
  BY <1>0 DEF HandInv
<1>5. AskInv'
  BY <1>0, <1>1, <1>2 DEF AskInv, TypeInv
<1>6. Hands' = Hands /\ InSeq(readyRun)' = InSeq(readyRun)
  BY <1>0 DEF Hands, InSeq
<1>7. t \notin waitDelay \cup InSeq(readyRun) \cup Hands \cup ran
  BY <1>1 DEF TaskAccounted
<1>8. {u \in Tasks : result'[u] = "ok"} =
        IF r = "ok" THEN {u \in Tasks : result[u] = "ok"} \cup {t} ELSE {u \in Tasks : result[u] = "ok"}
  BY <1>1, <1>2 DEF TypeInv
<1>9. TaskAccounted'
  BY <1>0, <1>2, <1>6, <1>7, <1>8 DEF TaskAccounted
<1>10. NeverEarly'
  BY <1>0, <1>6 DEF NeverEarly
<1> QED
  BY <1>3, <1>4, <1>5, <1>9, <1>10

LEMMA TimeoutKeeps ==
  ASSUME PoolInv, NEW c \in Callers, EnqueueTimeout(c)
  PROVE  PoolInv'
<1> USE DEF PoolInv
<1>0. /\ UNCHANGED <<now, waitDelay, readyRun, worker, task, ran, scheduler, wants, due>>
      /\ caller[c] = "enqueue" /\ wants[c] \in Tasks /\ result[wants[c]] = "asked"
  BY DEF EnqueueTimeout, queueVars, schedVars, workVars, AskInv
<1>1. PICK t \in Tasks : t = wants[c] /\ result[t] = "asked"
  BY <1>0
<1>2. /\ result' = [result EXCEPT ![t] = "timeout"] /\ caller' = [caller EXCEPT ![c] = "idle"]
  BY <1>1 DEF EnqueueTimeout
<1>3. TypeInv'
  BY <1>0, <1>2 DEF TypeInv
<1>4. HandInv'
  BY <1>0 DEF HandInv
<1>5. AskInv'
  BY <1>0, <1>1, <1>2 DEF AskInv, TypeInv
<1>6. Hands' = Hands /\ InSeq(readyRun)' = InSeq(readyRun)
  BY <1>0, SameTasks
<1>7. {u \in Tasks : result[u] = "ok"} = {u \in Tasks : result'[u] = "ok"}
  BY <1>1, <1>2 DEF TypeInv
<1>8. TaskAccounted'
  BY <1>0, <1>6, <1>7 DEF TaskAccounted
<1>9. NeverEarly'
  BY <1>0, <1>6 DEF NeverEarly
<1> QED
  BY <1>3, <1>4, <1>5, <1>8, <1>9

LEMMA ConcatParts ==
  ASSUME NEW S, NEW a \in Seq(S), NEW b \in Seq(S)
  PROVE  /\ a \o b \in Seq(S) /\ Len(a \o b) = Len(a) + Len(b)
         /\ \A i \in 1..Len(a) : (a \o b)[i] = a[i]
         /\ \A i \in 1..Len(b) : (a \o b)[Len(a) + i] = b[i]
<1>1. a \o b \in Seq(S) /\ Len(a \o b) = Len(a) + Len(b)
  OBVIOUS
<1>2. \A i \in 1..Len(a) : (a \o b)[i] = a[i]
  OBVIOUS
<1>3. \A i \in 1..Len(b) : (a \o b)[Len(a) + i] = b[i]
  OBVIOUS
<1> QED
  BY <1>1, <1>2, <1>3

(* The tasks that are due go to the end of the ready queue, each once.     *)
LEMMA EventsKeep ==
  ASSUME PoolInv, HandleEvents
  PROVE  PoolInv'
<1> USE DEF PoolInv
<1>0. /\ UNCHANGED <<now, worker, task, ran, wants, due, result, caller>>
      /\ scheduler' = "top"
  BY DEF HandleEvents, workVars, callVars
<1>1. CASE "timer" \notin evs
  <2>1. UNCHANGED <<waitDelay, readyRun>>
    BY <1>1 DEF HandleEvents, queueVars
  <2> QED
    BY <1>0, <2>1, QuietStep
<1>2. CASE "timer" \in evs
  <2>1. PICK s \in Sorted(Due) : readyRun' = readyRun \o s
    BY <1>2 DEF HandleEvents
  <2>2. waitDelay' = waitDelay \ Due /\ Due \subseteq waitDelay
    BY <1>2 DEF HandleEvents, Moved, Due
  <2>3. IsFiniteSet(Due) /\ Cardinality(Due) \in Nat
    BY <2>2, FS_Subset, FS_CardinalityType DEF TypeInv
  <2>4. s \in [1..Cardinality(Due) -> Due] /\ InOrder(s) /\ InSeq(s) = Due
    BY <2>1 DEF Sorted
  <2>5. PICK n \in Nat : n = Cardinality(Due) /\ s \in [1..n -> Due]
    BY <2>3, <2>4
  <2>6. s \in Seq(Tasks) /\ Len(s) = n /\ DOMAIN s = 1..n
    <3>1. s \in [1..n -> Tasks]
      BY <2>2, <2>5 DEF TypeInv
    <3> QED
      BY <3>1
  <2>7. readyRun \in Seq(Tasks) /\ Len(readyRun) \in Nat /\ DOMAIN readyRun = 1..Len(readyRun)
    BY DEF TypeInv
  <2>8. /\ readyRun' \in Seq(Tasks) /\ DOMAIN readyRun' = 1..(Len(readyRun) + n)
        /\ \A i \in DOMAIN readyRun : i \in DOMAIN readyRun' /\ readyRun'[i] = readyRun[i]
        /\ \A i \in DOMAIN s : Len(readyRun) + i \in DOMAIN readyRun'
                               /\ readyRun'[Len(readyRun) + i] = s[i]
    <3>1. readyRun' \in Seq(Tasks) /\ Len(readyRun') = Len(readyRun) + n
      BY <2>1, <2>6, <2>7, ConcatParts
    <3>2. DOMAIN readyRun' = 1..(Len(readyRun) + n)
      BY <3>1
    <3>3. \A i \in DOMAIN readyRun : readyRun'[i] = readyRun[i]
      BY <2>1, <2>6, <2>7, ConcatParts
    <3>4. \A i \in DOMAIN s : readyRun'[Len(readyRun) + i] = s[i]
      BY <2>1, <2>6, <2>7, ConcatParts
    <3> QED
      BY <2>6, <2>7, <3>1, <3>2, <3>3, <3>4
  <2>9. ASSUME NEW i \in DOMAIN readyRun'
        PROVE  \/ i \in DOMAIN readyRun /\ readyRun'[i] = readyRun[i]
               \/ \E k \in DOMAIN s : i = Len(readyRun) + k /\ readyRun'[i] = s[k]
    <3>1. CASE i <= Len(readyRun)
      BY <2>7, <2>8, <3>1
    <3>2. CASE i > Len(readyRun)
      <4>1. i - Len(readyRun) \in DOMAIN s /\ i = Len(readyRun) + (i - Len(readyRun))
        BY <2>6, <2>7, <2>8, <3>2
      <4> QED
        BY <2>8, <4>1
    <3> QED
      BY <2>7, <2>8, <3>1, <3>2
  <2>10. InSeq(readyRun') = InSeq(readyRun) \cup Due
    <3>1. InSeq(readyRun') \subseteq InSeq(readyRun) \cup InSeq(s)
      BY <2>9 DEF InSeq
    <3>2. InSeq(readyRun) \cup InSeq(s) \subseteq InSeq(readyRun')
      BY <2>8 DEF InSeq
    <3> QED
      BY <2>4, <3>1, <3>2
  <2>11. Hands' = Hands
    BY <1>0 DEF Hands
  <2>12. ASSUME NEW i \in DOMAIN s, NEW j \in DOMAIN s, s[i] = s[j]
         PROVE  i = j
    BY <2>4, <2>6, <2>12 DEF InOrder
  <2>13. ASSUME NEW i \in DOMAIN readyRun', NEW j \in DOMAIN readyRun', readyRun'[i] = readyRun'[j]
         PROVE  i = j
    <3>1. /\ \A k \in DOMAIN readyRun, l \in DOMAIN s : readyRun[k] # s[l]
          /\ \A k, l \in DOMAIN readyRun : readyRun[k] = readyRun[l] => k = l
      <4>1. waitDelay \cap InSeq(readyRun) = {} /\ InSeq(s) \subseteq waitDelay
        BY <2>2, <2>4 DEF TaskAccounted
      <4> QED
        BY <4>1 DEF TaskAccounted, InSeq
    <3> QED
      BY <2>9, <2>12, <2>13, <3>1
  <2>14. TaskAccounted'
    <3>1. InSeq(readyRun)' = InSeq(readyRun) \cup Due
      BY <2>10 DEF InSeq
    <3> QED
      BY <1>0, <2>2, <2>11, <2>13, <3>1 DEF TaskAccounted
  <2>15. NeverEarly'
    <3>1. InSeq(readyRun)' = InSeq(readyRun) \cup Due
      BY <2>10 DEF InSeq
    <3>2. \A t \in Due : due[t] <= now
      BY DEF Due
    <3> QED
      BY <1>0, <2>11, <3>1, <3>2 DEF NeverEarly
  <2>16. TypeInv'
    <3>1. IsFiniteSet(waitDelay')
      BY <2>2, FS_Subset DEF TypeInv
    <3> QED
      BY <1>0, <2>2, <2>8, <3>1 DEF TypeInv
  <2>17. HandInv' /\ AskInv'
    BY <1>0 DEF HandInv, AskInv
  <2> QED
    BY <2>14, <2>15, <2>16, <2>17
<1> QED
  BY <1>1, <1>2

(* A worker takes the task at the front.                                   *)
LEMMA TakeKeeps ==
  ASSUME PoolInv, NEW w \in Workers, TakeTask(w)
  PROVE  PoolInv'
<1> USE DEF PoolInv
<1>0. /\ UNCHANGED <<now, waitDelay, ran, scheduler, wants, due, result, caller>>
      /\ worker[w] = "take" /\ task[w] = NoTask /\ readyRun # <<>> /\ readyRun \in Seq(Tasks)
      /\ task' = [task EXCEPT ![w] = Head(readyRun)] /\ readyRun' = Tail(readyRun)
      /\ worker' = [worker EXCEPT ![w] = "run"]
  BY DEF TakeTask, schedVars, callVars, HandInv, TypeInv
<1>1. /\ Len(readyRun) \in Nat \ {0} /\ DOMAIN readyRun = 1..Len(readyRun) /\ 1 \in DOMAIN readyRun
      /\ Head(readyRun) = readyRun[1] /\ Head(readyRun) \in Tasks /\ readyRun' \in Seq(Tasks)
      /\ DOMAIN readyRun' = 1..(Len(readyRun) - 1)
      /\ \A i \in DOMAIN readyRun' : i + 1 \in DOMAIN readyRun /\ readyRun'[i] = readyRun[i + 1]
  BY <1>0
<1>2. PICK x \in Tasks : x = Head(readyRun) /\ x = readyRun[1] /\ x # NoTask
  BY <1>1, PoolAssumption DEF PoolAssumption
<1>3. InSeq(readyRun) = InSeq(readyRun)' \cup {x} /\ x \notin InSeq(readyRun)'
  <2>1. ASSUME NEW i \in DOMAIN readyRun
        PROVE  readyRun[i] = x \/ \E k \in DOMAIN readyRun' : readyRun'[k] = readyRun[i]
    <3>1. CASE i = 1
      BY <1>2, <3>1
    <3>2. CASE i # 1
      <4>1. i - 1 \in DOMAIN readyRun' /\ (i - 1) + 1 = i
        BY <1>1, <3>2
      <4> QED
        BY <1>1, <4>1
    <3> QED
      BY <3>1, <3>2
  <2>2. ASSUME NEW i \in DOMAIN readyRun'
        PROVE  readyRun'[i] # x
    <3>1. i + 1 \in DOMAIN readyRun /\ i + 1 # 1 /\ readyRun'[i] = readyRun[i + 1]
      BY <1>1
    <3> QED
      BY <1>1, <1>2, <3>1 DEF TaskAccounted
  <2>3. InSeq(readyRun)' \subseteq InSeq(readyRun)
    BY <1>1 DEF InSeq
  <2>4. x \in InSeq(readyRun)
    BY <1>1, <1>2 DEF InSeq
  <2>5. InSeq(readyRun) \subseteq InSeq(readyRun)' \cup {x}
    BY <2>1 DEF InSeq
  <2>6. x \notin InSeq(readyRun)'
    BY <2>2 DEF InSeq
  <2> QED
    BY <2>3, <2>4, <2>5, <2>6
<1>4. /\ task \in [Workers -> Tasks \cup {NoTask}]
      /\ \A v \in Workers : task'[v] = IF v = w THEN x ELSE task[v]
  BY <1>0, <1>2 DEF TypeInv
<1>5. Hands' = Hands \cup {x}
  BY <1>0, <1>2, <1>4 DEF Hands
<1>6. x \notin waitDelay \cup Hands \cup ran
  BY <1>3 DEF TaskAccounted
<1>7. \A v \in Workers : task[v] # x
  BY <1>2, <1>6 DEF Hands
<1>8. ASSUME NEW i \in DOMAIN readyRun', NEW j \in DOMAIN readyRun', readyRun'[i] = readyRun'[j]
      PROVE  i = j
  <2>1. i + 1 = j + 1
    BY <1>1, <1>8 DEF TaskAccounted
  <2>2. i \in Int /\ j \in Int
    BY <1>1
  <2> QED
    BY <2>1, <2>2
<1>9. TaskAccounted'
  <2>1. \A u, v \in Workers : task'[u] = task'[v] /\ task'[u] # NoTask => u = v
    BY <1>4, <1>7 DEF TaskAccounted
  <2> QED
    BY <1>0, <1>3, <1>5, <1>6, <1>8, <2>1 DEF TaskAccounted
<1>10. NeverEarly'
  BY <1>0, <1>3, <1>5 DEF NeverEarly
<1>11. TypeInv'
  BY <1>0, <1>1 DEF TypeInv
<1>12. HandInv' /\ AskInv'
  <2>1. HandInv'
    BY <1>0, <1>2, <1>4 DEF HandInv, TypeInv
  <2>2. AskInv'
    BY <1>0 DEF AskInv
  <2> QED
    BY <2>1, <2>2
<1> QED
  BY <1>9, <1>10, <1>11, <1>12

(* A worker has run its task.                                              *)
LEMMA RunKeeps ==
  ASSUME PoolInv, NEW w \in Workers, RunTask(w)
  PROVE  PoolInv'
<1> USE DEF PoolInv
<1>0. /\ UNCHANGED <<now, waitDelay, readyRun, scheduler, wants, due, result, caller>>
      /\ worker[w] = "run" /\ ran' = ran \cup {task[w]}
      /\ task' = [task EXCEPT ![w] = NoTask] /\ worker' = [worker EXCEPT ![w] = "check"]
  BY DEF RunTask, queueVars, schedVars, callVars
<1>1. PICK x \in Tasks : x = task[w] /\ x # NoTask /\ x \in Hands
  BY <1>0 DEF HandInv, TypeInv, Hands
<1>2. /\ task \in [Workers -> Tasks \cup {NoTask}]
      /\ \A v \in Workers : task'[v] = IF v = w THEN NoTask ELSE task[v]
  BY <1>0 DEF TypeInv
<1>3. Hands' = Hands \ {x}
  <2>1. \A v \in Workers : task[v] = x => v = w
    BY <1>1 DEF TaskAccounted
  <2> QED
    BY <1>1, <1>2, <2>1 DEF Hands
<1>4. InSeq(readyRun)' = InSeq(readyRun) /\ ran' = ran \cup {x}
  BY <1>0, <1>1 DEF InSeq
<1>5. TaskAccounted'
  <2>1. \A u, v \in Workers : task'[u] = task'[v] /\ task'[u] # NoTask => u = v
    BY <1>2 DEF TaskAccounted
  <2> QED
    BY <1>0, <1>1, <1>3, <1>4, <2>1 DEF TaskAccounted
<1>6. NeverEarly'
  BY <1>0, <1>1, <1>3, <1>4 DEF NeverEarly
<1>7. TypeInv'
  BY <1>0, <1>4 DEF TypeInv
<1>8. HandInv' /\ AskInv'
  BY <1>0, <1>2 DEF HandInv, AskInv, TypeInv
<1> QED
  BY <1>5, <1>6, <1>7, <1>8

LEMMA PoolStep == PoolInv /\ [Next]_vars => PoolInv'
<1> SUFFICES ASSUME PoolInv, [Next]_vars
             PROVE  PoolInv'
  OBVIOUS
<1> USE DEF queueVars, schedVars, workVars, callVars, stopVars
<1>1. ASSUME NEW c \in Callers, Calling(c)
      PROVE  PoolInv'
  <2>1. CASE EnqueueNotifies(c)
    BY <2>1, QuietStep DEF EnqueueNotifies, PoolInv, TypeInv
  <2> QED
    BY <1>1, <2>1, EnqueueKeeps, TimeoutKeeps DEF Calling
<1>2. ASSUME NEW w \in Workers, Worker(w)
      PROVE  PoolInv'
  <2>1. CASE CheckRunning(w)
    BY <2>1, QuietStep DEF CheckRunning, PoolInv, TypeInv
  <2>2. CASE TakeNothing(w)
    BY <2>2, QuietStep DEF TakeNothing, PoolInv, TypeInv
  <2> QED
    BY <1>2, <2>1, <2>2, TakeKeeps, RunKeeps DEF Worker
<1>3. CASE Scheduler
  <2>1. CASE LoopTop \/ EpollReturns \/ EpollTimeout
    BY <2>1, QuietStep DEF LoopTop, EpollReturns, EpollTimeout
  <2> QED
    BY <1>3, <2>1, EventsKeep DEF Scheduler
<1>4. CASE StopPool \/ Stopping
  BY <1>4, QuietStep DEF StopPool, Stopping, StopQueue, StopNotifies, JoinWorkers, JoinScheduler,
     PoolInv, TypeInv
<1>5. CASE Tick
  BY <1>5, QuietStep DEF Tick, PoolInv, TypeInv
<1>6. CASE UNCHANGED vars
  BY <1>6, QuietStep DEF vars, PoolInv, TypeInv
<1> QED
  BY <1>1, <1>2, <1>3, <1>4, <1>5, <1>6, SubmitKeeps DEF Next

LEMMA PoolInvariant == Spec => []PoolInv
  BY PoolInit, PoolStep, PTL DEF Spec

(* A task the pool said it took is in the heap, in the ready queue, with a *)
(* worker or done, in one of these and once; one it turned away, for want  *)
(* of room or because it was stopped, is nowhere (SyncTimerQueue).         *)
THEOREM TaskAccountedHolds == Spec => []TaskAccounted
  BY PoolInvariant, PTL DEF PoolInv

(* No task is run before its time, also when the timerfd goes off up to a  *)
(* millisecond early: the round takes out what is due by the clock.        *)
THEOREM NeverEarlyHolds == Spec => []NeverEarly
  BY PoolInvariant, PTL DEF PoolInv

=============================================================================
