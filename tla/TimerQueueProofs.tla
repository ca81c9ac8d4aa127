-------------------------- MODULE TimerQueueProofs --------------------------
(* Proofs about TimerQueue for every set of timers, any periods, any       *)
(* clock and any number of queued calls.                                   *)
EXTENDS TimerQueue, SequenceTheorems, TLAPS

\* A queued addTimerInLoop carries a timer that is nowhere else yet, once.
QueueInv ==
  /\ \A i \in 1..Len(pendingFunctors) : pendingFunctors[i][2] \in created
  /\ \A i \in 1..Len(pendingFunctors), t \in Timers :
       pendingFunctors[i] = <<"add", t>> =>
         /\ t \in alive /\ t \notin Of(timers) /\ t \notin Of(expired)
         /\ t \notin fired /\ canceledAt[t] \notin {"waiting", "round"}
  /\ \A i, j \in 1..Len(pendingFunctors), t \in Timers :
       pendingFunctors[i] = <<"add", t>> /\ pendingFunctors[j] = <<"add", t>> => i = j

\* A round holds what was due when it began.
RoundInv ==
  /\ alive \subseteq created /\ fired \subseteq created
  /\ pc # "round" => expired = {} /\ running = NoTimer
  /\ roundTime <= now
  /\ \A e \in expired : e[1] <= roundTime

\* A one-shot timer that has fired waits nowhere.
OnceInv == \A t \in fired : interval[t] = 0 => t \notin Of(timers) /\ t \notin Of(toFire)

\* A timer canceled between rounds is gone; a one-shot timer canceled in its
\* round is gone, or will be skipped.
CancelInv == \A t \in Timers :
  /\ canceledAt[t] # "no" => t \in created
  /\ canceledAt[t] = "waiting" => t \notin alive
  /\ canceledAt[t] = "round" /\ interval[t] = 0 =>
       t \notin Of(timers) /\ (t \in Of(toFire) => t \in canceled)

ArmInv == Armed /\ (timers # {} \/ pc = "round" => reading)

TimerInv == /\ TypeOK /\ QueuesAgree /\ QueueInv /\ RoundInv /\ OnceInv
            /\ CancelInv /\ ArmInv
-----------------------------------------------------------------------------
(* Facts about the data *)

LEMMA AppendType ==
  ASSUME NEW S, NEW q \in Seq(S), NEW x \in S
  PROVE  /\ Append(q, x) \in Seq(S) /\ Len(Append(q, x)) = Len(q) + 1
         /\ \A i \in 1..Len(q) : Append(q, x)[i] = q[i]
         /\ Append(q, x)[Len(q) + 1] = x
  BY AppendProperties

LEMMA TailType ==
  ASSUME NEW S, NEW q \in Seq(S), q # <<>>
  PROVE  /\ Head(q) \in S /\ Head(q) = q[1] /\ Len(q) \in Nat \ {0}
         /\ Tail(q) \in Seq(S) /\ Len(Tail(q)) = Len(q) - 1
         /\ \A i \in 1..Len(Tail(q)) : Tail(q)[i] = q[i + 1]
  BY HeadTailProperties, EmptySeq

LEMMA ModRange ==
  ASSUME NEW x \in Int
  PROVE  /\ x % Word \in 0..(Word - 1)
         /\ x >= 0 => x % Word <= x
  BY TimerAssumption

\* A timerfd set for now or later wakes the loop then, or one unit on.
LEMMA ResetArms ==
  ASSUME TypeOK, NEW when \in Nat, ResetTimerFd(when)
  PROVE  /\ alarm' \in Nat \ {0} /\ overdue' \in BOOLEAN
         /\ when >= now => ~overdue' /\ (alarm' <= when \/ alarm' <= now + 1)
<1>1. /\ (when - now) % Word \in Nat
      /\ when >= now => (when - now) % Word <= when - now
  <2>1. when - now \in Int
    BY DEF TypeOK
  <2>2. (when - now) % Word \in 0..(Word - 1) /\ (when - now >= 0 => (when - now) % Word <= when - now)
    BY <2>1, ModRange
  <2> QED
    BY <2>1, <2>2, TimerAssumption DEF TypeOK
<1> DEFINE d == (when - now) % Word
<1>2. alarm' = now + (IF d < 1 THEN 1 ELSE d) /\ overdue' = (when < now)
  BY DEF ResetTimerFd, MicrosFromNow
<1>3. d \in Nat /\ (when >= now => d <= when - now)
  BY <1>1
<1>4. now \in Nat \ {0}
  BY DEF TypeOK
<1> HIDE DEF d
<1>5. alarm' \in Nat \ {0} /\ (when >= now => alarm' <= when \/ alarm' <= now + 1)
  BY <1>2, <1>3, <1>4
<1>6. overdue' \in BOOLEAN /\ (when >= now => ~overdue')
  <2>1. when >= now => ~(when < now)
    BY <1>4
  <2>2. (when < now) \in BOOLEAN
    OBVIOUS
  <2> QED
    BY <1>2, <2>1, <2>2, Zenon
<1> QED
  BY <1>5, <1>6

-----------------------------------------------------------------------------
(* Types *)

LEMMA RequestType == ASSUME TypeOK
                     PROVE  Requests \subseteq Nat \X Nat
  BY TimerAssumption DEF Requests, TypeOK

LEMMA AddTypes ==
  ASSUME TypeOK, NEW t \in Timers, NEW when \in Nat, AddTimerInLoop(t, when)
  PROVE  /\ timers' \subseteq Nat \X Timers /\ activeTimers' \subseteq Timers
         /\ canceled' \subseteq Timers /\ reading' \in BOOLEAN
         /\ alarm' \in (Nat \ {0}) \cup {Never} /\ overdue' \in BOOLEAN
<1>1. alarm' \in (Nat \ {0}) \cup {Never} /\ overdue' \in BOOLEAN
  BY ResetArms DEF AddTimerInLoop, TypeOK
<1> QED
  BY <1>1 DEF AddTimerInLoop, TypeOK

LEMMA CancelTypes ==
  ASSUME TypeOK, NEW t \in Timers, CancelInLoop(t)
  PROVE  /\ timers' \subseteq Nat \X Timers /\ activeTimers' \subseteq Timers
         /\ canceled' \subseteq Timers /\ alive' \subseteq Timers
         /\ canceledAt' \in [Timers -> {"no", "unknown", "waiting", "round", "done"}]
  BY DEF CancelInLoop, Found, TypeOK

LEMMA CreateTypes ==
  ASSUME TypeOK, NEW t \in Timers, NEW when \in Nat, NEW period \in Nat,
         Create(t, when, period)
  PROVE  /\ expiration' \in [Timers -> Nat] /\ interval' \in [Timers -> Nat]
         /\ created' \subseteq Timers /\ alive' \subseteq Timers
  BY DEF Create, TypeOK

LEMMA TypeInit == Init => TypeOK
<1> SUFFICES ASSUME Init
             PROVE  TypeOK
  OBVIOUS
<1>1. pendingFunctors \in Seq(Functor)
  BY EmptySeq DEF Init
<1>2. /\ expiration \in [Timers -> Nat] /\ interval \in [Timers -> Nat]
      /\ canceledAt \in [Timers -> {"no", "unknown", "waiting", "round", "done"}]
  BY DEF Init
<1>3. alarm \in (Nat \ {0}) \cup {Never} /\ now \in Nat \ {0} /\ roundTime \in Nat
  BY DEF Init
<1>4. reading \in BOOLEAN /\ overdue \in BOOLEAN
  BY DEF Init
<1>5. timers \subseteq Nat \X Timers /\ expired \subseteq Nat \X Timers /\ toFire \subseteq expired
  BY DEF Init
<1>6. /\ created \subseteq Timers /\ alive \subseteq Timers /\ activeTimers \subseteq Timers
      /\ canceled \subseteq Timers /\ fired \subseteq Timers
      /\ pc \in {"idle", "round", "gone"} /\ running \in Timers \cup {NoTimer}
  BY DEF Init
<1> QED
  BY <1>1, <1>2, <1>3, <1>4, <1>5, <1>6 DEF TypeOK

LEMMA TypeNext == TypeOK /\ [Next]_vars => TypeOK'
<1> SUFFICES ASSUME TypeOK, [Next]_vars
             PROVE  TypeOK'
  OBVIOUS
<1> USE DEF queueVars, fdVars, roundVars, objVars
<1>1. ASSUME NEW t \in Timers, AddHere(t)
      PROVE  TypeOK'
  <2>1. PICK r \in Requests : Create(t, r[1], r[2]) /\ AddTimerInLoop(t, r[1])
    BY <1>1 DEF AddHere
  <2>2. r[1] \in Nat /\ r[2] \in Nat
    BY RequestType
  <2> QED
    BY <1>1, <2>1, <2>2, CreateTypes, AddTypes DEF AddHere, TypeOK
<1>2. ASSUME NEW t \in Timers, CancelHere(t)
      PROVE  TypeOK'
  <2>1. CancelInLoop(t)
    BY <1>2 DEF CancelHere
  <2>2. UNCHANGED <<fdVars, expiration, interval, created>>
    BY <2>1 DEF CancelInLoop
  <2> QED
    BY <1>2, <2>1, <2>2, CancelTypes DEF CancelHere, TypeOK
<1>3. ASSUME NEW t \in Timers, AddElsewhere(t)
      PROVE  TypeOK'
  <2>1. PICK r \in Requests : Create(t, r[1], r[2])
    BY <1>3 DEF AddElsewhere
  <2>2. r[1] \in Nat /\ r[2] \in Nat
    BY RequestType
  <2>3. <<"add", t>> \in Functor
    BY DEF Functor
  <2>4. pendingFunctors' \in Seq(Functor)
    BY <1>3, <2>3, AppendType DEF AddElsewhere, Queue, TypeOK
  <2> QED
    BY <1>3, <2>1, <2>2, <2>4, CreateTypes DEF AddElsewhere, TypeOK
<1>4. ASSUME NEW t \in Timers, CancelElsewhere(t)
      PROVE  TypeOK'
  <2>1. <<"cancel", t>> \in Functor
    BY DEF Functor
  <2>2. pendingFunctors' \in Seq(Functor)
    BY <1>4, <2>1, AppendType DEF CancelElsewhere, Queue, TypeOK
  <2> QED
    BY <1>4, <2>2 DEF CancelElsewhere, TypeOK
<1>5. CASE RunFunctor
  <2> DEFINE t == Head(pendingFunctors)[2]
  <2>1. Head(pendingFunctors) \in Functor /\ pendingFunctors' \in Seq(Functor)
    BY <1>5, TailType DEF RunFunctor, TypeOK
  <2>2. t \in Timers /\ expiration[t] \in Nat
    BY <2>1 DEF Functor, TypeOK
  <2>3. CASE AddTimerInLoop(t, expiration[t]) /\ UNCHANGED <<objVars, canceledAt>>
    BY <1>5, <2>1, <2>2, <2>3, AddTypes DEF RunFunctor, TypeOK
  <2>4. CASE CancelInLoop(t)
    <3>1. UNCHANGED <<fdVars, expiration, interval, created>>
      BY <2>4 DEF CancelInLoop
    <3> QED
      BY <1>5, <2>1, <2>2, <2>4, <3>1, CancelTypes DEF RunFunctor, TypeOK
  <2> QED
    BY <1>5, <2>3, <2>4 DEF RunFunctor
<1>6. CASE GetExpired
  BY <1>6 DEF GetExpired, Due, ActiveAfter, TypeOK
<1>7. ASSUME NEW e \in toFire, Skip(e)
      PROVE  TypeOK'
  BY <1>7 DEF Skip, TypeOK
<1>8. ASSUME NEW e \in toFire, Fire(e)
      PROVE  TypeOK'
  BY <1>8 DEF Fire, TypeOK
<1>9. ASSUME NEW e \in expired, Restart(e)
      PROVE  TypeOK'
  <2>1. e[2] \in Timers /\ roundTime + interval[e[2]] \in Nat
    BY DEF TypeOK
  <2> QED
    BY <1>9, <2>1 DEF Restart, FiringDone, TypeOK
<1>10. CASE EndRound
  <2>1. alarm' \in (Nat \ {0}) \cup {Never} /\ overdue' \in BOOLEAN
    BY <1>10, ResetArms DEF EndRound, First, TypeOK
  <2> QED
    BY <1>10, <2>1 DEF EndRound, TypeOK
<1>11. CASE CallbackReturns
  BY <1>11 DEF CallbackReturns, TypeOK
<1>12. CASE Destroy
  BY <1>12 DEF Destroy, TypeOK
<1>13. CASE Tick
  BY <1>13 DEF Tick, TypeOK
<1>14. CASE UNCHANGED vars
  BY <1>14 DEF vars, TypeOK
<1> QED
  BY <1>1, <1>2, <1>3, <1>4, <1>5, <1>6, <1>7, <1>8, <1>9, <1>10, <1>11, <1>12, <1>13,
     <1>14 DEF Next, HandleRead


-----------------------------------------------------------------------------
(* Who holds a timer *)

PlaceInv == QueuesAgree /\ QueueInv /\ RoundInv /\ OnceInv /\ CancelInv

LEMMA OfMinus ==
  ASSUME NEW E, NEW D \in SUBSET E, \A g \in E : g = Entry(g[2])
  PROVE  Of(E \ D) = Of(E) \ Of(D) /\ Of(D) \subseteq Of(E)
<1>1. \A u : (\E g \in E \ D : g[2] = u) <=> (\E g \in E : g[2] = u) /\ ~(\E g \in D : g[2] = u)
  BY DEF Entry
<1> QED
  BY <1>1 DEF Of

LEMMA OfMinusOne ==
  ASSUME NEW E, NEW e \in E, \A g \in E : g = Entry(g[2])
  PROVE  Of(E \ {e}) = Of(E) \ {e[2]}
<1>1. Of({e}) = {e[2]}
  BY DEF Of
<1> QED
  BY <1>1, OfMinus

\* The invariant of the queue when its first call is taken out.
LEMMA QueueTail ==
  ASSUME TypeOK, PlaceInv, pendingFunctors # <<>>, pendingFunctors' = Tail(pendingFunctors),
         created' = created, fired' = fired, NEW t \in Timers,
         \A u \in Timers : u # t =>
           /\ u \in alive /\ u \notin Of(timers) => u \in alive' /\ u \notin Of(timers')
           /\ u \notin Of(expired) => u \notin Of(expired')
           /\ canceledAt'[u] = canceledAt[u],
         \/ Head(pendingFunctors) = <<"add", t>>
         \/ /\ t \in alive /\ t \notin Of(timers) => t \in alive' /\ t \notin Of(timers')
            /\ t \notin Of(expired) => t \notin Of(expired')
            /\ t \notin Of(timers) /\ t \notin Of(expired) /\ canceledAt[t] \notin {"waiting", "round"}
                 => canceledAt'[t] \notin {"waiting", "round"}
  PROVE  QueueInv'
<1>1. /\ Head(pendingFunctors) = pendingFunctors[1] /\ Len(pendingFunctors) \in Nat \ {0}
      /\ Len(pendingFunctors') = Len(pendingFunctors) - 1
      /\ \A i \in 1..Len(pendingFunctors') : pendingFunctors'[i] = pendingFunctors[i + 1]
  BY TailType DEF TypeOK
<1>2. /\ \A i \in 1..Len(pendingFunctors') : i + 1 \in 1..Len(pendingFunctors) /\ i + 1 # 1
      /\ 1 \in 1..Len(pendingFunctors)
  BY <1>1
<1>3. ASSUME NEW i \in 1..Len(pendingFunctors')
      PROVE  pendingFunctors'[i][2] \in created'
  BY <1>1, <1>2 DEF PlaceInv, QueueInv
<1>4. ASSUME NEW i \in 1..Len(pendingFunctors'), NEW u \in Timers,
             pendingFunctors'[i] = <<"add", u>>
      PROVE  /\ u \in alive' /\ u \notin Of(timers') /\ u \notin Of(expired')
             /\ u \notin fired' /\ canceledAt'[u] \notin {"waiting", "round"}
  <2>1. /\ pendingFunctors[i + 1] = <<"add", u>> /\ i + 1 \in 1..Len(pendingFunctors)
        /\ i + 1 # 1
    BY <1>1, <1>2, <1>4
  <2>2. /\ u \in alive /\ u \notin Of(timers) /\ u \notin Of(expired)
        /\ u \notin fired /\ canceledAt[u] \notin {"waiting", "round"}
    BY <2>1 DEF PlaceInv, QueueInv
  <2>3. Head(pendingFunctors) # <<"add", u>>
    BY <1>1, <1>2, <2>1 DEF PlaceInv, QueueInv
  <2> QED
    BY <2>2, <2>3
<1>5. ASSUME NEW i \in 1..Len(pendingFunctors'), NEW j \in 1..Len(pendingFunctors'),
             NEW u \in Timers,
             pendingFunctors'[i] = <<"add", u>>, pendingFunctors'[j] = <<"add", u>>
      PROVE  i = j
  <2>1. i + 1 = j + 1
    BY <1>1, <1>2, <1>5 DEF PlaceInv, QueueInv
  <2> QED
    BY <2>1
<1>6. \A i \in 1..Len(pendingFunctors'), u \in Timers :
        pendingFunctors'[i] = <<"add", u>> =>
          /\ u \in alive' /\ u \notin Of(timers') /\ u \notin Of(expired')
          /\ u \notin fired' /\ canceledAt'[u] \notin {"waiting", "round"}
  BY <1>4
<1>7. \A i, j \in 1..Len(pendingFunctors'), u \in Timers :
        pendingFunctors'[i] = <<"add", u>> /\ pendingFunctors'[j] = <<"add", u>> => i = j
  BY <1>5
<1> QED
  BY <1>3, <1>6, <1>7, Zenon DEF QueueInv

\* ... and when nothing is taken out, and nothing queued is put anywhere.
LEMMA QueueStays ==
  ASSUME PlaceInv, pendingFunctors' = pendingFunctors, created' = created, fired' = fired,
         canceledAt' = canceledAt,
         \A u \in Timers : u \in alive /\ u \notin Of(timers) /\ u \notin Of(expired) =>
           u \in alive' /\ u \notin Of(timers') /\ u \notin Of(expired')
  PROVE  QueueInv'
  BY DEF PlaceInv, QueueInv

LEMMA CreateFresh ==
  ASSUME TypeOK, PlaceInv, NEW t \in Timers, NEW when \in Nat, NEW period \in Nat,
         Create(t, when, period)
  PROVE  /\ t \notin created /\ t \notin alive /\ t \notin fired /\ canceledAt[t] = "no"
         /\ t \notin Of(timers) /\ t \notin Of(expired) /\ t \notin Of(toFire)
         /\ created' = created \cup {t} /\ alive' = alive \cup {t}
         /\ expiration'[t] = when /\ interval'[t] = period
         /\ \A u \in Timers : u # t => expiration'[u] = expiration[u] /\ interval'[u] = interval[u]
<1>1. t \notin created /\ t \notin alive /\ t \notin fired
  BY DEF Create, PlaceInv, RoundInv
<1>2. t \notin Of(timers) /\ t \notin Of(expired) /\ t \notin Of(toFire)
  BY <1>1 DEF PlaceInv, QueuesAgree, TypeOK, Of
<1>3. canceledAt[t] = "no"
  BY <1>1 DEF PlaceInv, CancelInv
<1> QED
  BY <1>1, <1>2, <1>3 DEF Create, TypeOK

LEMMA AddPlaces ==
  ASSUME TypeOK, QueuesAgree, NEW t \in Timers, NEW when \in Nat, AddTimerInLoop(t, when),
         expiration'[t] = when,
         \A u \in Timers : u # t => expiration'[u] = expiration[u],
         alive \subseteq alive', t \in alive', expired' = expired,
         t \notin Of(timers), t \notin Of(expired)
  PROVE  QueuesAgree' /\ Of(timers') = Of(timers) \cup {t}
<1>1. timers' = timers \cup {<<when, t>>} /\ activeTimers' = activeTimers \cup {t}
  BY DEF AddTimerInLoop
<1>2. Of(timers') = Of(timers) \cup {t}
  <2>1. <<when, t>>[2] = t
    OBVIOUS
  <2>2. \A u : (\E e \in timers' : e[2] = u) <=> (u = t \/ \E e \in timers : e[2] = u)
    BY <1>1, <2>1
  <2> QED
    BY <2>2 DEF Of
<1>3. \A e \in timers' \cup expired' : e = <<expiration'[e[2]], e[2]>>
  BY <1>1 DEF QueuesAgree, Entry, Of, TypeOK
<1> QED
  BY <1>1, <1>2, <1>3 DEF QueuesAgree, Entry

LEMMA CancelPlaces ==
  ASSUME TypeOK, QueuesAgree, NEW t \in Timers, CancelInLoop(t), expired' = expired
  PROVE  /\ QueuesAgree'
         /\ Of(timers') = Of(timers) \ {t}
         /\ alive' = IF t \in Of(timers) THEN alive \ {t} ELSE alive
         /\ canceled' = IF t \in Of(timers) THEN canceled ELSE canceled \cup {t}
         /\ canceledAt' = [canceledAt EXCEPT ![t] = Found(t)]
         /\ UNCHANGED <<expiration, interval, created>>
<1>1. CASE t \in activeTimers
  <2>1. /\ timers' = timers \ {<<expiration[t], t>>} /\ activeTimers' = activeTimers \ {t}
        /\ alive' = alive \ {t} /\ UNCHANGED <<expiration, interval, created, canceled>>
    BY <1>1 DEF CancelInLoop, Entry
  <2>2. Of(timers') = Of(timers) \ {t}
    BY <2>1 DEF QueuesAgree, Entry, Of, TypeOK
  <2>3. t \notin Of(expired)
    BY <1>1 DEF QueuesAgree
  <2>4. QueuesAgree'
    BY <2>1, <2>2, <2>3 DEF QueuesAgree, Entry
  <2> QED
    BY <1>1, <2>1, <2>2, <2>4 DEF QueuesAgree, CancelInLoop
<1>2. CASE t \notin activeTimers
  <2>1. /\ canceled' = canceled \cup {t}
        /\ UNCHANGED <<timers, activeTimers, alive, expiration, interval, created>>
    BY <1>2 DEF CancelInLoop
  <2>2. Of(timers') = Of(timers) \ {t}
    BY <1>2, <2>1 DEF QueuesAgree
  <2>3. QueuesAgree'
    BY <2>1 DEF QueuesAgree, Entry
  <2> QED
    BY <1>2, <2>1, <2>2, <2>3 DEF QueuesAgree, CancelInLoop
<1> QED
  BY <1>1, <1>2

\* A cancel: apart from the queue, which is no matter of cancelInLoop.
LEMMA CancelKeeps ==
  ASSUME TypeOK, PlaceInv, NEW t \in Timers, t \in created, CancelInLoop(t),
         UNCHANGED <<now, pc, roundTime, expired, toFire, running, fired>>
  PROVE  /\ QueuesAgree' /\ RoundInv' /\ OnceInv' /\ CancelInv'
         /\ Of(timers') \subseteq Of(timers)
         /\ \A u \in Timers : u \notin Of(timers) => (u \in alive' <=> u \in alive)
         /\ \A u \in Timers : u # t => canceledAt'[u] = canceledAt[u]
         /\ t \notin Of(timers) /\ t \notin Of(expired) /\ canceledAt[t] \notin {"waiting", "round"}
              => canceledAt'[t] \notin {"waiting", "round"}
         /\ created' = created
<1>1. /\ QueuesAgree'
      /\ Of(timers') = Of(timers) \ {t}
      /\ alive' = IF t \in Of(timers) THEN alive \ {t} ELSE alive
      /\ canceled' = IF t \in Of(timers) THEN canceled ELSE canceled \cup {t}
      /\ canceledAt' = [canceledAt EXCEPT ![t] = Found(t)]
      /\ UNCHANGED <<expiration, interval, created>>
  BY CancelPlaces DEF PlaceInv
<1>2. activeTimers = Of(timers) /\ Of(timers) \cap Of(expired) = {} /\ Of(expired) \subseteq alive
  BY DEF PlaceInv, QueuesAgree
<1>3. Of(toFire) \subseteq Of(expired)
  BY DEF TypeOK, Of
<1>4. RoundInv'
  BY <1>1 DEF PlaceInv, RoundInv
<1>5. OnceInv'
  <2>1. Of(toFire') = Of(toFire)
    OBVIOUS
  <2> QED
    BY <1>1, <2>1 DEF PlaceInv, OnceInv
<1>6. canceledAt'[t] = Found(t) /\ \A u \in Timers : u # t => canceledAt'[u] = canceledAt[u]
  BY <1>1 DEF TypeOK
<1>7. CancelInv'
  <2> SUFFICES ASSUME NEW u \in Timers
               PROVE  /\ canceledAt'[u] # "no" => u \in created
                      /\ canceledAt'[u] = "waiting" => u \notin alive'
                      /\ canceledAt'[u] = "round" /\ interval[u] = 0 =>
                           u \notin Of(timers') /\ (u \in Of(toFire) => u \in canceled')
    BY <1>1 DEF CancelInv
  <2>1. /\ canceledAt[u] # "no" => u \in created
        /\ canceledAt[u] = "waiting" => u \notin alive
        /\ canceledAt[u] = "round" /\ interval[u] = 0 =>
             u \notin Of(timers) /\ (u \in Of(toFire) => u \in canceled)
    BY DEF PlaceInv, CancelInv
  <2>2. CASE u # t
    BY <1>1, <1>6, <2>1, <2>2
  <2>3. CASE u = t /\ t \in Of(timers)
    BY <1>1, <1>2, <1>6, <2>3 DEF Found
  <2>4. CASE u = t /\ t \notin Of(timers)
    BY <1>1, <1>2, <1>3, <1>6, <2>1, <2>4 DEF Found
  <2> QED
    BY <2>2, <2>3, <2>4
<1>8. t \notin Of(timers) /\ t \notin Of(expired) /\ canceledAt[t] \notin {"waiting", "round"}
        => canceledAt'[t] \notin {"waiting", "round"}
  BY <1>2, <1>6 DEF Found
<1> QED
  BY <1>1, <1>4, <1>5, <1>6, <1>7, <1>8

LEMMA PlaceNext == TypeOK /\ PlaceInv /\ [Next]_vars => PlaceInv'
<1> SUFFICES ASSUME TypeOK, PlaceInv, [Next]_vars
             PROVE  PlaceInv'
  OBVIOUS
<1>0. TypeOK'
  BY TypeNext
<1>a. /\ activeTimers = Of(timers) /\ Of(timers) \cap Of(expired) = {}
      /\ Of(timers) \cup Of(expired) \subseteq alive /\ alive \subseteq created
  BY DEF PlaceInv, QueuesAgree, RoundInv
<1>b. Of(toFire) \subseteq Of(expired)
  BY DEF TypeOK, Of
<1> USE DEF queueVars, fdVars, roundVars, objVars
<1>1. ASSUME NEW t \in Timers, AddHere(t)
      PROVE  PlaceInv'
  <2>1. PICK r \in Requests : Create(t, r[1], r[2]) /\ AddTimerInLoop(t, r[1])
    BY <1>1 DEF AddHere
  <2>2. r[1] \in Nat /\ r[2] \in Nat
    BY RequestType
  <2>3. /\ t \notin created /\ t \notin alive /\ t \notin fired /\ canceledAt[t] = "no"
        /\ t \notin Of(timers) /\ t \notin Of(expired) /\ t \notin Of(toFire)
        /\ created' = created \cup {t} /\ alive' = alive \cup {t}
        /\ expiration'[t] = r[1] /\ interval'[t] = r[2]
        /\ \A u \in Timers : u # t => expiration'[u] = expiration[u] /\ interval'[u] = interval[u]
    BY <2>1, <2>2, CreateFresh
  <2>4. UNCHANGED <<now, pendingFunctors, roundVars, canceledAt, canceled>>
    BY <1>1, <2>1 DEF AddHere, AddTimerInLoop
  <2>5. QueuesAgree' /\ Of(timers') = Of(timers) \cup {t}
    BY <2>1, <2>2, <2>3, <2>4, AddPlaces DEF PlaceInv
  <2>6. QueueInv'
    BY <2>3, <2>4, <2>5 DEF PlaceInv, QueueInv
  <2>7. RoundInv'
    BY <2>3, <2>4 DEF PlaceInv, RoundInv
  <2>8. OnceInv'
    BY <2>3, <2>4, <2>5 DEF PlaceInv, OnceInv, TypeOK
  <2>9. CancelInv'
    BY <2>3, <2>4, <2>5 DEF PlaceInv, CancelInv
  <2> QED
    BY <2>5, <2>6, <2>7, <2>8, <2>9 DEF PlaceInv
<1>2. ASSUME NEW t \in Timers, CancelHere(t)
      PROVE  PlaceInv'
  <2>1. /\ t \in created /\ CancelInLoop(t)
        /\ UNCHANGED <<now, pc, roundTime, expired, toFire, running, fired, pendingFunctors>>
    BY <1>2 DEF CancelHere
  <2>2. /\ QueuesAgree' /\ RoundInv' /\ OnceInv' /\ CancelInv'
        /\ Of(timers') \subseteq Of(timers)
        /\ \A u \in Timers : u \notin Of(timers) => (u \in alive' <=> u \in alive)
        /\ \A u \in Timers : u # t => canceledAt'[u] = canceledAt[u]
        /\ t \notin Of(timers) /\ t \notin Of(expired) /\ canceledAt[t] \notin {"waiting", "round"}
              => canceledAt'[t] \notin {"waiting", "round"}
        /\ created' = created
    BY <2>1, CancelKeeps
  <2>3. QueueInv'
    BY <2>1, <2>2 DEF PlaceInv, QueueInv
  <2> QED
    BY <2>2, <2>3 DEF PlaceInv
<1>3. ASSUME NEW t \in Timers, AddElsewhere(t)
      PROVE  PlaceInv'
  <2>1. PICK r \in Requests : Create(t, r[1], r[2])
    BY <1>3 DEF AddElsewhere
  <2>2. r[1] \in Nat /\ r[2] \in Nat
    BY RequestType
  <2>3. /\ t \notin created /\ t \notin alive /\ t \notin fired /\ canceledAt[t] = "no"
        /\ t \notin Of(timers) /\ t \notin Of(expired) /\ t \notin Of(toFire)
        /\ created' = created \cup {t} /\ alive' = alive \cup {t}
        /\ \A u \in Timers : u # t => expiration'[u] = expiration[u] /\ interval'[u] = interval[u]
    BY <2>1, <2>2, CreateFresh
  <2>4. UNCHANGED <<now, timers, activeTimers, canceled, roundVars, canceledAt>>
    BY <1>3 DEF AddElsewhere
  <2>5. <<"add", t>> \in Functor /\ pendingFunctors \in Seq(Functor)
    BY DEF Functor, TypeOK
  <2>6. /\ Len(pendingFunctors') = Len(pendingFunctors) + 1
        /\ \A i \in 1..Len(pendingFunctors) : pendingFunctors'[i] = pendingFunctors[i]
        /\ pendingFunctors'[Len(pendingFunctors) + 1] = <<"add", t>>
        /\ Len(pendingFunctors) \in Nat
    BY <1>3, <2>5, AppendType DEF AddElsewhere, Queue
  <2>7. QueuesAgree'
    <3>1. \A g \in timers \cup expired : g[2] \in Timers /\ g[2] # t /\ g = Entry(g[2])
      BY <2>3 DEF PlaceInv, QueuesAgree, Of, TypeOK
    <3> QED
      BY <1>a, <2>3, <2>4, <3>1 DEF PlaceInv, QueuesAgree, Entry
  <2>8. QueueInv'
    <3>1. \A i \in 1..Len(pendingFunctors') :
            i \in 1..Len(pendingFunctors) \/ i = Len(pendingFunctors) + 1
      BY <2>6
    <3>2. \A i \in 1..Len(pendingFunctors) : pendingFunctors[i] # <<"add", t>>
      BY <2>3 DEF PlaceInv, QueueInv
    <3> QED
      BY <2>3, <2>4, <2>6, <3>1, <3>2 DEF PlaceInv, QueueInv
  <2>9. RoundInv'
    BY <2>3, <2>4 DEF PlaceInv, RoundInv
  <2>10. OnceInv'
    BY <2>3, <2>4 DEF PlaceInv, OnceInv, TypeOK
  <2>11. CancelInv'
    BY <2>3, <2>4 DEF PlaceInv, CancelInv
  <2> QED
    BY <2>7, <2>8, <2>9, <2>10, <2>11 DEF PlaceInv
<1>4. ASSUME NEW t \in Timers, CancelElsewhere(t)
      PROVE  PlaceInv'
  <2>1. UNCHANGED <<now, objVars, queueVars, fdVars, roundVars, canceledAt>> /\ t \in created
    BY <1>4 DEF CancelElsewhere
  <2>2. <<"cancel", t>> \in Functor /\ pendingFunctors \in Seq(Functor)
    BY DEF Functor, TypeOK
  <2>3. /\ Len(pendingFunctors') = Len(pendingFunctors) + 1
        /\ \A i \in 1..Len(pendingFunctors) : pendingFunctors'[i] = pendingFunctors[i]
        /\ pendingFunctors'[Len(pendingFunctors) + 1] = <<"cancel", t>>
        /\ Len(pendingFunctors) \in Nat
    BY <1>4, <2>2, AppendType DEF CancelElsewhere, Queue
  <2>4. QueueInv'
    <3>1. \A i \in 1..Len(pendingFunctors') :
            i \in 1..Len(pendingFunctors) \/ i = Len(pendingFunctors) + 1
      BY <2>3
    <3>2. \A u : <<"cancel", t>> # <<"add", u>>
      OBVIOUS
    <3> QED
      BY <2>1, <2>3, <3>1, <3>2 DEF PlaceInv, QueueInv
  <2> QED
    BY <2>1, <2>4 DEF PlaceInv, QueuesAgree, RoundInv, OnceInv, CancelInv, Entry
<1>5. CASE RunFunctor
  <2> DEFINE f == Head(pendingFunctors)
             t == f[2]
  <2>1. /\ f \in Functor /\ f = pendingFunctors[1] /\ Len(pendingFunctors) \in Nat \ {0}
        /\ Len(pendingFunctors') = Len(pendingFunctors) - 1
        /\ \A i \in 1..Len(pendingFunctors') : pendingFunctors'[i] = pendingFunctors[i + 1]
    BY <1>5, TailType DEF RunFunctor, TypeOK
  <2>2. /\ \A i \in 1..Len(pendingFunctors') : i + 1 \in 1..Len(pendingFunctors) /\ i + 1 # 1
        /\ 1 \in 1..Len(pendingFunctors)
    BY <2>1
  <2>3. t \in Timers /\ t \in created /\ expiration[t] \in Nat
    <3>1. t \in Timers
      BY <2>1 DEF Functor
    <3> QED
      BY <2>1, <2>2, <3>1 DEF PlaceInv, QueueInv, TypeOK
  <2>4. UNCHANGED <<now, roundVars>>
    BY <1>5 DEF RunFunctor
  <2>5. CASE f[1] = "add" /\ AddTimerInLoop(t, expiration[t]) /\ UNCHANGED <<objVars, canceledAt>>
    <3>1. f = <<"add", t>>
      BY <2>1, <2>5 DEF Functor
    <3>2. /\ t \in alive /\ t \notin Of(timers) /\ t \notin Of(expired)
          /\ t \notin fired /\ canceledAt[t] \notin {"waiting", "round"}
      BY <2>1, <2>2, <2>3, <3>1 DEF PlaceInv, QueueInv
    <3>3. QueuesAgree' /\ Of(timers') = Of(timers) \cup {t}
      BY <2>3, <2>4, <2>5, <3>2, AddPlaces DEF PlaceInv
    <3>5. QueueInv'
      BY <1>5, <2>3, <2>4, <2>5, <3>1, <3>3, QueueTail DEF RunFunctor
    <3> HIDE DEF t, f
    <3>6. RoundInv'
      BY <2>4, <2>5 DEF PlaceInv, RoundInv
    <3>7. OnceInv'
      BY <2>4, <2>5, <3>2, <3>3 DEF PlaceInv, OnceInv
    <3>8. CancelInv'
      BY <2>4, <2>5, <3>2, <3>3 DEF PlaceInv, CancelInv, AddTimerInLoop
    <3> QED
      BY <3>3, <3>5, <3>6, <3>7, <3>8 DEF PlaceInv
  <2>6. CASE CancelInLoop(t)
    <3> HIDE DEF t, f
    <3>1. /\ QueuesAgree' /\ RoundInv' /\ OnceInv' /\ CancelInv'
          /\ Of(timers') \subseteq Of(timers)
          /\ \A u \in Timers : u \notin Of(timers) => (u \in alive' <=> u \in alive)
          /\ \A u \in Timers : u # t => canceledAt'[u] = canceledAt[u]
          /\ t \notin Of(timers) /\ t \notin Of(expired) /\ canceledAt[t] \notin {"waiting", "round"}
                => canceledAt'[t] \notin {"waiting", "round"}
          /\ created' = created
      BY <2>3, <2>4, <2>6, CancelKeeps
    <3>2. QueueInv'
      BY <1>5, <2>3, <2>4, <3>1, QueueTail DEF RunFunctor
    <3> QED
      BY <3>1, <3>2 DEF PlaceInv
  <2> QED
    BY <1>5, <2>5, <2>6 DEF RunFunctor
<1>6. CASE GetExpired
  <2>1. /\ expired' = Due /\ toFire' = Due /\ timers' = timers \ Due
        /\ activeTimers' = activeTimers \ Of(Due) /\ roundTime' = now /\ pc' = "round"
        /\ UNCHANGED <<now, objVars, canceled, pendingFunctors, running, fired, canceledAt>>
        /\ expired = {} /\ Due \subseteq timers
    BY <1>6 DEF GetExpired, ActiveAfter, Due, PlaceInv, RoundInv
  <2>2. Of(timers') = Of(timers) \ Of(Due) /\ Of(Due) \subseteq Of(timers)
    BY <2>1, OfMinus DEF PlaceInv, QueuesAgree
  <2>3. QueuesAgree'
    BY <1>a, <2>1, <2>2 DEF PlaceInv, QueuesAgree, Entry
  <2>4. QueueInv'
    BY <1>a, <2>1, <2>2, QueueStays
  <2>5. RoundInv'
    BY <2>1 DEF PlaceInv, RoundInv, Due, TypeOK
  <2>6. OnceInv'
    BY <2>1, <2>2 DEF PlaceInv, OnceInv
  <2>7. CancelInv'
    BY <2>1, <2>2 DEF PlaceInv, CancelInv
  <2> QED
    BY <2>3, <2>4, <2>5, <2>6, <2>7 DEF PlaceInv
<1>7. ASSUME NEW e \in toFire, Skip(e)
      PROVE  PlaceInv'
  <2>1. e[2] \in Timers /\ e = Entry(e[2])
    BY DEF PlaceInv, QueuesAgree, TypeOK
  <2>2. Of(toFire') = Of(toFire) \ {e[2]}
    BY <1>7, OfMinusOne DEF Skip, PlaceInv, QueuesAgree, TypeOK
  <2>3. /\ canceled' = canceled \ {e[2]}
        /\ UNCHANGED <<now, objVars, timers, activeTimers, pendingFunctors, pc, roundTime,
                       expired, running, fired, canceledAt>>
    BY <1>7 DEF Skip
  <2>4. OnceInv'
    BY <2>2, <2>3 DEF PlaceInv, OnceInv
  <2>5. CancelInv'
    BY <2>2, <2>3 DEF PlaceInv, CancelInv
  <2> QED
    BY <2>3, <2>4, <2>5 DEF PlaceInv, QueuesAgree, QueueInv, RoundInv, Entry
<1>8. ASSUME NEW e \in toFire, Fire(e)
      PROVE  PlaceInv'
  <2>1. e[2] \in Timers /\ e = Entry(e[2]) /\ e[2] \in Of(toFire) /\ pc = "round"
    BY <1>8 DEF Fire, PlaceInv, QueuesAgree, TypeOK, Of
  <2>2. Of(toFire') = Of(toFire) \ {e[2]}
    BY <1>8, OfMinusOne DEF Fire, PlaceInv, QueuesAgree, TypeOK
  <2>3. /\ fired' = fired \cup {e[2]}
        /\ UNCHANGED <<now, objVars, queueVars, pendingFunctors, pc, roundTime, expired,
                       canceledAt>>
    BY <1>8 DEF Fire
  <2>4. QueueInv'
    BY <1>b, <2>1, <2>3 DEF PlaceInv, QueueInv
  <2>5. RoundInv'
    BY <1>a, <1>b, <2>1, <2>3 DEF PlaceInv, RoundInv
  <2>6. OnceInv'
    BY <1>a, <1>b, <2>1, <2>2, <2>3 DEF PlaceInv, OnceInv
  <2>7. CancelInv'
    BY <2>2, <2>3 DEF PlaceInv, CancelInv
  <2> QED
    BY <2>3, <2>4, <2>5, <2>6, <2>7 DEF PlaceInv, QueuesAgree, Entry
<1>9. ASSUME NEW e \in expired, Restart(e)
      PROVE  PlaceInv'
  <2>1. /\ e[2] \in Timers /\ e = Entry(e[2]) /\ e[2] \in Of(expired)
        /\ e[2] \notin Of(timers) /\ e[2] \in alive
    BY <1>a DEF PlaceInv, QueuesAgree, TypeOK, Of
  <2>2. Of(expired') = Of(expired) \ {e[2]} /\ expired' \subseteq expired
    BY <1>9, OfMinusOne DEF Restart, PlaceInv, QueuesAgree
  <2>3. /\ toFire = {} /\ toFire' = {} /\ pc = "round"
        /\ UNCHANGED <<now, interval, created, canceled, pendingFunctors, pc,
                       roundTime, running, fired, canceledAt>>
    BY <1>9 DEF Restart, FiringDone
  <2>4. CASE Repeats(e[2])
    <3> DEFINE next == roundTime + interval[e[2]]
    <3>1. /\ expiration' = [expiration EXCEPT ![e[2]] = next]
          /\ activeTimers' = activeTimers \cup {e[2]}
          /\ timers' = timers \cup {<<next, e[2]>>}
          /\ alive' = alive /\ interval[e[2]] > 0
      BY <1>9, <2>4 DEF Restart, Repeats
    <3> HIDE DEF next
    <3>2. Of(timers') = Of(timers) \cup {e[2]}
      <4>1. <<next, e[2]>>[2] = e[2]
        OBVIOUS
      <4>2. \A u : (\E g \in timers' : g[2] = u) <=> (u = e[2] \/ \E g \in timers : g[2] = u)
        BY <3>1, <4>1
      <4> QED
        BY <4>2 DEF Of
    <3>3. QueuesAgree'
      <4>1. \A g \in timers' \cup expired' : g = <<expiration'[g[2]], g[2]>>
        <5>1. \A g \in timers \cup expired' : g[2] # e[2] /\ g[2] \in Timers
          BY <2>1, <2>2 DEF Of, TypeOK
        <5>2. expiration'[e[2]] = next /\ \A u \in Timers : u # e[2] => expiration'[u] = expiration[u]
          BY <2>1, <3>1 DEF TypeOK
        <5>3. \A g \in timers \cup expired' : g = <<expiration[g[2]], g[2]>>
          BY <2>2 DEF PlaceInv, QueuesAgree, Entry
        <5> QED
          BY <3>1, <5>1, <5>2, <5>3
      <4> QED
        BY <1>a, <2>1, <2>2, <3>1, <3>2, <4>1 DEF QueuesAgree, Entry
    <3>4. QueueInv'
      BY <2>1, <2>2, <2>3, <3>1, <3>2, QueueStays
    <3>5. OnceInv' /\ CancelInv'
      <4>1. Of(toFire') = {}
        BY <2>3 DEF Of
      <4> QED
        BY <2>3, <3>1, <3>2, <4>1 DEF PlaceInv, OnceInv, CancelInv
    <3>6. RoundInv'
      BY <2>2, <2>3, <3>1 DEF PlaceInv, RoundInv
    <3> QED
      BY <3>3, <3>4, <3>5, <3>6 DEF PlaceInv
  <2>5. CASE ~Repeats(e[2])
    <3>1. alive' = alive \ {e[2]} /\ UNCHANGED <<expiration, activeTimers, timers>>
      BY <1>9, <2>5 DEF Restart
    <3>2. QueuesAgree'
      BY <1>a, <2>1, <2>2, <3>1 DEF PlaceInv, QueuesAgree, Entry
    <3>3. QueueInv'
      BY <2>1, <2>2, <2>3, <3>1 DEF PlaceInv, QueueInv
    <3>4. OnceInv' /\ CancelInv'
      BY <2>3, <3>1 DEF PlaceInv, OnceInv, CancelInv
    <3>5. RoundInv'
      BY <2>2, <2>3, <3>1 DEF PlaceInv, RoundInv
    <3> QED
      BY <3>2, <3>3, <3>4, <3>5 DEF PlaceInv
  <2> QED
    BY <2>4, <2>5
<1>10. CASE EndRound
  <2>1. /\ toFire = {} /\ running = NoTimer /\ expired = {} /\ canceled' = {} /\ pc' = "idle"
        /\ UNCHANGED <<now, objVars, timers, activeTimers, pendingFunctors, roundTime, expired,
                       toFire, running, fired, canceledAt>>
    BY <1>10 DEF EndRound, FiringDone
  <2>2. Of(toFire') = {}
    BY <2>1 DEF Of
  <2>3. CancelInv'
    BY <2>1, <2>2 DEF PlaceInv, CancelInv
  <2> QED
    BY <2>1, <2>3 DEF PlaceInv, QueuesAgree, QueueInv, RoundInv, OnceInv, Entry
<1>11. CASE CallbackReturns
  <2>1. /\ running' = NoTimer
        /\ UNCHANGED <<now, objVars, queueVars, pendingFunctors, pc, roundTime, expired, toFire,
                       fired, canceledAt>>
    BY <1>11 DEF CallbackReturns
  <2> QED
    BY <2>1 DEF PlaceInv, QueuesAgree, QueueInv, RoundInv, OnceInv, CancelInv, Entry
<1>12. CASE Destroy
  <2>1. /\ alive' = alive \ Of(timers) /\ timers' = {} /\ activeTimers' = {} /\ canceled' = {}
        /\ pc = "idle" /\ pc' = "gone"
        /\ UNCHANGED <<now, expiration, interval, created, pendingFunctors, roundTime, expired,
                       toFire, running, fired, canceledAt>>
    BY <1>12 DEF Destroy
  <2>2. /\ Of(timers') = {} /\ expired = {} /\ toFire = {} /\ Of(expired) = {} /\ Of(toFire) = {}
    BY <2>1 DEF PlaceInv, RoundInv, Of, TypeOK
  <2>3. QueuesAgree'
    BY <2>1, <2>2 DEF QueuesAgree
  <2>4. QueueInv'
    BY <2>1, <2>2 DEF PlaceInv, QueueInv
  <2>5. RoundInv' /\ OnceInv' /\ CancelInv'
    BY <2>1, <2>2 DEF PlaceInv, RoundInv, OnceInv, CancelInv
  <2> QED
    BY <2>3, <2>4, <2>5 DEF PlaceInv
<1>13. CASE Tick
  <2>1. UNCHANGED <<objVars, queueVars, fdVars, pendingFunctors, roundVars, canceledAt>> /\ now' = now + 1
    BY <1>13 DEF Tick
  <2>2. RoundInv'
    BY <2>1 DEF PlaceInv, RoundInv, TypeOK
  <2> QED
    BY <2>1, <2>2 DEF PlaceInv, QueuesAgree, QueueInv, OnceInv, CancelInv, Entry
<1>14. CASE UNCHANGED vars
  <2>1. UNCHANGED <<now, objVars, queueVars, pendingFunctors, roundVars, canceledAt>>
    BY <1>14 DEF vars
  <2> QED
    BY <2>1 DEF PlaceInv, QueuesAgree, QueueInv, RoundInv, OnceInv, CancelInv, Entry
<1> QED
  BY <1>1, <1>2, <1>3, <1>4, <1>5, <1>6, <1>7, <1>8, <1>9, <1>10, <1>11, <1>12, <1>13,
     <1>14 DEF Next, HandleRead

-----------------------------------------------------------------------------
(* The timerfd *)

LEMMA AddArms ==
  ASSUME TypeOK, ArmInv, pc = "idle", NEW t \in Timers, NEW when \in Nat,
         AddTimerInLoop(t, when), UNCHANGED <<now, pc>>
  PROVE  ArmInv'
<1>1. timers' = timers \cup {<<when, t>>} /\ reading' = TRUE
  BY DEF AddTimerInLoop
<1>2. <<when, t>>[1] = when /\ now \in Nat \ {0} /\ \A e \in timers : e[1] \in Nat
  BY DEF TypeOK
<1>3. CASE EarliestChanged(when)
  <2>1. ResetTimerFd(when)
    BY <1>3 DEF AddTimerInLoop
  <2>2. /\ alarm' \in Nat \ {0} /\ overdue' \in BOOLEAN
        /\ when >= now => ~overdue' /\ (alarm' <= when \/ alarm' <= now + 1)
    BY <2>1, ResetArms
  <2>3. when < now => overdue'
    BY <2>1 DEF ResetTimerFd
  <2>4. \A e \in timers' : overdue' \/ alarm' <= e[1] \/ alarm' <= now + 1
    BY <1>1, <1>2, <1>3, <2>2, <2>3 DEF EarliestChanged
  <2>5. alarm' # Never
    BY <2>2 DEF Never
  <2> QED
    BY <1>1, <2>4, <2>5 DEF ArmInv, Armed
<1>4. CASE ~EarliestChanged(when)
  <2>1. UNCHANGED <<alarm, overdue>>
    BY <1>4 DEF AddTimerInLoop
  <2>2. PICK f \in timers : ~(when < f[1])
    BY <1>4 DEF EarliestChanged
  <2>3. f[1] <= when
    BY <1>2, <2>2
  <2>4. /\ reading /\ alarm # Never
        /\ overdue \/ \A e \in timers : alarm <= e[1] \/ alarm <= now + 1
    BY <2>2 DEF ArmInv, Armed
  <2>5. alarm \in Nat
    BY <2>4 DEF TypeOK
  <2>6. overdue \/ alarm <= when \/ alarm <= now + 1
    BY <1>2, <2>2, <2>3, <2>4, <2>5
  <2> QED
    BY <1>1, <1>2, <2>1, <2>4, <2>6 DEF ArmInv, Armed
<1> QED
  BY <1>3, <1>4

LEMMA ArmNext == TypeOK /\ PlaceInv /\ ArmInv /\ [Next]_vars => ArmInv'
<1> SUFFICES ASSUME TypeOK, PlaceInv, ArmInv, [Next]_vars
             PROVE  ArmInv'
  OBVIOUS
<1> USE DEF queueVars, fdVars, roundVars, objVars
<1>0. pc # "round" => expired = {} /\ running = NoTimer
  BY DEF PlaceInv, RoundInv
<1>1. ASSUME NEW t \in Timers, AddHere(t)
      PROVE  ArmInv'
  <2>1. PICK r \in Requests : AddTimerInLoop(t, r[1])
    BY <1>1 DEF AddHere
  <2>2. r[1] \in Nat /\ UNCHANGED <<now, pc>>
    BY <1>1, RequestType DEF AddHere
  <2>3. CASE pc = "idle"
    BY <2>1, <2>2, <2>3, AddArms
  <2>4. CASE pc # "idle"
    BY <2>1, <2>2, <2>4 DEF AddTimerInLoop, ArmInv, Armed
  <2> QED
    BY <2>3, <2>4
<1>2. ASSUME NEW t \in Timers, CancelInLoop(t), UNCHANGED <<now, pc>>
      PROVE  ArmInv'
  <2>1. timers' \subseteq timers /\ UNCHANGED fdVars
    BY <1>2 DEF CancelInLoop
  <2> QED
    BY <1>2, <2>1 DEF ArmInv, Armed
<1>3. ASSUME NEW t \in Timers, CancelHere(t)
      PROVE  ArmInv'
  BY <1>2, <1>3 DEF CancelHere
<1>4. ASSUME NEW t \in Timers, AddElsewhere(t) \/ CancelElsewhere(t)
      PROVE  ArmInv'
  <2>1. UNCHANGED <<now, timers, fdVars, pc>>
    BY <1>4 DEF AddElsewhere, CancelElsewhere
  <2> QED
    BY <2>1 DEF ArmInv, Armed
<1>5. CASE RunFunctor
  <2> DEFINE t == Head(pendingFunctors)[2]
  <2>1. Head(pendingFunctors) \in Functor
    BY <1>5, TailType DEF RunFunctor, TypeOK
  <2>2. t \in Timers /\ expiration[t] \in Nat /\ pc = "idle" /\ UNCHANGED <<now, pc>>
    BY <1>5, <2>1 DEF Functor, TypeOK, RunFunctor
  <2>3. AddTimerInLoop(t, expiration[t]) \/ CancelInLoop(t)
    BY <1>5 DEF RunFunctor
  <2> HIDE DEF t
  <2> QED
    BY <1>2, <2>2, <2>3, AddArms
<1>6. CASE GetExpired
  BY <1>6 DEF GetExpired, ArmInv, Armed
<1>7. ASSUME NEW e \in toFire, Skip(e) \/ Fire(e)
      PROVE  ArmInv'
  <2>1. UNCHANGED <<now, timers, fdVars, pc>>
    BY <1>7 DEF Skip, Fire
  <2> QED
    BY <2>1 DEF ArmInv, Armed
<1>8. ASSUME NEW e \in expired, Restart(e)
      PROVE  ArmInv'
  <2>1. UNCHANGED <<fdVars, pc>> /\ pc = "round"
    BY <1>8 DEF Restart, FiringDone
  <2> QED
    BY <2>1 DEF ArmInv, Armed
<1>9. CASE EndRound
  <2>1. UNCHANGED <<now, timers, reading>> /\ now \in Nat \ {0} /\ \A e \in timers : e[1] \in Nat
    BY <1>9 DEF EndRound, TypeOK
  <2>0. reading /\ pc' = "idle"
    BY <1>9 DEF EndRound, FiringDone, ArmInv
  <2>2. CASE timers = {}
    BY <2>0, <2>1, <2>2 DEF ArmInv, Armed
  <2>3. CASE timers # {}
    <3>1. PICK e \in timers : First(timers, e) /\ ResetTimerFd(e[1])
      BY <1>9, <2>3 DEF EndRound
    <3>2. /\ alarm' \in Nat \ {0} /\ overdue' \in BOOLEAN
          /\ e[1] >= now => ~overdue' /\ (alarm' <= e[1] \/ alarm' <= now + 1)
      BY <2>1, <3>1, ResetArms
    <3>3. e[1] < now => overdue'
      BY <3>1 DEF ResetTimerFd
    <3>4. \A f \in timers : overdue' \/ alarm' <= f[1] \/ alarm' <= now + 1
      BY <2>1, <3>1, <3>2, <3>3 DEF First
    <3> QED
      BY <2>1, <2>3, <3>2, <3>4 DEF ArmInv, Armed, Never
  <2> QED
    BY <2>2, <2>3
<1>10. CASE CallbackReturns
  BY <1>10 DEF CallbackReturns, ArmInv, Armed
<1>11. CASE Destroy
  BY <1>11 DEF Destroy, ArmInv, Armed
<1>12. CASE Tick
  <2>1. UNCHANGED <<timers, fdVars, pc>> /\ now' = now + 1 /\ now \in Nat
    BY <1>12 DEF Tick, TypeOK
  <2>2. pc = "idle" /\ timers # {} => alarm \in Nat
    BY DEF ArmInv, Armed, TypeOK
  <2>3. pc = "idle" /\ timers # {} /\ alarm <= now + 1 => alarm <= now' + 1
    BY <2>1, <2>2
  <2> QED
    BY <2>1, <2>3 DEF ArmInv, Armed
<1>13. CASE UNCHANGED vars
  BY <1>13 DEF vars, ArmInv, Armed
<1> QED
  BY <1>1, <1>3, <1>4, <1>5, <1>6, <1>7, <1>8, <1>9, <1>10, <1>11, <1>12, <1>13
     DEF Next, HandleRead

-----------------------------------------------------------------------------
(* The invariant, and what follows from it *)

LEMMA TimerInit == Init => TimerInv
<1> SUFFICES ASSUME Init
             PROVE  TimerInv
  OBVIOUS
<1>1. Of(timers) = {} /\ Of(expired) = {} /\ Of(toFire) = {} /\ Len(pendingFunctors) = 0
  BY DEF Init, Of
<1>2. QueueInv
  BY <1>1 DEF QueueInv
<1>3. QueuesAgree /\ RoundInv /\ OnceInv /\ CancelInv /\ ArmInv
  BY <1>1 DEF Init, QueuesAgree, RoundInv, OnceInv, CancelInv, ArmInv, Armed
<1> QED
  BY <1>2, <1>3, TypeInit DEF TimerInv

LEMMA TimerNext == TimerInv /\ [Next]_vars => TimerInv'
  BY TypeNext, PlaceNext, ArmNext DEF TimerInv, PlaceInv

LEMMA TimerAlways == Spec => []TimerInv
  BY TimerInit, TimerNext, PTL DEF Spec

\* The states of the timers, containers, timerfd and queue are of their
\* types, through rounds, cancels and calls of other threads.
THEOREM TypeCorrect == Spec => []TypeOK
  BY TimerAlways, PTL DEF TimerInv

\* timers_, activeTimers_ and the round in progress share out the live timers
\* (addTimerInLoop, cancelInLoop, getExpired, the second loop of handleRead):
\* none of them holds a deleted timer, so none is used or deleted twice.
THEOREM QueuesAgreeHolds == Spec => []QueuesAgree
  BY TimerAlways, PTL DEF TimerInv

\* Between rounds the timerfd is set early enough for every timer, unless
\* microsFromNow was last given a time in the past.
THEOREM ArmedHolds == Spec => []Armed
<1>1. TimerInv => Armed
  BY DEF TimerInv, ArmInv
<1> QED
  BY TimerAlways, <1>1, PTL

LEMMA RunsStep ==
  ASSUME TimerInv, [Next]_vars, NEW t \in Timers, StartsRun(t)
  PROVE  /\ t \in alive /\ expiration[t] <= now
         /\ t \in fired => interval[t] > 0
         /\ canceledAt[t] # "waiting"
         /\ canceledAt[t] = "round" => interval[t] > 0
<1>1. running' = t /\ running # t /\ t # NoTimer
  BY TimerAssumption DEF StartsRun
<1>2. PICK e \in toFire : Fire(e)
  BY <1>1 DEF Next, HandleRead, AddHere, CancelHere, AddElsewhere, CancelElsewhere, RunFunctor,
       GetExpired, Skip, Restart, EndRound, CallbackReturns, Destroy, Tick, vars, roundVars
<1>3. e[2] = t /\ t \notin canceled
  BY <1>1, <1>2 DEF Fire, Skipped
<1>4. e \in expired /\ t \in Of(expired) /\ t \in Of(toFire) /\ expiration[t] = e[1]
  BY <1>3 DEF TimerInv, TypeOK, QueuesAgree, Entry, Of
<1>5. t \in alive
  BY <1>4 DEF TimerInv, QueuesAgree
<1>6. expiration[t] <= now
  <2>1. e[1] <= roundTime /\ roundTime <= now
    BY <1>4 DEF TimerInv, RoundInv
  <2>2. expiration[t] \in Nat /\ roundTime \in Nat /\ now \in Nat
    BY DEF TimerInv, TypeOK
  <2> QED
    BY <1>4, <2>1, <2>2
<1>7. interval[t] \in Nat
  BY DEF TimerInv, TypeOK
<1>8. t \in fired => interval[t] > 0
  BY <1>4, <1>7 DEF TimerInv, OnceInv
<1>9. canceledAt[t] # "waiting" /\ (canceledAt[t] = "round" => interval[t] > 0)
  BY <1>3, <1>4, <1>5, <1>7 DEF TimerInv, CancelInv
<1> QED
  BY <1>5, <1>6, <1>8, <1>9

\* No callback of handleRead runs early, on a deleted timer, or a second time
\* for a one-shot timer.
THEOREM RunsAsAskedHolds == Spec => RunsAsAsked
<1>1. TimerInv /\ [Next]_vars =>
        [\A t \in Timers : StartsRun(t) =>
           /\ t \in alive /\ expiration[t] <= now
           /\ t \in fired => interval[t] > 0]_vars
  BY RunsStep
<1> QED
  BY TimerAlways, <1>1, PTL DEF Spec, RunsAsAsked

\* cancel holds for one-shot timers at any moment after they were added, and
\* for periodic ones between their rounds, whoever cancels.
THEOREM CancelHonouredHolds == Spec => CancelHonoured
<1>1. TimerInv /\ [Next]_vars =>
        [\A t \in Timers : StartsRun(t) =>
           /\ canceledAt[t] # "waiting"
           /\ canceledAt[t] = "round" => interval[t] > 0]_vars
  BY RunsStep
<1> QED
  BY TimerAlways, <1>1, PTL DEF Spec, CancelHonoured
=============================================================================
