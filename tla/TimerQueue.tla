----------------------------- MODULE TimerQueue -----------------------------
(* nwl::TimerQueue, the timers of one EventLoop: a set ordered by expiry,  *)
(* a map from sequence numbers to the same timers, and one timerfd set for *)
(* the earliest of them.  Timers are added and canceled by the callbacks,  *)
(* functors and handlers of the loop's thread, which act at once, and by   *)
(* other threads, whose calls become functors of the loop.                 *)
(*                                                                         *)
(* A timer stands for its address and its sequence number (both unique);   *)
(* one unit of time stands for the 100 microseconds of microsFromNow.      *)
EXTENDS Integers, Sequences, FiniteSets

CONSTANTS
  Timers,      \* Timer objects, each created at most once
  NoTimer,
  Intervals,   \* the periods runEvery may be given
  MaxTime,     \* bound: the clock stops here
  MaxQueued,   \* bound: functors waiting for the loop
  Word         \* 2^64: the range of the unsigned time difference

ASSUME TimerAssumption ==
  /\ NoTimer \notin Timers
  /\ Intervals \subseteq Nat \ {0}
  /\ MaxTime \in Nat /\ MaxQueued \in Nat
  /\ Word \in Nat /\ Word > 2

VARIABLES
  now,           \* the clock
  expiration, interval,   \* Timer::expirationUs_, intervalUs_ (0: one-shot)
  created,       \* timers made by addTimer
  alive,         \* those that have not been deleted
  timers,        \* timers_: set of (expiry, timer)
  activeTimers,  \* the timers activeTimers_ maps a sequence number to
  canceled,      \* canceledWhilePending_
  reading,       \* the timerfd's channel is in the poller
  alarm,         \* when the timerfd becomes readable
  pendingFunctors, \* calls of other threads, queued in the loop
  pc,            \* where the loop's thread is
  roundTime,     \* handleRead's now
  expired,       \* handleRead's vector, and
  toFire,        \* what its first loop has still to visit
  running,       \* the timer whose callback is on the stack
  fired,         \* history: timers whose callback was ever started
  canceledAt,    \* history: in what state cancelInLoop met a timer
  overdue        \* history: the timerfd was last set for a time in the past

queueVars == <<timers, activeTimers, canceled>>
fdVars    == <<reading, alarm, overdue>>
roundVars == <<pc, roundTime, expired, toFire, running, fired>>
objVars   == <<expiration, interval, created, alive>>
vars == <<now, objVars, queueVars, fdVars, pendingFunctors, roundVars, canceledAt>>

Never == -1
Entry(t) == <<expiration[t], t>>
Of(entries) == {e[2] : e \in entries}

\* a functor: addTimerInLoop or cancelInLoop of a timer
Functor == {"add", "cancel"} \X Timers

TypeOK ==
  /\ now \in Nat \ {0}
  /\ expiration \in [Timers -> Nat] /\ interval \in [Timers -> Nat]
  /\ created \subseteq Timers /\ alive \subseteq Timers
  /\ timers \subseteq Nat \X Timers
  /\ activeTimers \subseteq Timers /\ canceled \subseteq Timers
  /\ reading \in BOOLEAN /\ overdue \in BOOLEAN
  /\ alarm \in (Nat \ {0}) \cup {Never}
  /\ pendingFunctors \in Seq(Functor)
  /\ pc \in {"idle", "round", "gone"}
  /\ roundTime \in Nat
  /\ expired \subseteq Nat \X Timers /\ toFire \subseteq expired
  /\ running \in Timers \cup {NoTimer}
  /\ fired \subseteq Timers
  /\ canceledAt \in [Timers -> {"no", "unknown", "waiting", "round", "done"}]

Init ==
  /\ now = 1
  /\ expiration = [t \in Timers |-> 0] /\ interval = [t \in Timers |-> 0]
  /\ created = {} /\ alive = {}
  /\ timers = {} /\ activeTimers = {} /\ canceled = {}
  /\ reading = FALSE /\ alarm = Never /\ overdue = FALSE
  /\ pendingFunctors = <<>>
  /\ pc = "idle" /\ roundTime = 0
  /\ expired = {} /\ toFire = {} /\ running = NoTimer /\ fired = {}
  /\ canceledAt = [t \in Timers |-> "no"]

-----------------------------------------------------------------------------
(* The timerfd *)

\* unsigned arithmetic: a time in the past is very far away
MicrosFromNow(when) ==
  LET diff == (when - now) % Word IN IF diff < 1 THEN 1 ELSE diff

\* begin() of a set or vector in the order of expiry
First(entries, e) == e \in entries /\ \A f \in entries : e[1] <= f[1]

ResetTimerFd(when) ==
  /\ alarm' = now + MicrosFromNow(when)
  /\ overdue' = (when < now)

EarliestChangedMut(when) == timers = {}  \* mutant: only the first is armed
EarliestChanged(when) == \A e \in timers : when < e[1]

-----------------------------------------------------------------------------
(* addTimer and cancel *)

\* The loop's thread runs code that is not handleRead's own.
UserCode == pc = "idle" \/ running # NoTimer

\* the constructor of Timer: runAt, runAfter (one-shot) and runEvery
Create(t, when, period) ==
  /\ t \notin created
  /\ created' = created \cup {t} /\ alive' = alive \cup {t}
  /\ expiration' = [expiration EXCEPT ![t] = when]
  /\ interval' = [interval EXCEPT ![t] = period]

AddTimerInLoop(t, when) ==
  /\ timers' = timers \cup {<<when, t>>}
  /\ activeTimers' = activeTimers \cup {t}
  /\ reading' = TRUE
  /\ IF EarliestChanged(when) THEN ResetTimerFd(when) ELSE UNCHANGED <<alarm, overdue>>
  /\ UNCHANGED canceled

\* what the history remembers of a cancel
Found(t) == IF t \in activeTimers THEN "waiting"
            ELSE IF t \in Of(expired) THEN "round"
            ELSE IF t \in alive THEN "unknown"
            ELSE IF canceledAt[t] = "no" THEN "done" ELSE canceledAt[t]

CancelInLoop(t) ==
  /\ IF t \in activeTimers
     THEN /\ timers' = timers \ {Entry(t)}
          /\ activeTimers' = activeTimers \ {t}
          /\ alive' = alive \ {t}
          /\ UNCHANGED canceled
     ELSE /\ canceled' = canceled \cup {t}
          /\ UNCHANGED <<timers, activeTimers, alive>>
  /\ canceledAt' = [canceledAt EXCEPT ![t] = Found(t)]
  /\ UNCHANGED <<fdVars, expiration, interval, created>>

\* runAt: any time, past or future, once; runEvery: from now on
Requests == {<<w, 0>> : w \in 0..MaxTime} \cup {<<now + i, i>> : i \in Intervals}

AddHere(t) ==
  /\ UserCode
  /\ \E r \in Requests : Create(t, r[1], r[2]) /\ AddTimerInLoop(t, r[1])
  /\ UNCHANGED <<now, pendingFunctors, roundVars, canceledAt>>

CancelHere(t) ==
  /\ UserCode /\ t \in created
  /\ CancelInLoop(t)
  /\ UNCHANGED <<now, pendingFunctors, roundVars>>

Queue(f) ==
  /\ pc # "gone"
  /\ Len(pendingFunctors) < MaxQueued
  /\ pendingFunctors' = Append(pendingFunctors, f)

AddElsewhere(t) ==
  /\ \E r \in Requests : Create(t, r[1], r[2])
  /\ Queue(<<"add", t>>)
  /\ UNCHANGED <<now, queueVars, fdVars, roundVars, canceledAt>>

CancelElsewhere(t) ==
  /\ t \in created
  /\ Queue(<<"cancel", t>>)
  /\ UNCHANGED <<now, objVars, queueVars, fdVars, roundVars, canceledAt>>

(* doPendingFunctors runs what the other threads asked for.                *)
RunFunctor ==
  /\ pc = "idle" /\ pendingFunctors # <<>>
  /\ pendingFunctors' = Tail(pendingFunctors)
  /\ LET t == Head(pendingFunctors)[2] IN
       \/ /\ Head(pendingFunctors)[1] = "add"
          /\ AddTimerInLoop(t, expiration[t])
          /\ UNCHANGED <<objVars, canceledAt>>
       \/ /\ Head(pendingFunctors)[1] = "cancel"
          /\ CancelInLoop(t)
  /\ UNCHANGED <<now, roundVars>>

-----------------------------------------------------------------------------
(* handleRead *)

DueMut == {e \in timers : e[1] <= now + 1}  \* mutant: one unit too early
Due == {e \in timers : e[1] <= now}

ActiveAfterMut == activeTimers  \* mutant: expired timers stay in the map
ActiveAfter == activeTimers \ Of(Due)

(* read() empties the timerfd, getExpired takes what is due out of both    *)
(* containers.                                                             *)
GetExpired ==
  /\ pc = "idle" /\ reading /\ alarm # Never /\ alarm <= now
  /\ alarm' = Never
  /\ roundTime' = now
  /\ expired' = Due /\ toFire' = Due
  /\ timers' = timers \ Due
  /\ activeTimers' = ActiveAfter
  /\ pc' = "round"
  /\ UNCHANGED <<now, objVars, canceled, reading, overdue, pendingFunctors,
                 running, fired, canceledAt>>

\* (timers with one expiry, which addresses order, are visited in any order)
SkippedMut(t) == FALSE  \* mutant: no second look at the canceled timers
SkippedAll(t) == canceled # {}  \* mutant: one cancel stops the others too
Skipped(t) == t \in canceled

(* The first loop skips the timers that were canceled ...                  *)
Skip(e) ==
  /\ pc = "round" /\ running = NoTimer /\ First(toFire, e) /\ Skipped(e[2])
  /\ canceled' = canceled \ {e[2]}
  /\ toFire' = toFire \ {e}
  /\ UNCHANGED <<now, objVars, timers, activeTimers, fdVars, pendingFunctors, pc,
                 roundTime, expired, running, fired, canceledAt>>

(* ... and calls back for the others.                                      *)
Fire(e) ==
  /\ pc = "round" /\ running = NoTimer /\ First(toFire, e) /\ ~Skipped(e[2])
  /\ toFire' = toFire \ {e}
  /\ running' = e[2]
  /\ fired' = fired \cup {e[2]}
  /\ UNCHANGED <<now, objVars, queueVars, fdVars, pendingFunctors, pc, roundTime,
                 expired, canceledAt>>

CallbackReturns ==
  /\ running # NoTimer
  /\ running' = NoTimer
  /\ UNCHANGED <<now, objVars, queueVars, fdVars, pendingFunctors, pc, roundTime,
                 expired, toFire, fired, canceledAt>>

FiringDone == pc = "round" /\ toFire = {} /\ running = NoTimer

RepeatsMut(t) == expiration[t] > 0  \* mutant: restart() does not look at repeat_
Repeats(t) == expiration[t] > 0 /\ interval[t] > 0

(* The second loop: periodic timers go back, the others are deleted.       *)
Restart(e) ==
  /\ FiringDone /\ e \in expired
  /\ expired' = expired \ {e}
  /\ LET t == e[2] IN
       IF Repeats(t)
       THEN LET next == roundTime + interval[t] IN
            /\ expiration' = [expiration EXCEPT ![t] = next]
            /\ activeTimers' = activeTimers \cup {t}
            /\ timers' = timers \cup {<<next, t>>}
            /\ UNCHANGED alive
       ELSE /\ alive' = alive \ {t}
            /\ UNCHANGED <<expiration, activeTimers, timers>>
  /\ UNCHANGED <<now, interval, created, canceled, fdVars, pendingFunctors, pc,
                 roundTime, toFire, running, fired, canceledAt>>

(* The round ends with the timerfd set anew, or off.                       *)
EndRound ==
  /\ FiringDone /\ expired = {}
  /\ pc' = "idle"
  /\ \/ \E e \in timers : First(timers, e) /\ ResetTimerFd(e[1])
     \/ timers = {} /\ alarm' = Never /\ overdue' = FALSE
  /\ canceled' = {}
  /\ UNCHANGED <<now, objVars, timers, activeTimers, reading, pendingFunctors,
                 roundTime, expired, toFire, running, fired, canceledAt>>

(* ~TimerQueue, after the loop has ended.                                  *)
Destroy ==
  /\ pc = "idle"
  /\ pc' = "gone"
  /\ reading' = FALSE /\ alarm' = Never
  /\ alive' = alive \ Of(timers)
  /\ timers' = {} /\ activeTimers' = {} /\ canceled' = {}
  /\ UNCHANGED <<now, expiration, interval, created, overdue, pendingFunctors,
                 roundTime, expired, toFire, running, fired, canceledAt>>

Tick ==
  /\ now < MaxTime
  /\ now' = now + 1
  /\ UNCHANGED <<objVars, queueVars, fdVars, pendingFunctors, roundVars, canceledAt>>

HandleRead ==
  \/ GetExpired
  \/ \E e \in toFire : Skip(e) \/ Fire(e)
  \/ \E e \in expired : Restart(e)
  \/ EndRound

Next ==
  \/ \E t \in Timers : AddHere(t) \/ CancelHere(t) \/ AddElsewhere(t) \/ CancelElsewhere(t)
  \/ RunFunctor \/ HandleRead \/ CallbackReturns
  \/ Destroy \/ Tick

Spec == Init /\ [][Next]_vars

\* The loop's thread keeps running, callbacks return, and time goes on.
Fairness == WF_vars(HandleRead) /\ WF_vars(CallbackReturns) /\ WF_vars(RunFunctor)
            /\ WF_vars(Tick)

FairSpec == Spec /\ Fairness

-----------------------------------------------------------------------------
(* Properties *)

\* the two containers hold the same timers, under their expiry, apart from
\* those of the round, and no pointer in any of the three is to a freed timer
QueuesAgree ==
  /\ activeTimers = Of(timers)
  /\ Of(timers) \cup Of(expired) \subseteq alive
  /\ Of(timers) \cap Of(expired) = {}
  /\ \A e \in timers \cup expired : e = Entry(e[2])

\* Between two rounds the timerfd will wake the loop in time for every
\* timer, unless it was last set for one that was already due (handleRead,
\* addTimerInLoop, the early return paths included).
Armed ==
  pc = "idle" /\ timers # {} =>
    /\ reading /\ alarm # Never
    /\ overdue \/ \A e \in timers : alarm <= e[1] \/ alarm <= now + 1

StartsRun(t) == running # t /\ running' = t

\* A callback runs when its timer is due and has not been freed, and that
\* of a one-shot timer runs once, whatever the callbacks of its round do.
RunsAsAsked ==
  [][\A t \in Timers : StartsRun(t) =>
       /\ t \in alive /\ expiration[t] <= now
       /\ t \in fired => interval[t] > 0]_vars

\* A one-shot timer that was canceled after it was added, even in the round
\* that was about to fire it, does not run; nor does a periodic one that was
\* canceled between two rounds.
CancelHonoured ==
  [][\A t \in Timers : StartsRun(t) =>
       /\ canceledAt[t] # "waiting"
       /\ canceledAt[t] = "round" => interval[t] > 0]_vars

\* A timer that is due before the clock stops fires, unless it is canceled,
\* the queue is destroyed, or the timerfd was set for the past.
DueTimersFire ==
  \A t \in Timers :
    t \in Of(timers) /\ expiration[t] < MaxTime ~>
      running = t \/ canceledAt[t] # "no" \/ overdue \/ pc = "gone"
=============================================================================
