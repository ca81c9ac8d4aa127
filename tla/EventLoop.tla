----------------------------- MODULE EventLoop -----------------------------
(* An nwl::EventLoop in a thread of its own (EventLoopThread): the owner   *)
(* starts and destroys it, other threads queue functors and may quit it,   *)
(* and the callbacks it runs do the same from inside.                      *)
(*                                                                         *)
(* Steps of a thread that no other thread can tell apart are one step; the *)
(* push under functorMutex_ and the write to the eventfd are two.          *)
EXTENDS Sequences

CONSTANTS
  Threads,   \* threads that use the loop from outside
  Functors   \* functors, each handed over at most once

VARIABLES
  pc,                      \* where the loop's thread is
  pendingFunctors,         \* guarded by functorMutex_
  functors,                \* the batch doPendingFunctors swapped out
  callingPendingFunctors,
  quit,
  wakeupFd,                \* the eventfd is readable
  active,                  \* channels the last poll returned
  caller,                  \* what each outside thread is in the middle of
  owner,                   \* the thread that owns the EventLoopThread
  loopPtr,                 \* EventLoopThread::loop_ is set
  done                     \* functors in the order in which they were run

vars == <<pc, pendingFunctors, functors, callingPendingFunctors, quit, wakeupFd,
          active, caller, owner, loopPtr, done>>

queueVars == <<pendingFunctors, functors, done>>
pollVars  == <<wakeupFd, active>>
userVars  == <<caller, owner, loopPtr>>

Channels == {"wakeup", "io"}

TypeOK ==
  /\ pc \in {"new", "enter", "check", "poll", "events", "handler", "run", "body",
             "ended", "gone"}
  /\ pendingFunctors \in Seq(Functors) /\ functors \in Seq(Functors)
  /\ done \in Seq(Functors)
  /\ callingPendingFunctors \in BOOLEAN /\ quit \in BOOLEAN /\ wakeupFd \in BOOLEAN
  /\ active \subseteq Channels
  /\ caller \in [Threads -> {"idle", "wakeup"}]
  /\ owner \in {"start", "using", "wakeup", "join", "joined"}
  /\ loopPtr \in BOOLEAN

Init ==
  /\ pc = "new"
  /\ pendingFunctors = <<>> /\ functors = <<>> /\ done = <<>>
  /\ callingPendingFunctors = FALSE /\ quit = FALSE
  /\ wakeupFd = FALSE /\ active = {}
  /\ caller = [t \in Threads |-> "idle"]
  /\ owner = "start" /\ loopPtr = FALSE

InSeq(q) == {q[i] : i \in DOMAIN q}
Fresh == Functors \ (InSeq(pendingFunctors) \cup InSeq(functors) \cup InSeq(done))

-----------------------------------------------------------------------------
(* The loop's thread *)

(* threadFunc has built the loop and publishes it under mutex_.            *)
Publish ==
  /\ pc = "new"
  /\ pc' = "enter"
  /\ loopPtr' = TRUE
  /\ UNCHANGED <<queueVars, callingPendingFunctors, quit, pollVars, caller, owner>>

(* loop() begins by clearing quit_.                                        *)
Enter ==
  /\ pc = "enter"
  /\ quit' = FALSE
  /\ pc' = "check"
  /\ UNCHANGED <<queueVars, callingPendingFunctors, pollVars, userVars>>

Check ==
  /\ pc = "check"
  /\ pc' = IF quit THEN "ended" ELSE "poll"
  /\ UNCHANGED <<queueVars, callingPendingFunctors, quit, pollVars, userVars>>

(* epoll_wait returns the readable channels, or none after kPollTimeMs.    *)
PollReturn(ready) ==
  /\ pc = "poll"
  /\ active' = ready \cup (IF wakeupFd THEN {"wakeup"} ELSE {})
  /\ pc' = "events"
  /\ UNCHANGED <<queueVars, callingPendingFunctors, quit, wakeupFd, userVars>>

(* handleWakeupRead takes the counter down to zero.                        *)
HandleWakeupRead ==
  /\ pc = "events" /\ "wakeup" \in active
  /\ wakeupFd' = FALSE
  /\ active' = active \ {"wakeup"}
  /\ UNCHANGED <<pc, queueVars, callingPendingFunctors, quit, userVars>>

(* The handler of another channel runs user code.                          *)
HandleIo ==
  /\ pc = "events" /\ "io" \in active
  /\ active' = active \ {"io"}
  /\ pc' = "handler"
  /\ UNCHANGED <<queueVars, callingPendingFunctors, quit, wakeupFd, userVars>>

(* doPendingFunctors swaps the queue for an empty one under the lock ...   *)
StillPendingMut == pendingFunctors  \* mutant: a copy instead of a swap
StillPending == <<>>

SwapFunctors ==
  /\ pc = "events" /\ active = {}
  /\ callingPendingFunctors' = TRUE
  /\ functors' = pendingFunctors
  /\ pendingFunctors' = StillPending
  /\ pc' = "run"
  /\ UNCHANGED <<done, quit, pollVars, userVars>>

(* ... and runs it in order, without it.                                   *)
RunFunctor ==
  /\ pc = "run" /\ functors # <<>>
  /\ done' = Append(done, Head(functors))
  /\ functors' = Tail(functors)
  /\ pc' = "body"
  /\ UNCHANGED <<pendingFunctors, callingPendingFunctors, quit, pollVars, userVars>>

EndFunctors ==
  /\ pc = "run" /\ functors = <<>>
  /\ callingPendingFunctors' = FALSE
  /\ pc' = "check"
  /\ UNCHANGED <<queueVars, quit, pollVars, userVars>>

(* After loop(), threadFunc takes mutex_ (the owner's destructor holds it  *)
(* over quit()) and clears loop_.                                          *)
Leave ==
  /\ pc = "ended" /\ owner # "wakeup"
  /\ loopPtr' = FALSE
  /\ pc' = "gone"
  /\ UNCHANGED <<queueVars, callingPendingFunctors, quit, pollVars, caller, owner>>

-----------------------------------------------------------------------------
(* User code in the loop's thread: a channel's handler or a functor        *)

InCallback == pc \in {"handler", "body"}

(* queueInLoop from the loop's own thread wakes it only while it is        *)
(* running the functors it has taken.                                      *)
WakesItselfMut == FALSE  \* mutant: only other threads wake the loop
WakesItself == callingPendingFunctors

QueueFromLoop(f) ==
  /\ InCallback /\ f \in Fresh
  /\ pendingFunctors' = Append(pendingFunctors, f)
  /\ wakeupFd' = (wakeupFd \/ WakesItself)
  /\ UNCHANGED <<pc, functors, done, callingPendingFunctors, quit, active, userVars>>

(* runInLoop from the loop's own thread calls the functor.                 *)
RunInLoop(f) ==
  /\ InCallback /\ f \in Fresh
  /\ done' = Append(done, f)
  /\ UNCHANGED <<pc, pendingFunctors, functors, callingPendingFunctors, quit, pollVars,
                 userVars>>

QuitFromLoop ==
  /\ InCallback
  /\ quit' = TRUE
  /\ UNCHANGED <<pc, queueVars, callingPendingFunctors, pollVars, userVars>>

EndCallback ==
  /\ InCallback
  /\ pc' = IF pc = "handler" THEN "events" ELSE "run"
  /\ UNCHANGED <<queueVars, callingPendingFunctors, quit, pollVars, userVars>>

-----------------------------------------------------------------------------
(* Other threads, which have the loop from startLoop                       *)

(* queueInLoop (and runInLoop): push under functorMutex_, then wakeup().   *)
QueueFromOutside(t, f) ==
  /\ owner = "using" /\ caller[t] = "idle" /\ f \in Fresh
  /\ pendingFunctors' = Append(pendingFunctors, f)
  /\ caller' = [caller EXCEPT ![t] = "wakeup"]
  /\ UNCHANGED <<pc, functors, done, callingPendingFunctors, quit, pollVars, owner, loopPtr>>

QuitFromOutside(t) ==
  /\ owner = "using" /\ caller[t] = "idle"
  /\ quit' = TRUE
  /\ caller' = [caller EXCEPT ![t] = "wakeup"]
  /\ UNCHANGED <<pc, queueVars, callingPendingFunctors, pollVars, owner, loopPtr>>

(* wakeup() makes the eventfd readable.                                    *)
AfterWakeupMut == wakeupFd  \* mutant: the write is forgotten
AfterWakeup == TRUE

Wakeup(t) ==
  /\ caller[t] = "wakeup"
  /\ wakeupFd' = AfterWakeup
  /\ caller' = [caller EXCEPT ![t] = "idle"]
  /\ UNCHANGED <<pc, queueVars, callingPendingFunctors, quit, active, owner, loopPtr>>

-----------------------------------------------------------------------------
(* The owner of the EventLoopThread *)

(* startLoop returns once loop_ is set.                                    *)
StartLoop ==
  /\ owner = "start" /\ loopPtr
  /\ owner' = "using"
  /\ UNCHANGED <<pc, queueVars, callingPendingFunctors, quit, pollVars, caller, loopPtr>>

(* ~EventLoopThread, when nobody else uses the loop any more: under mutex_,*)
(* quit() if loop_ is set ...                                              *)
Destroy ==
  /\ owner = "using" /\ \A t \in Threads : caller[t] = "idle"
  /\ quit' = (quit \/ loopPtr)
  /\ owner' = IF loopPtr THEN "wakeup" ELSE "join"
  /\ UNCHANGED <<pc, queueVars, callingPendingFunctors, pollVars, caller, loopPtr>>

(* ... whose wakeup() ends the locked section; then join.                  *)
OwnerWakeup ==
  /\ owner = "wakeup"
  /\ wakeupFd' = AfterWakeup
  /\ owner' = "join"
  /\ UNCHANGED <<pc, queueVars, callingPendingFunctors, quit, active, caller, loopPtr>>

Join ==
  /\ owner = "join" /\ pc = "gone"
  /\ owner' = "joined"
  /\ UNCHANGED <<pc, queueVars, callingPendingFunctors, quit, pollVars, caller, loopPtr>>

-----------------------------------------------------------------------------
(* Next to what other threads do, the poll returns for the eventfd, for    *)
(* some other channel, or because its ten seconds are over.                *)
LoopStep ==
  \/ Publish \/ Enter \/ Check \/ HandleWakeupRead \/ HandleIo \/ SwapFunctors
  \/ RunFunctor \/ EndFunctors \/ EndCallback \/ Leave
  \/ wakeupFd /\ PollReturn({})
OwnerStep == StartLoop \/ OwnerWakeup \/ Join

Next ==
  \/ LoopStep \/ OwnerStep \/ Destroy
  \/ \E ready \in SUBSET {"io"} : PollReturn(ready)
  \/ QuitFromLoop
  \/ \E f \in Functors : QueueFromLoop(f) \/ RunInLoop(f)
  \/ \E t \in Threads : \/ Wakeup(t) \/ QuitFromOutside(t)
                        \/ \E f \in Functors : QueueFromOutside(t, f)

Spec == Init /\ [][Next]_vars

(* Every thread goes on with what it has begun.  Nothing is owed by the    *)
(* poll timeout or by other channels: wakeups alone have to do.            *)
Fairness == /\ WF_vars(LoopStep)
            /\ WF_vars(OwnerStep)
            /\ \A t \in Threads : WF_vars(Wakeup(t))

FairSpec == Spec /\ Fairness

-----------------------------------------------------------------------------
(* Properties *)

(* The loop never sleeps on work: while it is blocked in epoll_wait with   *)
(* functors queued, or told to quit, the eventfd is readable or the thread *)
(* that queued or quit is about to write it (EventLoop.cpp:95-99).         *)
WakeupComing == \/ wakeupFd \/ owner = "wakeup"
                \/ \E t \in Threads : caller[t] = "wakeup"

NoLostWakeup ==
  pc = "poll" /\ (pendingFunctors # <<>> \/ quit) => WakeupComing

(* A running loop that is told to quit leaves loop() and its thread ends,  *)
(* without waiting for the poll timeout (EventLoop.cpp:75-80).             *)
QuitEnds == (quit /\ pc \notin {"new", "enter"}) ~> pc = "gone"

(* Functors run once each and in the order in which they were queued, over *)
(* threads and batches, and every one runs unless the loop stops.          *)
E == INSTANCE Executor WITH queue <- functors \o pendingFunctors,
                            stopped <- pc \in {"ended", "gone"}
ImplementsExecutor == E!Spec

=============================================================================
