---------------------------- MODULE LoopExecutor ----------------------------
(* What the event loop promises to those who use it, with names of its own *)
(* for what other components have too (the owner, the threads, Init, Next  *)
(* and the like), so that it can stand beside another executor.            *)

CONSTANTS
  LoopThreads,   \* threads that use the loop from outside
  Functors

VARIABLES pc, pendingFunctors, functors, callingPendingFunctors, quit, wakeupFd, active,
          caller, loopOwner, loopPtr, done

Loop == INSTANCE EventLoop WITH Threads <- LoopThreads, owner <- loopOwner

LoopSpec     == Loop!Spec
LoopFairSpec == Loop!FairSpec

(* The loop never sleeps on work: while it is blocked in epoll_wait with   *)
(* functors queued, or told to quit, the eventfd is readable or the thread *)
(* that queued or quit is about to write it (EventLoop.cpp:95-99).         *)
NoLostWakeup == Loop!NoLostWakeup

(* A running loop that is told to quit leaves loop() and its thread ends,  *)
(* without waiting for the poll timeout (EventLoop.cpp:75-80).             *)
QuitEnds == Loop!QuitEnds

(* Functors run once each and in the order in which they were queued, over *)
(* threads and batches, and every one runs unless the loop stops.          *)
LoopIsExecutor == Loop!ImplementsExecutor

=============================================================================
