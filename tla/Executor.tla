------------------------------ MODULE Executor ------------------------------
(* What an event loop promises to those who hand functors to it: each one  *)
(* is run once, in the order in which they were queued, until the loop     *)
(* stops.  A functor that is not queued but run at once overtakes these.   *)
EXTENDS Sequences

CONSTANT Functors

VARIABLES queue,    \* functors queued and not run yet, oldest first
          done,     \* functors in the order in which they were run
          stopped

vars == <<queue, done, stopped>>

InSeq(q) == {q[i] : i \in DOMAIN q}
Fresh == Functors \ (InSeq(queue) \cup InSeq(done))

Init == queue = <<>> /\ done = <<>> /\ stopped = FALSE

Submit(f) == /\ f \in Fresh
             /\ queue' = Append(queue, f)
             /\ UNCHANGED <<done, stopped>>

RunNext == /\ ~stopped /\ queue # <<>>
           /\ done' = Append(done, Head(queue))
           /\ queue' = Tail(queue)
           /\ UNCHANGED stopped

RunNow(f) == /\ ~stopped /\ f \in Fresh
             /\ done' = Append(done, f)
             /\ UNCHANGED <<queue, stopped>>

Stop == /\ ~stopped
        /\ stopped' = TRUE
        /\ UNCHANGED <<queue, done>>

Next == RunNext \/ Stop \/ \E f \in Functors : Submit(f) \/ RunNow(f)

SafeSpec == Init /\ [][Next]_vars
Spec == SafeSpec /\ WF_vars(RunNext)

=============================================================================
