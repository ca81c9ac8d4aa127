---------------------------- MODULE AsyncLogging ----------------------------
(* wangt::AsyncLogging behind wangt::Logger: the loggers append lines to   *)
(* a buffer under mutex_, a full buffer is handed over to buffers_, and a  *)
(* thread writes what is there to the log file every few seconds.  flush() *)
(* does the same in the calling thread; Logger calls it after every line   *)
(* when it is installed with setFlush, and the destructor calls it last.   *)
(*                                                                         *)
(* Lines are numbered in the order in which append() gets the lock.        *)
EXTENDS Integers, Sequences, SequencesExt

CONSTANTS
  Loggers,     \* threads that log
  Nobody, Destructor,  \* who else may hold mutex_
  BufMaxLen,   \* what a buffer holds, in units of length
  Sizes,       \* the lengths of lines, none of them zero
  MaxBatch,    \* 25 in the code
  Kept,        \* 2 in the code
  MaxLines     \* bound: lines that are logged

ASSUME LogAssumption ==
  /\ Nobody \notin Loggers /\ Destructor \notin Loggers /\ Nobody # Destructor
  /\ BufMaxLen \in Nat \ {0} /\ Sizes \subseteq Nat \ {0}
  /\ Kept \in Nat /\ MaxBatch \in Nat /\ Kept <= MaxBatch /\ MaxLines \in Nat

VARIABLES
  flushes,    \* setFlush has installed flush()
  currentBuffer, used, reserved,  \* its lines, their length; its capacity is BufMaxLen
  buffers,    \* buffers_
  running,    \* running_
  worker,     \* where workthreadfunc is
  batch,      \* its buffersToWrite
  mutex,      \* who is inside flush() and holds mutex_
  flushBatch, \* the buffersToWrite of that call
  calls,      \* what each logger is in the middle of
  owner,      \* the thread that starts, stops and destroys the object
  file,       \* the lines handed to the log file
  next,       \* the number of the next line
  dropped     \* history: lines that were thrown away

bufferVars == <<currentBuffer, used, reserved, buffers>>
workerVars == <<worker, batch>>
flushVars  == <<mutex, flushBatch>>
vars == <<flushes, bufferVars, running, workerVars, flushVars, calls, owner, file,
          next, dropped>>

Lines == 1..MaxLines

Init ==
  /\ flushes \in BOOLEAN
  /\ currentBuffer = <<>> /\ used = 0 /\ reserved = TRUE
  /\ buffers = <<>> /\ batch = <<>> /\ flushBatch = <<>>
  /\ running = FALSE /\ worker = "none" /\ mutex = Nobody
  /\ calls = [t \in Loggers |-> "idle"]
  /\ owner = "new"
  /\ file = <<>> /\ next = 1 /\ dropped = {}

LinesOf(bufs) == ToSet(FlattenSeq(bufs))

-----------------------------------------------------------------------------
(* append *)

Fits(size) == reserved /\ used < BufMaxLen /\ size <= BufMaxLen - used

\* The line that does not fit only hands the buffer over: it is not kept.
AppendLine(size) ==
  IF Fits(size)
  THEN /\ currentBuffer' = Append(currentBuffer, next)
       /\ used' = used + size
       /\ UNCHANGED <<reserved, buffers, dropped>>
  ELSE /\ buffers' = Append(buffers, currentBuffer)
       /\ currentBuffer' = <<>> /\ used' = 0 /\ reserved' = TRUE
       /\ dropped' = dropped \cup {next}

(* ~Logger hands its line to output_ and calls flush_.                     *)
Log(t, size) ==
  /\ owner # "gone" /\ mutex = Nobody
  /\ calls[t] = "idle" /\ next <= MaxLines
  /\ AppendLine(size)
  /\ next' = next + 1
  /\ calls' = [calls EXCEPT ![t] = IF flushes THEN "flush" ELSE "idle"]
  /\ UNCHANGED <<flushes, running, workerVars, flushVars, owner, file>>

-----------------------------------------------------------------------------
(* The file has no lock of its own (threadSafe is false): what a thread    *)
(* writes while another one writes may not arrive.                         *)

WriterBusy == worker = "write" /\ batch # <<>>
FlusherBusy == mutex # Nobody /\ flushBatch # <<>>

WriteTo(buffer, otherBusy) ==
  \/ file' = file \o buffer /\ UNCHANGED dropped
  \/ otherBusy /\ buffer # <<>> /\ UNCHANGED file /\ dropped' = dropped \cup ToSet(buffer)

-----------------------------------------------------------------------------
(* The writing thread *)

Start ==
  /\ owner = "new"
  /\ owner' = "using" /\ running' = TRUE /\ worker' = "check"
  /\ UNCHANGED <<flushes, bufferVars, batch, flushVars, calls, file, next, dropped>>

CheckRunning ==
  /\ worker = "check"
  /\ worker' = IF running THEN "lock" ELSE "ended"
  /\ UNCHANGED <<flushes, bufferVars, running, batch, flushVars, calls, owner, file,
                 next, dropped>>

\* mutant: the current buffer is pushed in front of the full ones
TakenSwapped == <<currentBuffer>> \o buffers
Taken == Append(buffers, currentBuffer)

LeftMut == buffers  \* mutant: a copy instead of a swap
Left == <<>>

\* beyond MaxBatch buffers only the first ones are kept
Trim(bufs) == IF Len(bufs) > MaxBatch THEN SubSeq(bufs, 1, Kept) ELSE bufs
Cut(bufs)  == IF Len(bufs) > MaxBatch THEN SubSeq(bufs, Kept + 1, Len(bufs)) ELSE <<>>

TakeBuffers ==
  /\ batch' = Trim(Taken)
  /\ dropped' = dropped \cup LinesOf(Cut(Taken))
  /\ buffers' = Left
  /\ currentBuffer' = <<>> /\ used' = 0 /\ reserved' = TRUE
  /\ worker' = "write"

WaitOrTake ==
  /\ worker = "lock" /\ mutex = Nobody
  /\ IF buffers = <<>>
     THEN worker' = "wait" /\ UNCHANGED <<bufferVars, batch, dropped>>
     ELSE TakeBuffers
  /\ UNCHANGED <<flushes, running, flushVars, calls, owner, file, next>>

\* mutants: no time limit; not notified by stop() either
WokenFull == ~running \/ buffers # <<>>
Woken == TRUE

(* wait_for has returned: notified, or after flushInterval_.               *)
WakeUp ==
  /\ worker = "wait" /\ mutex = Nobody /\ Woken
  /\ TakeBuffers
  /\ UNCHANGED <<flushes, running, flushVars, calls, owner, file, next>>

WriteBuffer ==
  /\ worker = "write" /\ batch # <<>>
  /\ WriteTo(Head(batch), FlusherBusy)
  /\ batch' = Tail(batch)
  /\ UNCHANGED <<flushes, bufferVars, running, worker, flushVars, calls, owner, next>>

BatchWritten ==
  /\ worker = "write" /\ batch = <<>>
  /\ worker' = "check"
  /\ UNCHANGED <<flushes, bufferVars, running, batch, flushVars, calls, owner, file,
                 next, dropped>>

-----------------------------------------------------------------------------
(* flush, with mutex_ held until the last buffer is written *)

\* The string moved from has lost its capacity.
FlushLocks(t) ==
  /\ mutex = Nobody
  /\ mutex' = t
  /\ flushBatch' = Append(buffers, currentBuffer)
  /\ buffers' = <<>>
  /\ currentBuffer' = <<>> /\ used' = 0 /\ reserved' = FALSE

Flush(t) ==
  /\ calls[t] = "flush"
  /\ FlushLocks(t)
  /\ UNCHANGED <<flushes, running, workerVars, calls, owner, file, next, dropped>>

FlushBuffer ==
  /\ mutex # Nobody /\ flushBatch # <<>>
  /\ WriteTo(Head(flushBatch), WriterBusy)
  /\ flushBatch' = Tail(flushBatch)
  /\ UNCHANGED <<flushes, bufferVars, running, workerVars, mutex, calls, owner, next>>

FlushReturns(t) ==
  /\ mutex = t /\ flushBatch = <<>>
  /\ mutex' = Nobody
  /\ calls' = [calls EXCEPT ![t] = "idle"]
  /\ UNCHANGED <<flushes, bufferVars, running, workerVars, flushBatch, owner, file,
                 next, dropped>>

-----------------------------------------------------------------------------
(* stop and the destructor, in the owner's thread *)

Stop ==
  /\ owner = "using"
  /\ owner' = "join" /\ running' = FALSE
  /\ UNCHANGED <<flushes, bufferVars, workerVars, flushVars, calls, file, next, dropped>>

Join ==
  /\ owner = "join" /\ worker = "ended"
  /\ owner' = "stopped"
  /\ UNCHANGED <<flushes, bufferVars, running, workerVars, flushVars, calls, file,
                 next, dropped>>

\* Nobody logs any more; the destructor has called stop() if it had to.
Destroy ==
  /\ owner \in {"new", "stopped"}
  /\ \A t \in Loggers : calls[t] = "idle"
  /\ owner' = "gone"
  /\ FlushLocks(Destructor)
  /\ UNCHANGED <<flushes, running, workerVars, calls, file, next, dropped>>

Destroyed ==
  /\ mutex = Destructor /\ flushBatch = <<>>
  /\ mutex' = Nobody
  /\ UNCHANGED <<flushes, bufferVars, running, workerVars, flushBatch, calls, owner,
                 file, next, dropped>>

Worker == CheckRunning \/ WaitOrTake \/ WakeUp \/ WriteBuffer \/ BatchWritten
Flushing == FlushBuffer \/ Destroyed \/ \E t \in Loggers : Flush(t) \/ FlushReturns(t)

Next ==
  \/ \E t \in Loggers, size \in Sizes : Log(t, size)
  \/ Worker \/ Flushing
  \/ Start \/ Stop \/ Join \/ Destroy

Spec == Init /\ [][Next]_vars

\* The writing thread and the callers of flush() and stop() keep running;
\* wait_for returns when its time is over.
Fairness == WF_vars(Worker) /\ WF_vars(Flushing) /\ WF_vars(Join)

FairSpec == Spec /\ Fairness

-----------------------------------------------------------------------------
(* Properties *)

\* the lines on their way, oldest first
OnTheWay == FlattenSeq(flushBatch) \o FlattenSeq(batch) \o FlattenSeq(buffers) \o currentBuffer

\* Every line that append() was given is in one place, once: in a buffer, in
\* the batch of the writer or of flush(), in the file, or thrown away; and
\* none is left in a buffer when the object is gone, whatever stop() interrupts.
LinesAccounted ==
  LET all == file \o OnTheWay IN
  /\ IsInjective(all)
  /\ ToSet(all) \cap dropped = {}
  /\ ToSet(all) \cup dropped = 1..(next - 1)
  /\ owner = "gone" /\ mutex = Nobody => OnTheWay = <<>>

\* Without flush() after every line the file has the lines in the order in
\* which they were logged, through hand-overs, batches and the destructor.
WrittenInOrder ==
  ~flushes => \A i, j \in DOMAIN file : i < j => file[i] < file[j]

\* Every line that is buffered is written or thrown away, at the latest when
\* the interval is over, unless the thread is stopped; and stop() returns:
\* its notification may be lost, the time limit of the wait is not.
BufferedIsWritten ==
  /\ \A n \in Lines : (running /\ n \in ToSet(OnTheWay)) ~>
                      (n \in ToSet(file) \cup dropped \/ ~running)
  /\ owner = "join" ~> owner = "stopped"
=============================================================================
