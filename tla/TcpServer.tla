----------------------------- MODULE TcpServer -----------------------------
(* nwl::TcpServer and its TcpConnections: connections are accepted on the  *)
(* base loop and handed round robin to the I/O loops; any thread may send, *)
(* shut down or force-close; everything else happens on the loop that owns *)
(* the connection, as a functor or as the handler of an epoll event.       *)
(*                                                                         *)
(* A loop is used through what EventLoop is shown to promise (Executor):   *)
(* functors run one at a time, in the order in which they were queued.     *)
(* Handlers are single steps: of what other threads write they read only   *)
(* state_, and once.  (connectDestroyed loads and stores it; a shutdown()  *)
(* in between would only queue one more functor for a removed connection.) *)
(* The optional write-complete and high-water callbacks are not set.       *)
EXTENDS Integers, Sequences

CONSTANTS
  Conns,      \* accepted sockets, in the order of acceptance
  BaseLoop,   \* the loop of the acceptor
  Pools,      \* the I/O loops setThreadNum may ask for, <<>> for none
  Threads,    \* user threads outside the loops
  None,
  MaxMsgs,    \* bound on the messages of each user thread and of each loop
  MaxForce    \* bound on the calls of forceClose()

Loops   == {BaseLoop} \cup UNION {{p[i] : i \in DOMAIN p} : p \in Pools}
Senders == Threads \cup Loops

ASSUME ServerAssumption ==
  /\ Pools \subseteq Seq(Loops)
  /\ MaxMsgs \in [Senders -> Nat] /\ MaxForce \in Nat
  /\ Threads \cap Loops = {}
  /\ None \notin Conns /\ None \notin Loops /\ None \notin Senders

VARIABLES
  loops, next,     \* EventLoopThreadPool: loops_ and next_
  connections,     \* connections_, guarded by connMutex_
  loopOf,          \* the loop that owns each connection
  state,           \* state_
  closeRequested,
  events, index,   \* the channel: interest set, and its state in the poller
  outputBuffer,    \* units of data not written yet
  wire,            \* units the kernel has taken, in order
  fin,             \* shutdownWrite has been called
  peer,            \* what the other side has done
  queue,           \* functors queued in each loop and not run yet
  call,            \* what each user thread is in the middle of
  sent,            \* messages each sender has started to send
  force,
  up, down         \* connection callbacks made

poolVars == <<loops, next>>
pollVars == <<events, index>>
dataVars == <<outputBuffer, wire, fin>>
userVars == <<call, sent, force>>
cbVars   == <<up, down>>
vars == <<poolVars, connections, loopOf, state, closeRequested, pollVars, dataVars,
          peer, queue, userVars, cbVars>>

(* A message is written in two units, so that writes can be partial.       *)
Message  == [by : Senders, seq : Nat]
Unit     == [msg : Message, part : {1, 2}]
Frame(m) == <<[msg |-> m, part |-> 1], [msg |-> m, part |-> 2]>>

Ops     == {"established", "send", "shutdown", "forceClose", "destroyed"}
Functor == [op : Ops \ {"send"}, conn : Conns, msg : {None}]
           \cup [op : {"send"}, conn : Conns, msg : Message]
F(op, c) == [op |-> op, conn |-> c, msg |-> None]
Idle    == [op |-> "idle", conn |-> None, msg |-> None]

TypeOK ==
  /\ loops \in Pools /\ next \in Nat /\ (loops # <<>> => next < Len(loops))
  /\ connections \subseteq Conns
  /\ loopOf \in [Conns -> Loops \cup {None}]
  /\ state \in [Conns -> {"none", "kConnecting", "kConnected", "kDisconnecting",
                          "kDisconnected"}]
  /\ closeRequested \in [Conns -> BOOLEAN]
  /\ events \in [Conns -> SUBSET {"read", "write"}]
  /\ index \in [Conns -> {"kNew", "kAdded", "kDeleted"}]
  /\ outputBuffer \in [Conns -> Seq(Unit)]
  /\ wire \in [Conns -> Seq(Unit)]
  /\ fin \in [Conns -> BOOLEAN]
  /\ peer \in [Conns -> {"none", "open", "closed", "reset"}]
  /\ queue \in [Loops -> Seq(Functor)]
  /\ call \in [Threads -> Functor \cup {Idle}]
  /\ sent \in [Senders -> Nat]
  /\ force \in Nat
  /\ up \in [Conns -> Nat] /\ down \in [Conns -> Nat]

Init ==
  /\ loops \in Pools /\ next = 0
  /\ connections = {}
  /\ loopOf = [c \in Conns |-> None]
  /\ state = [c \in Conns |-> "none"]
  /\ closeRequested = [c \in Conns |-> FALSE]
  /\ events = [c \in Conns |-> {}] /\ index = [c \in Conns |-> "kNew"]
  /\ outputBuffer = [c \in Conns |-> <<>>]
  /\ wire = [c \in Conns |-> <<>>] /\ fin = [c \in Conns |-> FALSE]
  /\ peer = [c \in Conns |-> "none"]
  /\ queue = [l \in Loops |-> <<>>]
  /\ call = [t \in Threads |-> Idle]
  /\ sent = [s \in Senders |-> 0] /\ force = 0
  /\ up = [c \in Conns |-> 0] /\ down = [c \in Conns |-> 0]

-----------------------------------------------------------------------------
(* The channel and the poller *)

(* Channel::update: a channel that is not in the poller is added, whatever *)
(* it is interested in; one that loses its last interest is deleted.       *)
UpdateChannel(c, interest) ==
  /\ events' = [events EXCEPT ![c] = interest]
  /\ index' = [index EXCEPT ![c] = IF @ = "kAdded" /\ interest = {}
                                   THEN "kDeleted" ELSE "kAdded"]

RemoveChannelMut(c, interest) ==  \* mutant: the channel is only disabled
  /\ events' = [events EXCEPT ![c] = {}]
  /\ index' = [index EXCEPT ![c] = "kDeleted"]
RemoveChannel(c, interest) ==
  /\ events' = [events EXCEPT ![c] = interest]
  /\ index' = [index EXCEPT ![c] = "kNew"]

(* An event the level-triggered poller reports.                            *)
ReadyMut(c, e) == index[c] = "kAdded" /\ e \in events[c] \ {"write"}  \* mutant: no EPOLLOUT
Ready(c, e) == index[c] = "kAdded" /\ e \in events[c]

IsWriting(c) == "write" \in events[c]

-----------------------------------------------------------------------------
(* Steps of a loop *)

NextIs(l, op)      == queue[l] # <<>> /\ Head(queue[l]).op = op
EnqueueMut(l, q, f) == queue' = [queue EXCEPT ![l] = <<f>> \o q]  \* mutant: in front
Enqueue(l, q, f)   == queue' = [queue EXCEPT ![l] = Append(q, f)]
QueueInLoop(l, f)  == Enqueue(l, queue[l], f)
Dequeue(l)         == queue' = [queue EXCEPT ![l] = Tail(@)]

Established(c) ==
  /\ state' = [state EXCEPT ![c] = "kConnected"]
  /\ UpdateChannel(c, events[c] \cup {"read"})
  /\ up' = [up EXCEPT ![c] = @ + 1]

(* The kernel takes k units of q, or none of them: the send buffer is full *)
(* or the connection has been reset.                                       *)
Taken(c, q) == IF peer[c] = "reset" THEN {0} ELSE 0 .. Len(q)

(* The first message goes to the kernel at once; what does not fit waits   *)
(* for EPOLLOUT, and a message of which nothing fits is dropped.  Behind   *)
(* pending data the message waits too.                                     *)
PendingMut(c) == FALSE  \* mutant: written past what is pending
Pending(c) == outputBuffer[c] # <<>> \/ IsWriting(c)

WaitToWrite(c) == UpdateChannel(c, events[c] \cup {"write"})

SendInLoop(c, m) ==
  \/ /\ state[c] # "kConnected"
     /\ UNCHANGED <<pollVars, outputBuffer, wire>>
  \/ /\ state[c] = "kConnected" /\ ~Pending(c)
     /\ \E k \in Taken(c, Frame(m)) :
          /\ wire' = [wire EXCEPT ![c] = @ \o SubSeq(Frame(m), 1, k)]
          /\ IF k \in 1 .. Len(Frame(m)) - 1
             THEN /\ outputBuffer' = [outputBuffer EXCEPT ![c] = SubSeq(Frame(m), k + 1, Len(Frame(m)))]
                  /\ WaitToWrite(c)
             ELSE UNCHANGED <<outputBuffer, pollVars>>
  \/ /\ state[c] = "kConnected" /\ Pending(c)
     /\ outputBuffer' = [outputBuffer EXCEPT ![c] = @ \o Frame(m)]
     /\ UNCHANGED <<pollVars, wire>>

ShutdownInLoopMut(c) == fin' = [fin EXCEPT ![c] = TRUE]  \* mutant: does not wait
ShutdownInLoop(c) == fin' = [fin EXCEPT ![c] = @ \/ ~IsWriting(c)]

(* handleClose, and TcpServer::removeConnection which it calls.  q is the  *)
(* loop's queue, without the functor that is running.                      *)
ClosableTwice(c) == state[c] \in {"kConnected", "kDisconnecting"}  \* mutant: not idempotent
Closable(c) == state[c] \in {"kConnected", "kDisconnecting"} /\ ~closeRequested[c]

HandleClose(l, c, q) ==
  /\ Closable(c)
  /\ closeRequested' = [closeRequested EXCEPT ![c] = TRUE]
  /\ UpdateChannel(c, {})
  /\ connections' = connections \ {c}
  /\ Enqueue(l, q, F("destroyed", c))

(* The functor a loop runs next.                                           *)
RunEstablished(l) ==
  /\ NextIs(l, "established")
  /\ Established(Head(queue[l]).conn)
  /\ Dequeue(l)
  /\ UNCHANGED <<poolVars, connections, loopOf, closeRequested, dataVars, peer, userVars, down>>

RunSend(l) ==
  /\ NextIs(l, "send")
  /\ SendInLoop(Head(queue[l]).conn, Head(queue[l]).msg)
  /\ Dequeue(l)
  /\ UNCHANGED <<poolVars, connections, loopOf, state, closeRequested, fin, peer, userVars, cbVars>>

RunShutdown(l) ==
  /\ NextIs(l, "shutdown")
  /\ ShutdownInLoop(Head(queue[l]).conn)
  /\ Dequeue(l)
  /\ UNCHANGED <<poolVars, connections, loopOf, state, closeRequested, pollVars, outputBuffer, wire,
                 peer, userVars, cbVars>>

RunForceClose(l) ==
  LET c == Head(queue[l]).conn IN
  /\ NextIs(l, "forceClose")
  /\ \/ HandleClose(l, c, Tail(queue[l]))
     \/ /\ ~Closable(c)
        /\ Dequeue(l)
        /\ UNCHANGED <<closeRequested, pollVars, connections>>
  /\ UNCHANGED <<poolVars, loopOf, state, dataVars, peer, userVars, cbVars>>

(* connectDestroyed: only a connection that is still kConnected is marked  *)
(* and reported.                                                           *)
StillOpen(c) == state[c] = "kConnected"

NotifyDownMut(c) == UNCHANGED down  \* mutant: the callback is not made
NotifyDown(c) == down' = IF StillOpen(c) THEN [down EXCEPT ![c] = @ + 1] ELSE down

RunDestroyed(l) ==
  LET c == Head(queue[l]).conn IN
  /\ NextIs(l, "destroyed")
  /\ state' = IF StillOpen(c) THEN [state EXCEPT ![c] = "kDisconnected"] ELSE state
  /\ NotifyDown(c)
  /\ RemoveChannel(c, IF StillOpen(c) THEN {} ELSE events[c])
  /\ Dequeue(l)
  /\ UNCHANGED <<poolVars, connections, loopOf, closeRequested, dataVars, peer, userVars, up>>

(* EPOLLOUT.  A shutdown() that waited for the buffer is completed.        *)
FinDue(c) == state[c] = "kDisconnecting"

HandleWrite(c) ==
  /\ Ready(c, "write")
  /\ \E k \in Taken(c, outputBuffer[c]) \ {0} :
       LET rest == SubSeq(outputBuffer[c], k + 1, Len(outputBuffer[c])) IN
       /\ wire' = [wire EXCEPT ![c] = @ \o SubSeq(outputBuffer[c], 1, k)]
       /\ outputBuffer' = [outputBuffer EXCEPT ![c] = rest]
       /\ IF rest = <<>>
          THEN /\ UpdateChannel(c, events[c] \ {"write"})
               /\ fin' = [fin EXCEPT ![c] = @ \/ FinDue(c)]
          ELSE UNCHANGED <<pollVars, fin>>
  /\ UNCHANGED <<poolVars, connections, loopOf, state, closeRequested, peer, queue, userVars, cbVars>>

(* EPOLLIN at the end of the stream *)
HandleEof(c) ==
  /\ Ready(c, "read") /\ peer[c] \in {"closed", "reset"}
  /\ HandleClose(loopOf[c], c, queue[loopOf[c]])
  /\ UNCHANGED <<poolVars, loopOf, state, dataVars, peer, userVars, cbVars>>

(* EPOLLIN with data: the message callback may send to, shut down or       *)
(* force-close a connection of its own loop.                               *)
NextMessage(s) == [by |-> s, seq |-> sent[s] + 1]

MessageSends(c, d) ==
  LET l == loopOf[c] IN
  /\ Ready(c, "read") /\ peer[c] = "open"
  /\ loopOf[d] = l /\ up[d] > 0 /\ sent[l] < MaxMsgs[l]
  /\ SendInLoop(d, NextMessage(l))
  /\ sent' = [sent EXCEPT ![l] = @ + 1]
  /\ UNCHANGED <<poolVars, connections, loopOf, state, closeRequested, fin, peer, queue, call, force,
                 cbVars>>

MessageShutsDown(c, d) ==
  /\ Ready(c, "read") /\ peer[c] = "open"
  /\ loopOf[d] = loopOf[c] /\ state[d] = "kConnected"
  /\ state' = [state EXCEPT ![d] = "kDisconnecting"]
  /\ ShutdownInLoop(d)
  /\ UNCHANGED <<poolVars, connections, loopOf, closeRequested, pollVars, outputBuffer, wire, peer,
                 queue, userVars, cbVars>>

MessageForceCloses(c, d) ==
  /\ Ready(c, "read") /\ peer[c] = "open"
  /\ loopOf[d] = loopOf[c] /\ state[d] \in {"kConnected", "kDisconnecting"}
  /\ state' = [state EXCEPT ![d] = "kDisconnecting"]
  /\ \/ HandleClose(loopOf[d], d, queue[loopOf[d]])
     \/ /\ ~Closable(d)
        /\ UNCHANGED <<closeRequested, pollVars, connections, queue>>
  /\ UNCHANGED <<poolVars, loopOf, dataVars, peer, userVars, cbVars>>

-----------------------------------------------------------------------------
(* The acceptor, on the base loop *)

Chosen == IF loops = <<>> THEN BaseLoop ELSE loops[next + 1]

NextLoop == IF loops = <<>> THEN next ELSE (next + 1) % Len(loops)

(* handleNewConnection.  runInLoop establishes the connection at once when *)
(* the base loop keeps it.                                                 *)
HandleNewConnection(c) ==
  /\ state[c] = "none"
  /\ next' = NextLoop
  /\ connections' = connections \cup {c}
  /\ loopOf' = [loopOf EXCEPT ![c] = Chosen]
  /\ peer' = [peer EXCEPT ![c] = "open"]
  /\ IF Chosen = BaseLoop
     THEN Established(c) /\ UNCHANGED queue
     ELSE /\ state' = [state EXCEPT ![c] = "kConnecting"]
          /\ QueueInLoop(Chosen, F("established", c))
          /\ UNCHANGED <<pollVars, up>>
  /\ UNCHANGED <<loops, closeRequested, dataVars, userVars, down>>

-----------------------------------------------------------------------------
(* User threads hold the connections they were told of in the callback     *)

Holds(t, c) == call[t] = Idle /\ up[c] > 0

Send(t, c) ==
  /\ Holds(t, c) /\ state[c] = "kConnected" /\ sent[t] < MaxMsgs[t]
  /\ call' = [call EXCEPT ![t] = [op |-> "send", conn |-> c, msg |-> NextMessage(t)]]
  /\ sent' = [sent EXCEPT ![t] = @ + 1]
  /\ UNCHANGED <<poolVars, connections, loopOf, state, closeRequested, pollVars, dataVars, peer, queue,
                 force, cbVars>>

Shutdown(t, c) ==
  /\ Holds(t, c) /\ state[c] = "kConnected"
  /\ state' = [state EXCEPT ![c] = "kDisconnecting"]
  /\ call' = [call EXCEPT ![t] = F("shutdown", c)]
  /\ UNCHANGED <<poolVars, connections, loopOf, closeRequested, pollVars, dataVars, peer, queue, sent,
                 force, cbVars>>

ForceClose(t, c) ==
  /\ Holds(t, c) /\ force < MaxForce
  /\ force' = force + 1
  /\ state' = [state EXCEPT ![c] = IF @ = "kConnected" THEN "kDisconnecting" ELSE @]
  /\ call' = [call EXCEPT ![t] = F("forceClose", c)]
  /\ UNCHANGED <<poolVars, connections, loopOf, closeRequested, pollVars, dataVars, peer, queue, sent,
                 cbVars>>

(* ... and, not being the connection's loop, they end in queueInLoop.      *)
Queued(t) ==
  /\ call[t] # Idle
  /\ QueueInLoop(loopOf[call[t].conn], call[t])
  /\ call' = [call EXCEPT ![t] = Idle]
  /\ UNCHANGED <<poolVars, connections, loopOf, state, closeRequested, pollVars, dataVars, peer, sent,
                 force, cbVars>>

-----------------------------------------------------------------------------
(* The other side ends its stream, or resets the connection.               *)
PeerEnds(c, how) ==
  /\ peer[c] = "open"
  /\ peer' = [peer EXCEPT ![c] = how]
  /\ UNCHANGED <<poolVars, connections, loopOf, state, closeRequested, pollVars, dataVars, queue,
                 userVars, cbVars>>

-----------------------------------------------------------------------------
RunFunctor(l) == RunEstablished(l) \/ RunSend(l) \/ RunShutdown(l) \/ RunForceClose(l)
                 \/ RunDestroyed(l)

Next ==
  \/ \E l \in Loops : RunFunctor(l)
  \/ \E c \in Conns : HandleNewConnection(c) \/ HandleWrite(c) \/ HandleEof(c)
  \/ \E c, d \in Conns : MessageSends(c, d) \/ MessageShutsDown(c, d) \/ MessageForceCloses(c, d)
  \/ \E t \in Threads : Queued(t)
  \/ \E t \in Threads, c \in Conns : Send(t, c) \/ Shutdown(t, c) \/ ForceClose(t, c)
  \/ \E c \in Conns, how \in {"closed", "reset"} : PeerEnds(c, how)

Spec == Init /\ [][Next]_vars

(* Loops keep running their functors and reporting what stays ready, and a *)
(* call that has begun ends.  Nobody has to send, close or accept.         *)
Fairness == /\ \A l \in Loops : WF_vars(RunFunctor(l))
            /\ \A c \in Conns : WF_vars(HandleWrite(c)) /\ WF_vars(HandleEof(c))
            /\ \A t \in Threads : WF_vars(Queued(t))

FairSpec == Spec /\ Fairness

-----------------------------------------------------------------------------
(* Properties *)

(* The units of a stream come in whole messages, none inside another.      *)
Framed(s) ==
  \A i \in DOMAIN s :
    IF s[i].part = 1 THEN i + 1 \in DOMAIN s /\ s[i + 1] = [s[i] EXCEPT !.part = 2]
                     ELSE i > 1 /\ s[i - 1] = [s[i] EXCEPT !.part = 1]

(* What the peer has been sent, together with what is still buffered, is a *)
(* sequence of whole messages: direct writes, partial writes and buffered  *)
(* writes never cut a frame or overtake the rest of one                    *)
(* (TcpConnection.cpp:60-91, 146-174).                                     *)
FramesIntact == \A c \in Conns : Framed(wire[c] \o outputBuffer[c])

(* A sender's messages to a connection are written in the order in which   *)
(* it sent them, and none is written twice.                                *)
SenderOrder ==
  \A c \in Conns :
    LET s == wire[c] \o outputBuffer[c] IN
    \A i, j \in DOMAIN s :
      i < j /\ s[i].msg.by = s[j].msg.by /\ s[i].part = s[j].part
      => s[i].msg.seq < s[j].msg.seq

(* The write side is shut only when nothing is left to write, unless the   *)
(* connection is being torn down (TcpConnection.hpp:44).                   *)
FinAfterDrain == \A c \in Conns : fin[c] /\ ~closeRequested[c] => outputBuffer[c] = <<>>

Pointers(c) == {l \in Loops : \E i \in DOMAIN queue[l] : queue[l][i].conn = c}

(* While the poller holds a channel, the connection that owns it is kept   *)
(* alive by the table or by a functor that will remove the channel, on the *)
(* loop that owns it (TcpConnection.hpp:4).                                *)
ChannelOwned ==
  \A c \in Conns : index[c] # "kNew" => c \in connections \/ loopOf[c] \in Pointers(c)

(* However a connection ends - FIN, reset, forceClose, several of them at  *)
(* once - it is destroyed once, out of the table and with its channel      *)
(* still in the poller (TcpConnection.cpp:181, EpollPoller.cpp:98).        *)
DestroyedOnce ==
  \A l \in Loops : \A i \in DOMAIN queue[l] :
    queue[l][i].op = "destroyed" =>
      LET c == queue[l][i].conn IN
      /\ c \notin connections /\ index[c] # "kNew" /\ loopOf[c] = l
      /\ \A j \in DOMAIN queue[l] \ {i} :
           queue[l][j].op = "destroyed" => queue[l][j].conn # c

(* Buffered data is written in the end, and a shutdown() reaches the       *)
(* socket after it, or the connection is torn down.                        *)
Drained == \A c \in Conns :
  /\ outputBuffer[c] # <<>> ~> outputBuffer[c] = <<>> \/ closeRequested[c]
  /\ state[c] = "kDisconnecting" ~> fin[c] \/ closeRequested[c]

(* A connection whose peer is gone leaves the table and the poller, and    *)
(* unless the server itself was closing it, the user is told               *)
(* (TcpConnection.cpp:188).                                                *)
Reclaimed == \A c \in Conns :
  /\ peer[c] \in {"closed", "reset"} ~> c \notin connections /\ index[c] = "kNew"
  /\ peer[c] \in {"closed", "reset"} ~> down[c] = 1 \/ state[c] = "kDisconnecting"
=============================================================================
