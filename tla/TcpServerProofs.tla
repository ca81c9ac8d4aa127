-------------------------- MODULE TcpServerProofs --------------------------
(* Proofs about TcpServer for every number of connections, loops, threads  *)
(* and messages.                                                           *)
EXTENDS TcpServer, SequenceTheorems, TLAPS

(* Functors about a connection are queued in the loop that owns it.        *)
Has(q, op, c) == \E i \in DOMAIN q : q[i].op = op /\ q[i].conn = c
AtMostOne(q, op, c) ==
  \A i, j \in DOMAIN q :
    (q[i].op = op /\ q[i].conn = c) /\ (q[j].op = op /\ q[j].conn = c) => i = j

PlaceInv ==
  /\ \A c \in Conns : state[c] = "none" <=> loopOf[c] = None
  /\ \A l \in Loops, op \in Ops, c \in Conns : Has(queue[l], op, c) => loopOf[c] = l
  /\ \A t \in Threads : call[t] # Idle =>
       call[t].op \in {"send", "shutdown", "forceClose"} /\ loopOf[call[t].conn] # None

(* The life of a connection: established by one functor at most, in the    *)
(* table until its close is requested, then in the one functor that        *)
(* removes its channel.                                                    *)
Starting(c) ==
  /\ state[c] \in {"none", "kConnecting"} =>
       index[c] = "kNew" /\ ~closeRequested[c] /\ ~fin[c] /\ up[c] = 0
  /\ state[c] = "none" => c \notin connections
  /\ \A l \in Loops : /\ Has(queue[l], "established", c) => state[c] = "kConnecting"
                      /\ AtMostOne(queue[l], "established", c)

Closing(c) ==
  /\ state[c] # "none" /\ ~closeRequested[c] => c \in connections
  /\ closeRequested[c] => /\ c \notin connections
                          /\ index[c] # "kNew" => Has(queue[loopOf[c]], "destroyed", c)
                          /\ index[c] = "kNew" => state[c] # "kConnected"
  /\ \A l \in Loops : /\ Has(queue[l], "destroyed", c) => closeRequested[c] /\ index[c] # "kNew"
                      /\ AtMostOne(queue[l], "destroyed", c)

LifeInv == \A c \in Conns : Starting(c) /\ Closing(c)

(* Buffered data is waiting for EPOLLOUT, and once a shutdown is on its    *)
(* way nothing more is buffered.                                           *)
Ending(c) == state[c] \in {"kDisconnecting", "kDisconnected"}
DrainInv ==
  /\ \A c \in Conns : /\ outputBuffer[c] # <<>> /\ ~closeRequested[c] => IsWriting(c)
                      /\ fin[c] => Ending(c)
  /\ \A l \in Loops, c \in Conns : Has(queue[l], "shutdown", c) => Ending(c)
  /\ \A t \in Threads : call[t].op = "shutdown" => Ending(call[t].conn)

ServerInv == TypeOK /\ PlaceInv /\ LifeInv /\ DrainInv /\ FinAfterDrain /\ FramesIntact

-----------------------------------------------------------------------------
(* What a step does to the functors of a queue.                            *)
LEMMA Enqueued ==
  ASSUME NEW q \in Seq(Functor), NEW f \in Functor
  PROVE  /\ Append(q, f) \in Seq(Functor)
         /\ \A op, c : Has(Append(q, f), op, c) <=>
                      Has(q, op, c) \/ (f.op = op /\ f.conn = c)
         /\ \A op, c : AtMostOne(q, op, c) /\ (f.op = op /\ f.conn = c => ~Has(q, op, c))
                      => AtMostOne(Append(q, f), op, c)
<1>1. /\ Append(q, f) \in Seq(Functor)
      /\ Len(q) \in Nat /\ DOMAIN q = 1 .. Len(q)
      /\ DOMAIN Append(q, f) = 1 .. Len(q) + 1
      /\ \A i \in DOMAIN q : Append(q, f)[i] = q[i]
      /\ Append(q, f)[Len(q) + 1] = f
  BY AppendProperties, LenProperties
<1>2. DOMAIN Append(q, f) = DOMAIN q \cup {Len(q) + 1} /\ Len(q) + 1 \notin DOMAIN q
  BY <1>1
<1> QED
  BY <1>1, <1>2 DEF Has, AtMostOne

LEMMA Dequeued ==
  ASSUME NEW q \in Seq(Functor), q # <<>>
  PROVE  /\ Head(q) \in Functor /\ Tail(q) \in Seq(Functor)
         /\ \A op, c : Has(q, op, c) <=>
                      Has(Tail(q), op, c) \/ (Head(q).op = op /\ Head(q).conn = c)
         /\ \A op, c : AtMostOne(q, op, c) =>
              /\ AtMostOne(Tail(q), op, c)
              /\ Head(q).op = op /\ Head(q).conn = c => ~Has(Tail(q), op, c)
<1>1. /\ Head(q) \in Functor /\ Tail(q) \in Seq(Functor)
      /\ Len(q) \in Nat \ {0} /\ DOMAIN q = 1 .. Len(q) /\ Head(q) = q[1]
      /\ DOMAIN Tail(q) = 1 .. Len(q) - 1
      /\ \A i \in DOMAIN Tail(q) : Tail(q)[i] = q[i + 1]
  BY HeadTailProperties, LenProperties, EmptySeq
<1>2. \A i \in DOMAIN q : i = 1 \/ (i - 1 \in DOMAIN Tail(q) /\ q[i] = Tail(q)[i - 1])
  BY <1>1
<1>3. /\ \A i \in DOMAIN Tail(q) : i + 1 \in DOMAIN q /\ i + 1 # 1 /\ Tail(q)[i] = q[i + 1]
      /\ 1 \in DOMAIN q /\ Head(q) = q[1]
  BY <1>1
<1>4. \A i, j \in DOMAIN Tail(q) : i + 1 = j + 1 => i = j
  BY <1>1
<1>5. \A op, c : Has(q, op, c) <=> Has(Tail(q), op, c) \/ (Head(q).op = op /\ Head(q).conn = c)
  BY <1>2, <1>3 DEF Has
<1>6. \A op, c : AtMostOne(q, op, c) => AtMostOne(Tail(q), op, c)
  BY <1>3, <1>4 DEF AtMostOne
<1>7. \A op, c : AtMostOne(q, op, c) /\ Head(q).op = op /\ Head(q).conn = c => ~Has(Tail(q), op, c)
  BY <1>3 DEF AtMostOne, Has
<1> QED
  BY <1>1, <1>5, <1>6, <1>7

-----------------------------------------------------------------------------
(* Type correctness, operator by operator *)
LEMMA TypeInit == Init => TypeOK
  BY ServerAssumption, EmptySeq DEF Init, TypeOK, Loops, Senders

LEMMA UpdateType ==
  ASSUME TypeOK, NEW c \in Conns, NEW interest \in SUBSET {"read", "write"},
         UpdateChannel(c, interest)
  PROVE  /\ events' \in [Conns -> SUBSET {"read", "write"}]
         /\ index' \in [Conns -> {"kNew", "kAdded", "kDeleted"}]
  BY DEF UpdateChannel, TypeOK

LEMMA FrameType ==
  ASSUME NEW m \in Message
  PROVE  /\ Frame(m) \in Seq(Unit) /\ Len(Frame(m)) = 2 /\ DOMAIN Frame(m) = {1, 2}
         /\ Frame(m)[1] = [msg |-> m, part |-> 1] /\ Frame(m)[2] = [msg |-> m, part |-> 2]
  BY DEF Frame, Unit

LEMMA ConcatUnits ==
  \A q, r, s \in Seq(Unit) : (q \o r) \o s = q \o (r \o s)
  BY ConcatAssociative

LEMMA ConcatType ==
  /\ \A q, r \in Seq(Unit) : q \o r \in Seq(Unit)
  /\ \A q \in Seq(Unit) : q \o <<>> = q /\ <<>> \o q = q
  BY ConcatProperties, ConcatEmptySeq

LEMMA SubSeqType ==
  ASSUME NEW S, NEW q \in Seq(S), NEW k \in 0 .. Len(q)
  PROVE  /\ SubSeq(q, 1, k) \in Seq(S) /\ SubSeq(q, k + 1, Len(q)) \in Seq(S)
         /\ SubSeq(q, 1, k) \o SubSeq(q, k + 1, Len(q)) = q
         /\ k = 0 => SubSeq(q, 1, k) = <<>>
         /\ k = Len(q) => SubSeq(q, 1, k) = q
<1>1. Len(q) \in Nat
  BY LenProperties
<1>2. SubSeq(q, 1, k) \in Seq(S) /\ SubSeq(q, k + 1, Len(q)) \in Seq(S)
  BY <1>1, SubSeqProperties
<1>3. k = 0 => SubSeq(q, 1, k) = <<>>
  BY <1>1, SubSeqEmpty
<1>4. SubSeq(q, 1, Len(q)) = q
  BY SubSeqFull
<1>5. SubSeq(q, 1, k) \o SubSeq(q, k + 1, Len(q)) = q
  <2>1. 1 \in 1 .. Len(q) + 1 /\ k \in 1 - 1 .. Len(q) /\ Len(q) \in k .. Len(q)
    BY <1>1
  <2>2. SubSeq(q, 1, k) \o SubSeq(q, k + 1, Len(q)) = SubSeq(q, 1, Len(q))
    BY <2>1, ConcatAdjacentSubSeq
  <2> QED
    BY <2>2, <1>4
<1> QED
  BY <1>2, <1>3, <1>4, <1>5

(* What sending does: the stream of the connection grows by one frame or   *)
(* not at all, and what it buffers is waiting for EPOLLOUT.                *)
Stream(c) == wire[c] \o outputBuffer[c]

SendEffect(c, m) ==
  /\ events' \in [Conns -> SUBSET {"read", "write"}]
  /\ index' \in [Conns -> {"kNew", "kAdded", "kDeleted"}]
  /\ outputBuffer' \in [Conns -> Seq(Unit)] /\ wire' \in [Conns -> Seq(Unit)]
  /\ \A d \in Conns \ {c} : /\ events'[d] = events[d] /\ index'[d] = index[d]
                             /\ outputBuffer'[d] = outputBuffer[d] /\ wire'[d] = wire[d]
  /\ index'[c] = index[c] \/ (state[c] = "kConnected" /\ index'[c] = "kAdded")
  /\ outputBuffer'[c] = outputBuffer[c] \/ state[c] = "kConnected"
  /\ (outputBuffer[c] = <<>> \/ IsWriting(c)) =>
       (outputBuffer'[c] = <<>> \/ "write" \in events'[c])
  /\ Stream(c)' \in {Stream(c), Stream(c) \o Frame(m)}

LEMMA Direct ==
  ASSUME TypeOK, NEW c \in Conns, NEW m \in Message,
         state[c] = "kConnected", ~Pending(c),
         NEW k \in Taken(c, Frame(m)),
         wire' = [wire EXCEPT ![c] = @ \o SubSeq(Frame(m), 1, k)],
         IF k \in 1 .. Len(Frame(m)) - 1
         THEN /\ outputBuffer' = [outputBuffer EXCEPT ![c] = SubSeq(Frame(m), k + 1, Len(Frame(m)))]
              /\ WaitToWrite(c)
         ELSE UNCHANGED <<outputBuffer, pollVars>>
  PROVE  SendEffect(c, m)
<1> DEFINE out == SubSeq(Frame(m), 1, k)
           rest == SubSeq(Frame(m), k + 1, Len(Frame(m)))
<1>1. Frame(m) \in Seq(Unit) /\ Len(Frame(m)) = 2 /\ k \in 0 .. Len(Frame(m)) /\ k \in {0, 1, 2}
  <2>1. Frame(m) \in Seq(Unit) /\ Len(Frame(m)) = 2
    BY FrameType
  <2>2. k \in 0 .. 2
    BY <2>1 DEF Taken
  <2> QED
    BY <2>1, <2>2
<1>2. /\ out \in Seq(Unit) /\ rest \in Seq(Unit) /\ out \o rest = Frame(m)
      /\ k = 0 => out = <<>>
      /\ k = 2 => out = Frame(m)
  BY <1>1, SubSeqType
<1>3. /\ wire[c] \in Seq(Unit) /\ wire \in [Conns -> Seq(Unit)]
      /\ outputBuffer[c] = <<>> /\ outputBuffer \in [Conns -> Seq(Unit)] /\ ~IsWriting(c)
      /\ events \in [Conns -> SUBSET {"read", "write"}] /\ events[c] \subseteq {"read", "write"}
      /\ index \in [Conns -> {"kNew", "kAdded", "kDeleted"}]
  BY DEF TypeOK, Pending
<1>4. wire[c] \o out \in Seq(Unit) /\ Stream(c) = wire[c]
      /\ wire[c] \o <<>> = wire[c] /\ (wire[c] \o out) \o rest = wire[c] \o Frame(m)
      /\ (wire[c] \o out) \o <<>> = wire[c] \o out
  <2> HIDE DEF out, rest
  <2>1. wire[c] \o out \in Seq(Unit) /\ wire[c] \o <<>> = wire[c]
        /\ (wire[c] \o out) \o <<>> = wire[c] \o out
    BY <1>2, <1>3, ConcatType
  <2>2. (wire[c] \o out) \o rest = wire[c] \o (out \o rest)
    BY <1>2, <1>3, ConcatUnits
  <2> QED
    BY <2>1, <2>2, <1>2, <1>3 DEF Stream
<1>5. wire' = [wire EXCEPT ![c] = wire[c] \o out]
  OBVIOUS
<1>6. k = 1 => /\ outputBuffer' = [outputBuffer EXCEPT ![c] = rest]
              /\ UpdateChannel(c, events[c] \cup {"write"})
  BY <1>1 DEF WaitToWrite
<1>7. k # 1 => UNCHANGED <<outputBuffer, pollVars>>
  BY <1>1
<1> HIDE DEF out, rest
<1>8. CASE k = 1
  <2>1. events' = [events EXCEPT ![c] = events[c] \cup {"write"}]
        /\ index' = [index EXCEPT ![c] = "kAdded"]
    BY <1>6, <1>8, <1>3 DEF UpdateChannel
  <2>2. /\ outputBuffer' \in [Conns -> Seq(Unit)] /\ outputBuffer'[c] = rest
        /\ wire' \in [Conns -> Seq(Unit)] /\ wire'[c] = wire[c] \o out
        /\ \A d \in Conns \ {c} : outputBuffer'[d] = outputBuffer[d] /\ wire'[d] = wire[d]
    BY <1>2, <1>3, <1>4, <1>5, <1>6, <1>8
  <2>3. Stream(c)' = Stream(c) \o Frame(m)
    BY <2>2, <1>4 DEF Stream
  <2>4. /\ events' \in [Conns -> SUBSET {"read", "write"}] /\ "write" \in events'[c]
        /\ index' \in [Conns -> {"kNew", "kAdded", "kDeleted"}] /\ index'[c] = "kAdded"
        /\ \A d \in Conns \ {c} : events'[d] = events[d] /\ index'[d] = index[d]
    BY <2>1, <1>3
  <2> QED
    BY <2>2, <2>3, <2>4 DEF SendEffect
<1>9. CASE k # 1
  BY <1>1, <1>2, <1>3, <1>4, <1>5, <1>7, <1>9 DEF SendEffect, Stream, pollVars
<1> QED
  BY <1>8, <1>9

LEMMA SendDoes ==
  ASSUME TypeOK, NEW c \in Conns, NEW m \in Message, SendInLoop(c, m)
  PROVE  SendEffect(c, m)
<1>1. CASE UNCHANGED <<pollVars, outputBuffer, wire>>
  BY <1>1 DEF TypeOK, pollVars, SendEffect, Stream, IsWriting
<1>2. CASE /\ state[c] = "kConnected" /\ ~Pending(c)
           /\ \E k \in Taken(c, Frame(m)) :
                /\ wire' = [wire EXCEPT ![c] = @ \o SubSeq(Frame(m), 1, k)]
                /\ IF k \in 1 .. Len(Frame(m)) - 1
                   THEN /\ outputBuffer' = [outputBuffer EXCEPT ![c] =
                                              SubSeq(Frame(m), k + 1, Len(Frame(m)))]
                        /\ WaitToWrite(c)
                   ELSE UNCHANGED <<outputBuffer, pollVars>>
  BY <1>2, Direct
<1>3. CASE /\ state[c] = "kConnected" /\ Pending(c)
           /\ outputBuffer' = [outputBuffer EXCEPT ![c] = @ \o Frame(m)]
           /\ UNCHANGED <<pollVars, wire>>
  <2>1. /\ Frame(m) \in Seq(Unit) /\ wire[c] \in Seq(Unit) /\ outputBuffer[c] \in Seq(Unit)
    BY FrameType DEF TypeOK
  <2>2. /\ outputBuffer[c] \o Frame(m) \in Seq(Unit)
        /\ wire[c] \o (outputBuffer[c] \o Frame(m)) = (wire[c] \o outputBuffer[c]) \o Frame(m)
    BY <2>1, ConcatUnits, ConcatType
  <2> QED
    BY <1>3, <2>2 DEF TypeOK, pollVars, SendEffect, Stream, IsWriting, Pending
<1> QED
  BY <1>1, <1>2, <1>3 DEF SendInLoop

LEMMA FunctorType ==
  ASSUME NEW c \in Conns
  PROVE  /\ \A op \in Ops \ {"send"} : F(op, c) \in Functor
         /\ \A m \in Message : [op |-> "send", conn |-> c, msg |-> m] \in Functor
  BY DEF F, Functor, Ops

LEMMA QueueDoes ==
  ASSUME TypeOK, NEW l \in Loops, NEW q \in Seq(Functor),
         queue' = [queue EXCEPT ![l] = q]
  PROVE  /\ queue' \in [Loops -> Seq(Functor)] /\ queue'[l] = q
         /\ \A k \in Loops \ {l} : queue'[k] = queue[k]
  BY DEF TypeOK

LEMMA HeadType ==
  ASSUME TypeOK, NEW l \in Loops, queue[l] # <<>>
  PROVE  /\ queue[l] \in Seq(Functor) /\ Tail(queue[l]) \in Seq(Functor)
         /\ Head(queue[l]) \in Functor
         /\ Head(queue[l]).op \in Ops /\ Head(queue[l]).conn \in Conns
         /\ Head(queue[l]).op = "send" => Head(queue[l]).msg \in Message
<1>1. queue[l] \in Seq(Functor)
  BY DEF TypeOK
<1>2. Tail(queue[l]) \in Seq(Functor) /\ Head(queue[l]) \in Functor
  BY <1>1, Dequeued
<1> QED
  BY <1>1, <1>2 DEF Functor, Ops

LEMMA CloseDoes ==
  ASSUME TypeOK, NEW l \in Loops, NEW c \in Conns, NEW q \in Seq(Functor), HandleClose(l, c, q)
  PROVE  /\ closeRequested' = [closeRequested EXCEPT ![c] = TRUE]
         /\ closeRequested' \in [Conns -> BOOLEAN]
         /\ events' \in [Conns -> SUBSET {"read", "write"}]
         /\ index' \in [Conns -> {"kNew", "kAdded", "kDeleted"}]
         /\ index'[c] # "kNew" /\ \A d \in Conns \ {c} : index'[d] = index[d] /\ events'[d] = events[d]
         /\ connections' = connections \ {c} /\ connections' \subseteq Conns
         /\ queue' \in [Loops -> Seq(Functor)]
         /\ queue' = [queue EXCEPT ![l] = Append(q, F("destroyed", c))]
<1>1. /\ Closable(c) /\ closeRequested' = [closeRequested EXCEPT ![c] = TRUE]
      /\ UpdateChannel(c, {}) /\ connections' = connections \ {c}
      /\ queue' = [queue EXCEPT ![l] = Append(q, F("destroyed", c))]
  BY DEF HandleClose, Enqueue
<1>2. F("destroyed", c) \in Functor
  BY FunctorType DEF Ops
<1>3. Append(q, F("destroyed", c)) \in Seq(Functor)
  BY <1>2, Enqueued
<1>4. queue' \in [Loops -> Seq(Functor)]
  BY <1>1, <1>3, QueueDoes
<1>5. /\ events' \in [Conns -> SUBSET {"read", "write"}]
      /\ index' \in [Conns -> {"kNew", "kAdded", "kDeleted"}]
      /\ index'[c] # "kNew" /\ \A d \in Conns \ {c} : index'[d] = index[d] /\ events'[d] = events[d]
  BY <1>1 DEF UpdateChannel, TypeOK
<1> QED
  BY <1>1, <1>4, <1>5 DEF TypeOK

LEMMA ChosenType == TypeOK => Chosen \in Loops
<1> SUFFICES ASSUME TypeOK PROVE Chosen \in Loops
  OBVIOUS
<1>1. BaseLoop \in Loops
  BY DEF Loops
<1>2. ASSUME loops # <<>> PROVE loops[next + 1] \in Loops
  <2>1. loops \in Seq(Loops) /\ next \in Nat /\ next < Len(loops)
    BY <1>2, ServerAssumption DEF TypeOK
  <2>2. next + 1 \in 1 .. Len(loops)
    BY <2>1, LenProperties
  <2> QED
    BY <2>1, <2>2
<1> QED
  BY <1>1, <1>2 DEF Chosen

LEMMA NextMessageType == ASSUME TypeOK, NEW s \in Senders PROVE NextMessage(s) \in Message
  BY DEF TypeOK, NextMessage, Message

(* Whatever is handled for a connection is handled on a loop.              *)
LEMMA OnALoop ==
  ASSUME TypeOK, PlaceInv, LifeInv
  PROVE  /\ \A c \in Conns : loopOf[c] # None => loopOf[c] \in Loops
         /\ \A c \in Conns : state[c] # "none" => loopOf[c] \in Loops
         /\ \A c \in Conns : index[c] # "kNew" \/ up[c] > 0 => state[c] \notin {"none", "kConnecting"}
         /\ \A t \in Threads : call[t] # Idle =>
              /\ call[t] \in Functor /\ call[t].conn \in Conns
              /\ loopOf[call[t].conn] \in Loops /\ call[t].op \in {"send", "shutdown", "forceClose"}
<1>1. \A c \in Conns : loopOf[c] # None => loopOf[c] \in Loops
  BY DEF TypeOK
<1>2. \A c \in Conns : state[c] # "none" => loopOf[c] # None
  BY DEF PlaceInv
<1>3. \A c \in Conns : index[c] # "kNew" \/ up[c] > 0 => state[c] \notin {"none", "kConnecting"}
  BY DEF LifeInv, Starting
<1>4. ASSUME NEW t \in Threads, call[t] # Idle
      PROVE  /\ call[t] \in Functor /\ loopOf[call[t].conn] # None
             /\ call[t].op \in {"send", "shutdown", "forceClose"}
  BY <1>4 DEF TypeOK, PlaceInv
<1>5. \A f \in Functor : f.conn \in Conns
  BY DEF Functor
<1> QED
  BY <1>1, <1>2, <1>3, <1>4, <1>5

LEMMA TypeNext == TypeOK /\ PlaceInv /\ LifeInv /\ [Next]_vars => TypeOK'
<1> SUFFICES ASSUME TypeOK, PlaceInv, LifeInv, [Next]_vars
             PROVE  TypeOK'
  OBVIOUS
<1>t. TypeOK
  OBVIOUS
<1> USE DEF poolVars, pollVars, dataVars, userVars, cbVars
<1>1. ASSUME NEW l \in Loops, RunEstablished(l) PROVE TypeOK'
  <2> DEFINE c == Head(queue[l]).conn
  <2>1. c \in Conns /\ queue' \in [Loops -> Seq(Functor)]
    BY <1>1, <1>t, HeadType, QueueDoes DEF RunEstablished, NextIs, Dequeue
  <2>2. UpdateChannel(c, events[c] \cup {"read"})
    BY <1>1 DEF RunEstablished, Established
  <2>3. events[c] \cup {"read"} \in SUBSET {"read", "write"}
    BY <2>1, <1>t DEF TypeOK
  <2>4. events' \in [Conns -> SUBSET {"read", "write"}] /\ index' \in [Conns -> {"kNew", "kAdded", "kDeleted"}]
    BY <2>1, <2>2, <2>3, <1>t, UpdateType
  <2> QED
    BY <1>1, <1>t, <2>1, <2>4 DEF RunEstablished, Established, TypeOK
<1>2. ASSUME NEW l \in Loops, RunSend(l) PROVE TypeOK'
  <2> DEFINE c == Head(queue[l]).conn
             m == Head(queue[l]).msg
  <2>1. c \in Conns /\ m \in Message /\ queue' \in [Loops -> Seq(Functor)]
    BY <1>2, <1>t, HeadType, QueueDoes DEF RunSend, NextIs, Dequeue
  <2>2. SendEffect(c, m)
    BY <1>2, <2>1, <1>t, SendDoes DEF RunSend
  <2> QED
    BY <1>2, <1>t, <2>1, <2>2 DEF RunSend, SendEffect, TypeOK
<1>3. ASSUME NEW l \in Loops, RunShutdown(l) PROVE TypeOK'
  <2>1. Head(queue[l]).conn \in Conns /\ queue' \in [Loops -> Seq(Functor)]
    BY <1>3, <1>t, HeadType, QueueDoes DEF RunShutdown, NextIs, Dequeue
  <2>2. fin' \in [Conns -> BOOLEAN]
    BY <1>3, <1>t, <2>1 DEF RunShutdown, ShutdownInLoop, IsWriting, TypeOK
  <2> QED
    BY <1>3, <1>t, <2>1, <2>2 DEF RunShutdown, TypeOK
<1>4. ASSUME NEW l \in Loops, RunForceClose(l) PROVE TypeOK'
  <2> DEFINE c == Head(queue[l]).conn
  <2>1. c \in Conns /\ queue[l] # <<>> /\ Tail(queue[l]) \in Seq(Functor)
    BY <1>4, <1>t, HeadType DEF RunForceClose, NextIs
  <2>2. CASE HandleClose(l, c, Tail(queue[l]))
    BY <1>4, <1>t, <2>1, <2>2, CloseDoes DEF RunForceClose, TypeOK
  <2>3. CASE Dequeue(l) /\ UNCHANGED <<closeRequested, pollVars, connections>>
    <3>1. queue' \in [Loops -> Seq(Functor)]
      BY <2>1, <2>3, <1>t, QueueDoes DEF Dequeue
    <3> QED
      BY <1>4, <1>t, <2>3, <3>1 DEF RunForceClose, TypeOK
  <2> QED
    BY <1>4, <2>2, <2>3 DEF RunForceClose
<1>5. ASSUME NEW l \in Loops, RunDestroyed(l) PROVE TypeOK'
  <2> DEFINE c == Head(queue[l]).conn
  <2>1. c \in Conns /\ queue' \in [Loops -> Seq(Functor)]
    BY <1>5, <1>t, HeadType, QueueDoes DEF RunDestroyed, NextIs, Dequeue
  <2>2. events' \in [Conns -> SUBSET {"read", "write"}] /\ index' \in [Conns -> {"kNew", "kAdded", "kDeleted"}]
    BY <1>5, <1>t, <2>1 DEF RunDestroyed, RemoveChannel, TypeOK
  <2>3. down' \in [Conns -> Nat]
    BY <1>5, <1>t, <2>1 DEF RunDestroyed, NotifyDown, TypeOK
  <2> QED
    BY <1>5, <1>t, <2>1, <2>2, <2>3 DEF RunDestroyed, TypeOK
<1>6. ASSUME NEW c \in Conns, HandleNewConnection(c) PROVE TypeOK'
  <2>1. Chosen \in Loops
    BY ChosenType
  <2>2. next' \in Nat /\ loops' = loops /\ (loops # <<>> => next' < Len(loops))
    <3>1. loops \in Seq(Loops) /\ next \in Nat
      BY <1>t, ServerAssumption DEF TypeOK
    <3>2. loops # <<>> => Len(loops) \in Nat \ {0}
      BY <3>1, EmptySeq, LenProperties
    <3> QED
      BY <1>6, <3>1, <3>2, <1>t DEF HandleNewConnection, NextLoop, poolVars
  <2>3. CASE Established(c) /\ UNCHANGED queue
    <3>1. events[c] \cup {"read"} \in SUBSET {"read", "write"}
      BY <1>t DEF TypeOK
    <3>2. events' \in [Conns -> SUBSET {"read", "write"}] /\ index' \in [Conns -> {"kNew", "kAdded", "kDeleted"}]
      BY <2>3, <3>1, <1>t, UpdateType DEF Established
    <3>3. state' = [state EXCEPT ![c] = "kConnected"] /\ up' = [up EXCEPT ![c] = @ + 1]
      BY <2>3 DEF Established
    <3> QED
      BY <1>6, <1>t, <2>1, <2>2, <2>3, <3>2, <3>3 DEF HandleNewConnection, TypeOK
  <2>4. CASE /\ state' = [state EXCEPT ![c] = "kConnecting"]
             /\ QueueInLoop(Chosen, F("established", c))
             /\ UNCHANGED <<pollVars, up>>
    <3>1. F("established", c) \in Functor /\ queue[Chosen] \in Seq(Functor)
      BY <2>1, <1>t, FunctorType DEF Ops, TypeOK
    <3>2. queue' \in [Loops -> Seq(Functor)]
      BY <2>1, <2>4, <3>1, <1>t, Enqueued, QueueDoes DEF QueueInLoop, Enqueue
    <3> QED
      BY <1>6, <1>t, <2>1, <2>2, <2>4, <3>2 DEF HandleNewConnection, TypeOK
  <2> QED
    BY <1>6, <2>3, <2>4 DEF HandleNewConnection
<1>7. ASSUME NEW c \in Conns, HandleWrite(c) PROVE TypeOK'
  <2> DEFINE q == outputBuffer[c]
  <2>1. PICK k \in Taken(c, q) \ {0} :
          LET rest == SubSeq(q, k + 1, Len(q)) IN
          /\ wire' = [wire EXCEPT ![c] = @ \o SubSeq(q, 1, k)]
          /\ outputBuffer' = [outputBuffer EXCEPT ![c] = rest]
          /\ IF rest = <<>>
             THEN /\ UpdateChannel(c, events[c] \ {"write"})
                  /\ fin' = [fin EXCEPT ![c] = @ \/ FinDue(c)]
             ELSE UNCHANGED <<pollVars, fin>>
    BY <1>7 DEF HandleWrite
  <2>2. q \in Seq(Unit) /\ wire[c] \in Seq(Unit)
    BY <1>t DEF TypeOK
  <2>3. k \in 0 .. Len(q)
    BY <2>2, LenProperties DEF Taken
  <2>4. SubSeq(q, 1, k) \in Seq(Unit) /\ SubSeq(q, k + 1, Len(q)) \in Seq(Unit)
    BY <2>2, <2>3, SubSeqType
  <2>5. wire' \in [Conns -> Seq(Unit)] /\ outputBuffer' \in [Conns -> Seq(Unit)]
    BY <2>1, <2>2, <2>4, <1>t, ConcatType DEF TypeOK
  <2>6. events[c] \ {"write"} \in SUBSET {"read", "write"}
    BY <1>t DEF TypeOK
  <2>7. /\ events' \in [Conns -> SUBSET {"read", "write"}]
        /\ index' \in [Conns -> {"kNew", "kAdded", "kDeleted"}]
        /\ fin' \in [Conns -> BOOLEAN]
    <3>1. CASE UpdateChannel(c, events[c] \ {"write"}) /\ fin' = [fin EXCEPT ![c] = @ \/ FinDue(c)]
      BY <3>1, <2>6, <1>t, UpdateType DEF TypeOK, FinDue
    <3>2. CASE UNCHANGED <<pollVars, fin>>
      BY <3>2, <1>t DEF TypeOK
    <3> QED
      BY <2>1, <3>1, <3>2
  <2> QED
    BY <1>7, <1>t, <2>5, <2>7 DEF HandleWrite, TypeOK
<1>8. ASSUME NEW c \in Conns, HandleEof(c) PROVE TypeOK'
  <2>1. loopOf[c] \in Loops /\ queue[loopOf[c]] \in Seq(Functor)
    BY <1>8, <1>t, OnALoop DEF HandleEof, Ready, TypeOK
  <2> QED
    BY <1>8, <1>t, <2>1, CloseDoes DEF HandleEof, TypeOK
<1>9. ASSUME NEW c \in Conns, NEW d \in Conns, MessageSends(c, d) PROVE TypeOK'
  <2>1. loopOf[c] \in Loops /\ loopOf[c] \in Senders
    BY <1>9, <1>t, OnALoop DEF MessageSends, Ready, Senders
  <2>2. NextMessage(loopOf[c]) \in Message
    BY <2>1, <1>t, NextMessageType
  <2>3. SendEffect(d, NextMessage(loopOf[c]))
    BY <1>9, <1>t, <2>2, SendDoes DEF MessageSends
  <2>4. sent' \in [Senders -> Nat]
    BY <1>9, <1>t, <2>1 DEF MessageSends, TypeOK
  <2> QED
    BY <1>9, <1>t, <2>3, <2>4 DEF MessageSends, SendEffect, TypeOK
<1>10. ASSUME NEW c \in Conns, NEW d \in Conns, MessageShutsDown(c, d) PROVE TypeOK'
  <2>1. fin' \in [Conns -> BOOLEAN]
    BY <1>10, <1>t DEF MessageShutsDown, ShutdownInLoop, IsWriting, TypeOK
  <2> QED
    BY <1>10, <1>t, <2>1 DEF MessageShutsDown, TypeOK
<1>11. ASSUME NEW c \in Conns, NEW d \in Conns, MessageForceCloses(c, d) PROVE TypeOK'
  <2>1. loopOf[d] \in Loops /\ queue[loopOf[d]] \in Seq(Functor)
    BY <1>11, <1>t, OnALoop DEF MessageForceCloses, TypeOK
  <2>2. CASE HandleClose(loopOf[d], d, queue[loopOf[d]])
    BY <1>11, <1>t, <2>1, <2>2, CloseDoes DEF MessageForceCloses, TypeOK
  <2>3. CASE UNCHANGED <<closeRequested, pollVars, connections, queue>>
    BY <1>11, <1>t, <2>3 DEF MessageForceCloses, TypeOK
  <2> QED
    BY <1>11, <2>2, <2>3 DEF MessageForceCloses
<1>12. ASSUME NEW t \in Threads, Queued(t) PROVE TypeOK'
  <2>1. call[t] \in Functor /\ loopOf[call[t].conn] \in Loops
    BY <1>12, <1>t, OnALoop DEF Queued
  <2>2. queue[loopOf[call[t].conn]] \in Seq(Functor)
    BY <2>1, <1>t DEF TypeOK
  <2>3. queue' \in [Loops -> Seq(Functor)]
    BY <1>12, <1>t, <2>1, <2>2, Enqueued, QueueDoes DEF Queued, QueueInLoop, Enqueue
  <2> QED
    BY <1>12, <1>t, <2>3 DEF Queued, TypeOK
<1>13. ASSUME NEW t \in Threads, NEW c \in Conns, Send(t, c) PROVE TypeOK'
  <2>1. t \in Senders /\ NextMessage(t) \in Message
    BY <1>t, NextMessageType DEF Senders
  <2>2. [op |-> "send", conn |-> c, msg |-> NextMessage(t)] \in Functor
    BY <2>1, FunctorType
  <2>3. call' \in [Threads -> Functor \cup {Idle}] /\ sent' \in [Senders -> Nat]
    BY <1>13, <1>t, <2>1, <2>2 DEF Send, TypeOK
  <2> QED
    BY <1>13, <1>t, <2>3 DEF Send, TypeOK
<1>14. ASSUME NEW t \in Threads, NEW c \in Conns, Shutdown(t, c) PROVE TypeOK'
  <2>1. F("shutdown", c) \in Functor
    BY FunctorType DEF Ops
  <2> QED
    BY <1>14, <1>t, <2>1 DEF Shutdown, TypeOK
<1>15. ASSUME NEW t \in Threads, NEW c \in Conns, ForceClose(t, c) PROVE TypeOK'
  <2>1. F("forceClose", c) \in Functor
    BY FunctorType DEF Ops
  <2> QED
    BY <1>15, <1>t, <2>1 DEF ForceClose, TypeOK
<1>16. ASSUME NEW c \in Conns, NEW how \in {"closed", "reset"}, PeerEnds(c, how) PROVE TypeOK'
  BY <1>16, <1>t DEF PeerEnds, TypeOK
<1>17. CASE UNCHANGED vars
  BY <1>17, <1>t DEF vars, TypeOK
<1> QED
  BY <1>1, <1>2, <1>3, <1>4, <1>5, <1>6, <1>7, <1>8, <1>9, <1>10, <1>11, <1>12, <1>13, <1>14, <1>15,
     <1>16, <1>17 DEF Next, RunFunctor

-----------------------------------------------------------------------------
(* What a step does to the functors of all queues.                         *)
Gains(l, f) ==
  \A k \in Loops, op \in Ops, c \in Conns :
    /\ Has(queue'[k], op, c) <=> Has(queue[k], op, c) \/ (k = l /\ f.op = op /\ f.conn = c)
    /\ AtMostOne(queue[k], op, c) /\ (k = l /\ f.op = op /\ f.conn = c => ~Has(queue[k], op, c))
       => AtMostOne(queue'[k], op, c)

Loses(l, f) ==
  \A k \in Loops, op \in Ops, c \in Conns :
    /\ Has(queue[k], op, c) <=> Has(queue'[k], op, c) \/ (k = l /\ f.op = op /\ f.conn = c)
    /\ AtMostOne(queue[k], op, c) => /\ AtMostOne(queue'[k], op, c)
                                     /\ k = l /\ f.op = op /\ f.conn = c => ~Has(queue'[k], op, c)

LEMMA Gaining ==
  ASSUME TypeOK, NEW l \in Loops, NEW f \in Functor,
         queue' = [queue EXCEPT ![l] = Append(queue[l], f)]
  PROVE  Gains(l, f)
<1>1. queue[l] \in Seq(Functor)
  BY DEF TypeOK
<1>2. queue'[l] = Append(queue[l], f) /\ \A k \in Loops \ {l} : queue'[k] = queue[k]
  BY DEF TypeOK
<1> QED
  BY <1>1, <1>2, Enqueued DEF Gains

LEMMA Losing ==
  ASSUME TypeOK, NEW l \in Loops, queue[l] # <<>>, Dequeue(l)
  PROVE  Loses(l, Head(queue[l]))
<1>1. queue[l] \in Seq(Functor)
  BY DEF TypeOK
<1>2. queue'[l] = Tail(queue[l]) /\ \A k \in Loops \ {l} : queue'[k] = queue[k]
  BY DEF TypeOK, Dequeue
<1> QED
  BY <1>1, <1>2, Dequeued DEF Loses

(* Steps that leave the life of a connection as it is, or keep it running. *)
SameFunctors(d) ==
  \A l \in Loops : \A op \in {"established", "destroyed"} :
    /\ Has(queue'[l], op, d) <=> Has(queue[l], op, d)
    /\ AtMostOne(queue[l], op, d) => AtMostOne(queue'[l], op, d)

SameHome(d) == /\ closeRequested'[d] = closeRequested[d] /\ loopOf'[d] = loopOf[d]
               /\ d \in connections' <=> d \in connections
Untouched(d) == /\ state'[d] = state[d] /\ index'[d] = index[d]
                /\ fin'[d] = fin[d] /\ up'[d] = up[d]
Running(d) == /\ state[d] \notin {"none", "kConnecting"} /\ state'[d] \notin {"none", "kConnecting"}
              /\ state'[d] = "kConnected" => state[d] = "kConnected"
              /\ index'[d] = "kNew" => index[d] = "kNew"
              /\ closeRequested[d] /\ index[d] = "kNew" => index'[d] = "kNew"

LEMMA Keeps ==
  ASSUME TypeOK, PlaceInv, LifeInv,
         NEW d \in Conns, SameFunctors(d), SameHome(d), Untouched(d) \/ Running(d)
  PROVE  Starting(d)' /\ Closing(d)'
<1>1. closeRequested[d] => loopOf[d] \in Loops
  BY OnALoop DEF LifeInv, Starting
<1>2. Starting(d) /\ Closing(d)
  BY DEF LifeInv
<1>3. Starting(d)'
  BY <1>2 DEF Starting, SameFunctors, SameHome, Untouched, Running
<1>4. Closing(d)'
  BY <1>1, <1>2 DEF Closing, Starting, SameFunctors, SameHome, Untouched, Running
<1> QED
  BY <1>3, <1>4

(* ... and those that request the close of one.                            *)
LEMMA Closes ==
  ASSUME TypeOK, PlaceInv, LifeInv, NEW c \in Conns, Closable(c), NEW d \in Conns,
         \A l \in Loops, op \in {"established", "destroyed"}, e \in Conns :
           /\ Has(queue'[l], op, e) <=>
                Has(queue[l], op, e) \/ (l = loopOf[c] /\ op = "destroyed" /\ e = c)
           /\ AtMostOne(queue[l], op, e)
                /\ (l = loopOf[c] /\ op = "destroyed" /\ e = c => ~Has(queue[l], op, e))
              => AtMostOne(queue'[l], op, e),
         closeRequested' = [closeRequested EXCEPT ![c] = TRUE],
         index'[c] # "kNew", \A e \in Conns \ {c} : index'[e] = index[e],
         connections' = connections \ {c},
         loopOf' = loopOf, fin' = fin, up' = up,
         state'[c] \in {"kConnected", "kDisconnecting"},
         \A e \in Conns \ {c} : state'[e] = state[e]
  PROVE  Starting(d)' /\ Closing(d)'
<1>1. CASE d = c
  <2>1. loopOf[c] \in Loops /\ ~closeRequested[c] /\ state[c] \in {"kConnected", "kDisconnecting"}
    BY OnALoop DEF Closable
  <2>2. Starting(c) /\ Closing(c)
    BY DEF LifeInv
  <2>3. closeRequested'[c]
    BY DEF TypeOK
  <2>4. Starting(c)'
    BY <2>1, <2>2 DEF Starting
  <2>5. Closing(c)'
    BY <2>1, <2>2, <2>3 DEF Closing
  <2> QED
    BY <1>1, <2>4, <2>5
<1>2. CASE d # c
  <2>1. SameFunctors(d)
    BY <1>2 DEF SameFunctors
  <2>2. SameHome(d) /\ Untouched(d)
    BY <1>2 DEF SameHome, Untouched, TypeOK
  <2> QED
    BY <2>1, <2>2, Keeps
<1> QED
  BY <1>1, <1>2

-----------------------------------------------------------------------------
(* What each step does to the queues.                                      *)
LEMMA RunLoses ==
  ASSUME TypeOK, NEW l \in Loops, NEW op \in Ops, NextIs(l, op), Dequeue(l)
  PROVE  Loses(l, Head(queue[l]))
  BY Losing DEF NextIs

(* The head of a queue is about a connection of that loop.                 *)
LEMMA HeadHas ==
  ASSUME TypeOK, PlaceInv, NEW l \in Loops, NEW op \in Ops, NextIs(l, op)
  PROVE  /\ Head(queue[l]).conn \in Conns /\ Head(queue[l]).op = op /\ queue[l] # <<>>
         /\ Has(queue[l], op, Head(queue[l]).conn) /\ loopOf[Head(queue[l]).conn] = l
         /\ op = "send" => Head(queue[l]).msg \in Message
<1>1. queue[l] # <<>> /\ Head(queue[l]).op = op
  BY DEF NextIs
<1>2. queue[l] \in Seq(Functor) /\ Head(queue[l]).conn \in Conns
  BY <1>1, HeadType
<1>3. op = "send" => Head(queue[l]).msg \in Message
  BY <1>1, HeadType
<1>4. Has(queue[l], op, Head(queue[l]).conn)
  BY <1>1, <1>2, Dequeued
<1> QED
  BY <1>1, <1>2, <1>3, <1>4 DEF PlaceInv

(* A close on loop l, whose queue is now q.                                *)
LEMMA CloseGains ==
  ASSUME TypeOK, NEW l \in Loops, NEW c \in Conns, HandleClose(l, c, queue[l])
  PROVE  Gains(l, F("destroyed", c))
<1>1. queue' = [queue EXCEPT ![l] = Append(queue[l], F("destroyed", c))]
  BY DEF HandleClose, Enqueue
<1>2. F("destroyed", c) \in Functor
  BY FunctorType DEF Ops
<1> QED
  BY <1>1, <1>2, Gaining

LEMMA CloseInstead ==
  ASSUME TypeOK, NEW l \in Loops, NEW c \in Conns, queue[l] # <<>>,
         HandleClose(l, c, Tail(queue[l])), Head(queue[l]).op = "forceClose"
  PROVE  /\ \A k \in Loops, op \in Ops \ {"forceClose"}, d \in Conns :
              /\ Has(queue'[k], op, d) <=>
                   Has(queue[k], op, d) \/ (k = l /\ op = "destroyed" /\ d = c)
              /\ AtMostOne(queue[k], op, d)
                   /\ (k = l /\ op = "destroyed" /\ d = c => ~Has(queue[k], op, d))
                 => AtMostOne(queue'[k], op, d)
         /\ \A k \in Loops, d \in Conns : Has(queue'[k], "forceClose", d) => Has(queue[k], "forceClose", d)
<1> DEFINE f == F("destroyed", c)
<1>1. /\ queue' = [queue EXCEPT ![l] = Append(Tail(queue[l]), f)]
      /\ f \in Functor /\ f.op = "destroyed" /\ f.conn = c
  BY FunctorType DEF HandleClose, Enqueue, Ops, F
<1> HIDE DEF f
<1>2. queue[l] \in Seq(Functor) /\ Tail(queue[l]) \in Seq(Functor)
  BY HeadType
<1>3. queue'[l] = Append(Tail(queue[l]), f) /\ \A k \in Loops \ {l} : queue'[k] = queue[k]
  BY <1>1 DEF TypeOK
<1>4. \A op, d : /\ Has(queue'[l], op, d) <=> Has(Tail(queue[l]), op, d) \/ (f.op = op /\ f.conn = d)
                 /\ AtMostOne(Tail(queue[l]), op, d)
                      /\ (f.op = op /\ f.conn = d => ~Has(Tail(queue[l]), op, d))
                    => AtMostOne(queue'[l], op, d)
  <2> DEFINE q == Tail(queue[l])
  <2>1. q \in Seq(Functor) /\ f \in Functor /\ queue'[l] = Append(q, f)
    BY <1>1, <1>2, <1>3
  <2> HIDE DEF q
  <2>2. \A op, d : /\ Has(Append(q, f), op, d) <=> Has(q, op, d) \/ (f.op = op /\ f.conn = d)
                   /\ AtMostOne(q, op, d) /\ (f.op = op /\ f.conn = d => ~Has(q, op, d))
                      => AtMostOne(Append(q, f), op, d)
    BY <2>1, Enqueued
  <2> QED
    BY <2>1, <2>2 DEF q
<1>5. \A op, d : /\ op # "forceClose" => (Has(queue[l], op, d) <=> Has(Tail(queue[l]), op, d))
                 /\ Has(Tail(queue[l]), op, d) => Has(queue[l], op, d)
                 /\ AtMostOne(queue[l], op, d) => AtMostOne(Tail(queue[l]), op, d)
  BY <1>2, Dequeued
<1>6. ASSUME NEW k \in Loops, NEW op \in Ops \ {"forceClose"}, NEW d \in Conns
      PROVE  /\ Has(queue'[k], op, d) <=>
                  Has(queue[k], op, d) \/ (k = l /\ op = "destroyed" /\ d = c)
             /\ AtMostOne(queue[k], op, d)
                  /\ (k = l /\ op = "destroyed" /\ d = c => ~Has(queue[k], op, d))
                => AtMostOne(queue'[k], op, d)
  BY <1>1, <1>3, <1>4, <1>5
<1>7. \A k \in Loops, d \in Conns : Has(queue'[k], "forceClose", d) => Has(queue[k], "forceClose", d)
  BY <1>1, <1>3, <1>4, <1>5
<1> QED
  BY <1>6, <1>7

LEMMA PlaceNext == TypeOK /\ PlaceInv /\ LifeInv /\ [Next]_vars => PlaceInv'
<1> SUFFICES ASSUME TypeOK, PlaceInv, LifeInv, [Next]_vars
             PROVE  PlaceInv'
  OBVIOUS
<1>t. TypeOK
  OBVIOUS
<1> USE DEF poolVars, pollVars, dataVars, userVars, cbVars
<1>f. \A op, c : F(op, c).op = op /\ F(op, c).conn = c
  BY DEF F
<1> DEFINE Same == UNCHANGED <<loopOf, call>>
           Shrinks == \A k \in Loops, op \in Ops, c \in Conns : Has(queue'[k], op, c) =>
                        Has(queue[k], op, c) \/ loopOf[c] = k
           Steady == \A c \in Conns : state'[c] = "none" <=> state[c] = "none"
<1>a. Same /\ Shrinks /\ Steady => PlaceInv'
  BY <1>t DEF PlaceInv
<1>b. ASSUME NEW c \in Conns, state[c] # "none", state'[c] # "none",
             \A d \in Conns \ {c} : state'[d] = state[d]
      PROVE  Steady
  BY <1>b
<1>c. state' = state => Steady
  OBVIOUS
<1>d. queue' = queue => Shrinks
  OBVIOUS
<1>e. ASSUME NEW l \in Loops, NEW op \in Ops, NextIs(l, op), Dequeue(l)
      PROVE  Shrinks
  BY <1>e, <1>t, RunLoses DEF Loses
<1>g. ASSUME NEW l \in Loops, NEW f \in Functor, loopOf[f.conn] = l, Gains(l, f)
      PROVE  Shrinks
  BY <1>g DEF Gains
<1> HIDE DEF Shrinks, Steady
<1>1. ASSUME NEW l \in Loops, RunEstablished(l) PROVE PlaceInv'
  <2>1. Head(queue[l]).conn \in Conns /\ Has(queue[l], "established", Head(queue[l]).conn)
    BY <1>1, <1>t, HeadHas DEF RunEstablished, Ops
  <2>2. Shrinks
    BY <1>1, <1>e DEF RunEstablished, Ops
  <2>3. Steady
    BY <1>1, <2>1, <1>b, <1>t DEF RunEstablished, Established, LifeInv, Starting, TypeOK
  <2> QED
    BY <1>1, <2>2, <2>3, <1>a DEF RunEstablished
<1>2. ASSUME NEW l \in Loops, RunSend(l) PROVE PlaceInv'
  BY <1>2, <1>a, <1>c, <1>e DEF RunSend, Ops
<1>3. ASSUME NEW l \in Loops, RunShutdown(l) PROVE PlaceInv'
  BY <1>3, <1>a, <1>c, <1>e DEF RunShutdown, Ops
<1>4. ASSUME NEW l \in Loops, RunForceClose(l) PROVE PlaceInv'
  <2> DEFINE c == Head(queue[l]).conn
  <2>1. c \in Conns /\ queue[l] # <<>> /\ Head(queue[l]).op = "forceClose" /\ loopOf[c] = l
    BY <1>4, <1>t, HeadHas DEF RunForceClose, Ops
  <2>2. CASE HandleClose(l, c, Tail(queue[l]))
    <3>1. Shrinks
      BY <2>1, <2>2, <1>t, CloseInstead DEF Shrinks
    <3> QED
      BY <1>4, <3>1, <1>a, <1>c DEF RunForceClose
  <2>3. CASE Dequeue(l)
    BY <1>4, <2>3, <1>a, <1>c, <1>e DEF RunForceClose, Ops
  <2> QED
    BY <1>4, <2>2, <2>3 DEF RunForceClose
<1>5. ASSUME NEW l \in Loops, RunDestroyed(l) PROVE PlaceInv'
  <2>1. Head(queue[l]).conn \in Conns
    BY <1>5, <1>t, HeadHas DEF RunDestroyed, Ops
  <2>2. Shrinks
    BY <1>5, <1>e DEF RunDestroyed, Ops
  <2>3. Steady
    BY <1>5, <2>1, <1>t DEF RunDestroyed, StillOpen, Steady, TypeOK
  <2> QED
    BY <1>5, <2>2, <2>3, <1>a DEF RunDestroyed
<1>6. ASSUME NEW c \in Conns, HandleNewConnection(c) PROVE PlaceInv'
  <2>1. Chosen \in Loops /\ state[c] = "none" /\ loopOf[c] = None
    BY <1>6, ChosenType DEF HandleNewConnection, PlaceInv
  <2>2. /\ loopOf' = [loopOf EXCEPT ![c] = Chosen] /\ call' = call
        /\ state'[c] # "none" /\ \A d \in Conns \ {c} : state'[d] = state[d]
    BY <1>6, <1>t DEF HandleNewConnection, Established, TypeOK
  <2>3. \A k \in Loops, op \in Ops, d \in Conns : Has(queue'[k], op, d) =>
          Has(queue[k], op, d) \/ (k = Chosen /\ d = c)
    <3>1. CASE UNCHANGED queue
      BY <3>1
    <3>2. CASE QueueInLoop(Chosen, F("established", c))
      <4>1. F("established", c) \in Functor
        BY FunctorType DEF Ops
      <4>2. Gains(Chosen, F("established", c))
        BY <4>1, <3>2, <2>1, <1>t, Gaining DEF QueueInLoop, Enqueue
      <4> QED
        BY <4>2, <1>f DEF Gains
    <3> QED
      BY <1>6, <3>1, <3>2 DEF HandleNewConnection
  <2>4. loopOf'[c] = Chosen /\ Chosen # None /\ \A d \in Conns \ {c} : loopOf'[d] = loopOf[d]
    BY <2>1, <2>2, <1>t, ServerAssumption DEF TypeOK
  <2>5. \A k \in Loops, op \in Ops, d \in Conns : Has(queue'[k], op, d) => loopOf'[d] = k
    BY <2>1, <2>3, <2>4, ServerAssumption DEF PlaceInv
  <2>6. \A t \in Threads : call[t] # Idle =>
          call[t].op \in {"send", "shutdown", "forceClose"} /\ loopOf'[call[t].conn] # None
    BY <2>4, <1>t, OnALoop, ServerAssumption DEF PlaceInv
  <2> QED
    BY <2>1, <2>2, <2>4, <2>5, <2>6 DEF PlaceInv
<1>7. ASSUME NEW c \in Conns, HandleWrite(c) PROVE PlaceInv'
  BY <1>7, <1>a, <1>c, <1>d DEF HandleWrite
<1>8. ASSUME NEW c \in Conns, HandleEof(c) PROVE PlaceInv'
  <2>1. loopOf[c] \in Loops
    BY <1>8, <1>t, OnALoop DEF HandleEof, Ready
  <2>2. F("destroyed", c) \in Functor /\ Gains(loopOf[c], F("destroyed", c))
    BY <1>8, <2>1, <1>t, CloseGains, FunctorType DEF HandleEof, Ops
  <2> QED
    BY <1>8, <2>1, <2>2, <1>a, <1>c, <1>f, <1>g DEF HandleEof
<1>9. ASSUME NEW c \in Conns, NEW d \in Conns, MessageSends(c, d) PROVE PlaceInv'
  BY <1>9, <1>a, <1>c, <1>d DEF MessageSends
<1>10. ASSUME NEW c \in Conns, NEW d \in Conns, MessageShutsDown(c, d) PROVE PlaceInv'
  <2>1. Steady
    BY <1>10, <1>t, <1>b DEF MessageShutsDown, TypeOK
  <2> QED
    BY <1>10, <2>1, <1>a, <1>d DEF MessageShutsDown
<1>11. ASSUME NEW c \in Conns, NEW d \in Conns, MessageForceCloses(c, d) PROVE PlaceInv'
  <2>1. loopOf[d] \in Loops
    BY <1>11, <1>t, OnALoop DEF MessageForceCloses
  <2>2. Steady
    BY <1>11, <1>t, <1>b DEF MessageForceCloses, TypeOK
  <2>3. CASE HandleClose(loopOf[d], d, queue[loopOf[d]])
    <3>1. F("destroyed", d) \in Functor /\ Gains(loopOf[d], F("destroyed", d))
      BY <2>1, <2>3, <1>t, CloseGains, FunctorType DEF Ops
    <3> QED
      BY <1>11, <2>1, <2>2, <3>1, <1>a, <1>f, <1>g DEF MessageForceCloses
  <2>4. CASE queue' = queue
    BY <1>11, <2>2, <2>4, <1>a, <1>d DEF MessageForceCloses
  <2> QED
    BY <1>11, <2>3, <2>4 DEF MessageForceCloses
<1>12. ASSUME NEW t \in Threads, Queued(t) PROVE PlaceInv'
  <2>1. call[t] \in Functor /\ loopOf[call[t].conn] \in Loops
    BY <1>12, <1>t, OnALoop DEF Queued
  <2>2. Gains(loopOf[call[t].conn], call[t])
    BY <1>12, <1>t, <2>1, Gaining DEF Queued, QueueInLoop, Enqueue
  <2>3. Shrinks
    BY <2>1, <2>2, <1>g
  <2> QED
    BY <1>12, <2>3, <1>t DEF Queued, PlaceInv, TypeOK, Shrinks
<1>13. ASSUME NEW t \in Threads, NEW c \in Conns, Send(t, c) PROVE PlaceInv'
  <2>1. loopOf[c] # None
    BY <1>13, <1>t, OnALoop, ServerAssumption DEF Send, Holds
  <2> QED
    BY <1>13, <2>1, <1>t DEF Send, PlaceInv, TypeOK
<1>14. ASSUME NEW t \in Threads, NEW c \in Conns, Shutdown(t, c) PROVE PlaceInv'
  <2>1. loopOf[c] # None
    BY <1>14, <1>t, OnALoop, ServerAssumption DEF Shutdown, Holds
  <2> QED
    BY <1>14, <2>1, <1>t, <1>f DEF Shutdown, PlaceInv, TypeOK
<1>15. ASSUME NEW t \in Threads, NEW c \in Conns, ForceClose(t, c) PROVE PlaceInv'
  <2>1. loopOf[c] # None /\ state[c] # "none"
    BY <1>15, <1>t, OnALoop, ServerAssumption DEF ForceClose, Holds
  <2> QED
    BY <1>15, <2>1, <1>t, <1>f DEF ForceClose, PlaceInv, TypeOK
<1>16. ASSUME NEW c \in Conns, NEW how \in {"closed", "reset"}, PeerEnds(c, how) PROVE PlaceInv'
  BY <1>16, <1>a, <1>c, <1>d DEF PeerEnds
<1>17. CASE UNCHANGED vars
  BY <1>17, <1>a, <1>c, <1>d DEF vars
<1> QED
  BY <1>1, <1>2, <1>3, <1>4, <1>5, <1>6, <1>7, <1>8, <1>9, <1>10, <1>11, <1>12, <1>13, <1>14, <1>15,
     <1>16, <1>17 DEF Next, RunFunctor

LEMMA LifeNext == TypeOK /\ PlaceInv /\ LifeInv /\ DrainInv /\ [Next]_vars => LifeInv'
<1> SUFFICES ASSUME TypeOK, PlaceInv, LifeInv, DrainInv, [Next]_vars,
                    NEW d \in Conns
             PROVE  Starting(d)' /\ Closing(d)'
  BY DEF LifeInv
<1> DEFINE Goal == Starting(d)' /\ Closing(d)'
<1>t. TypeOK /\ Starting(d) /\ Closing(d)
  BY DEF LifeInv
<1> USE DEF poolVars, pollVars, dataVars, userVars, cbVars
<1>a. SameFunctors(d) /\ SameHome(d) /\ (Untouched(d) \/ Running(d)) => Goal
  BY <1>t, Keeps
<1>b. queue' = queue => SameFunctors(d)
  BY DEF SameFunctors
<1>c. ASSUME NEW l \in Loops, NEW op \in Ops, NextIs(l, op), Dequeue(l),
             op \notin {"established", "destroyed"} \/ Head(queue[l]).conn # d
      PROVE  SameFunctors(d)
  <2>1. Loses(l, Head(queue[l])) /\ Head(queue[l]).op = op
    BY <1>c, <1>t, RunLoses, HeadHas
  <2> QED
    BY <1>c, <2>1 DEF Loses, SameFunctors, Ops
<1>e. ASSUME NEW c \in Conns, NEW m, SendEffect(c, m)
      PROVE  /\ index'[d] = index[d] \/ (state[d] = "kConnected" /\ index'[d] # "kNew")
  BY <1>e DEF SendEffect
<1> HIDE DEF Goal
<1>1. ASSUME NEW l \in Loops, RunEstablished(l) PROVE Goal
  <2> DEFINE c == Head(queue[l]).conn
  <2>1. c \in Conns /\ Has(queue[l], "established", c) /\ loopOf[c] = l /\ Head(queue[l]).op = "established"
        /\ Loses(l, Head(queue[l]))
    BY <1>1, <1>t, HeadHas, RunLoses DEF RunEstablished, Ops
  <2>2. /\ state' = [state EXCEPT ![c] = "kConnected"]
        /\ UpdateChannel(c, events[c] \cup {"read"})
        /\ up' = [up EXCEPT ![c] = @ + 1]
        /\ UNCHANGED <<fin, closeRequested, loopOf, connections>>
    BY <1>1 DEF RunEstablished, Established
  <2>3. CASE c = d
    <3>1. /\ state[d] = "kConnecting" /\ ~closeRequested[d] /\ d \in connections
          /\ AtMostOne(queue[l], "established", d)
      BY <1>t, <2>1, <2>3 DEF Starting, Closing
    <3>2. /\ \A k \in Loops : ~Has(queue'[k], "established", d) /\ AtMostOne(queue'[k], "established", d)
          /\ \A k \in Loops : /\ Has(queue'[k], "destroyed", d) => Has(queue[k], "destroyed", d)
                              /\ AtMostOne(queue'[k], "destroyed", d)
      BY <1>t, <2>1, <2>3 DEF Loses, Starting, Closing, PlaceInv, Ops
    <3>3. state'[d] = "kConnected" /\ index'[d] # "kNew" /\ ~closeRequested'[d] /\ d \in connections'
      BY <1>t, <2>2, <2>3, <3>1 DEF UpdateChannel, TypeOK
    <3> QED
      BY <1>t, <3>1, <3>2, <3>3 DEF Goal, Starting, Closing
  <2>4. CASE c # d
    <3>1. SameFunctors(d)
      BY <1>1, <1>c, <2>4 DEF RunEstablished, Ops
    <3>2. SameHome(d) /\ Untouched(d)
      BY <2>1, <2>2, <2>4, <1>t DEF SameHome, Untouched, UpdateChannel, TypeOK
    <3> QED
      BY <3>1, <3>2, <1>a
  <2> QED
    BY <2>3, <2>4
<1>2. ASSUME NEW l \in Loops, RunSend(l) PROVE Goal
  <2> DEFINE c == Head(queue[l]).conn
             m == Head(queue[l]).msg
  <2>1. c \in Conns /\ m \in Message
    BY <1>2, <1>t, HeadHas DEF RunSend, Ops
  <2>2. SendEffect(c, m)
    BY <1>2, <2>1, <1>t, SendDoes DEF RunSend
  <2>3. index'[d] = index[d] \/ (state[d] = "kConnected" /\ index'[d] # "kNew")
    BY <2>1, <2>2, <1>e
  <2>4. SameFunctors(d)
    BY <1>2, <1>c DEF RunSend, Ops
  <2>5. SameHome(d) /\ (Untouched(d) \/ Running(d))
    BY <1>2, <2>3, <1>t DEF RunSend, SameHome, Untouched, Running, Closing
  <2> QED
    BY <2>4, <2>5, <1>a
<1>3. ASSUME NEW l \in Loops, RunShutdown(l) PROVE Goal
  <2>0. Head(queue[l]).conn \in Conns /\ Has(queue[l], "shutdown", Head(queue[l]).conn)
    BY <1>3, <1>t, HeadHas DEF RunShutdown, Ops
  <2>1. PICK c \in Conns : c = Head(queue[l]).conn /\ Has(queue[l], "shutdown", c)
    BY <2>0
  <2>2. Ending(c)
    BY <2>1 DEF DrainInv
  <2>3. SameHome(d) /\ (Untouched(d) \/ Running(d))
    BY <1>3, <2>1, <2>2, <1>t DEF RunShutdown, ShutdownInLoop, SameHome, Untouched, Running, Ending, TypeOK
  <2> QED
    BY <1>3, <2>3, <1>a, <1>c DEF RunShutdown, Ops
<1>4. ASSUME NEW l \in Loops, RunForceClose(l) PROVE Goal
  <2> DEFINE c == Head(queue[l]).conn
  <2>1. c \in Conns /\ queue[l] # <<>> /\ Head(queue[l]).op = "forceClose" /\ loopOf[c] = l
        /\ Tail(queue[l]) \in Seq(Functor)
    BY <1>4, <1>t, HeadHas, HeadType DEF RunForceClose, Ops
  <2>2. CASE HandleClose(l, c, Tail(queue[l]))
    <3>1. Closable(c) /\ state' = state /\ state[c] \in {"kConnected", "kDisconnecting"}
      BY <1>4, <2>2 DEF RunForceClose, HandleClose, Closable
    <3>2. /\ closeRequested' = [closeRequested EXCEPT ![c] = TRUE]
          /\ index'[c] # "kNew" /\ \A e \in Conns \ {c} : index'[e] = index[e]
          /\ connections' = connections \ {c}
      BY <2>1, <2>2, <1>t, CloseDoes
    <3>3. \A k \in Loops, op \in {"established", "destroyed"}, e \in Conns :
            /\ Has(queue'[k], op, e) <=>
                 Has(queue[k], op, e) \/ (k = loopOf[c] /\ op = "destroyed" /\ e = c)
            /\ AtMostOne(queue[k], op, e)
                 /\ (k = loopOf[c] /\ op = "destroyed" /\ e = c => ~Has(queue[k], op, e))
               => AtMostOne(queue'[k], op, e)
      <4>1. \A k \in Loops, op \in Ops \ {"forceClose"}, e \in Conns :
              /\ Has(queue'[k], op, e) <=>
                   Has(queue[k], op, e) \/ (k = l /\ op = "destroyed" /\ e = c)
              /\ AtMostOne(queue[k], op, e)
                   /\ (k = l /\ op = "destroyed" /\ e = c => ~Has(queue[k], op, e))
                 => AtMostOne(queue'[k], op, e)
        BY <2>1, <2>2, <1>t, CloseInstead
      <4> QED
        BY <2>1, <4>1 DEF Ops
    <3>4. loopOf' = loopOf /\ fin' = fin /\ up' = up
      BY <1>4 DEF RunForceClose
    <3> QED
      BY <2>1, <3>1, <3>2, <3>3, <3>4, <1>t, Closes DEF Goal
  <2>3. CASE Dequeue(l) /\ UNCHANGED <<closeRequested, pollVars, connections>>
    <3>1. SameFunctors(d)
      BY <1>4, <2>3, <1>c DEF RunForceClose, Ops
    <3>2. SameHome(d) /\ Untouched(d)
      BY <1>4, <2>3 DEF RunForceClose, SameHome, Untouched
    <3> QED
      BY <3>1, <3>2, <1>a
  <2> QED
    BY <1>4, <2>2, <2>3 DEF RunForceClose
<1>5. ASSUME NEW l \in Loops, RunDestroyed(l) PROVE Goal
  <2> DEFINE c == Head(queue[l]).conn
  <2>1. c \in Conns /\ Has(queue[l], "destroyed", c) /\ loopOf[c] = l /\ Head(queue[l]).op = "destroyed"
        /\ Loses(l, Head(queue[l]))
    BY <1>5, <1>t, HeadHas, RunLoses DEF RunDestroyed, Ops
  <2>2. /\ state' = IF StillOpen(c) THEN [state EXCEPT ![c] = "kDisconnected"] ELSE state
        /\ index' = [index EXCEPT ![c] = "kNew"]
        /\ UNCHANGED <<closeRequested, loopOf, connections, fin, up>>
    BY <1>5 DEF RunDestroyed, RemoveChannel
  <2>3. CASE c = d
    <3>1. closeRequested[d] /\ d \notin connections /\ state[d] \notin {"none", "kConnecting"}
          /\ AtMostOne(queue[l], "destroyed", d)
      BY <1>t, <2>1, <2>3 DEF Starting, Closing
    <3>2. \A k \in Loops :
            /\ ~Has(queue'[k], "destroyed", d) /\ AtMostOne(queue'[k], "destroyed", d)
            /\ Has(queue'[k], "established", d) => Has(queue[k], "established", d)
            /\ AtMostOne(queue'[k], "established", d)
      BY <1>t, <2>1, <2>3 DEF Loses, Starting, Closing, PlaceInv, Ops
    <3>3. index'[d] = "kNew" /\ state'[d] \notin {"none", "kConnecting", "kConnected"}
      BY <1>t, <2>2, <2>3, <3>1 DEF StillOpen, TypeOK
    <3>4. closeRequested'[d] /\ d \notin connections'
      BY <2>2, <3>1
    <3>5. Starting(d)'
      BY <1>t, <3>1, <3>2, <3>3 DEF Starting
    <3>6. Closing(d)'
      BY <3>2, <3>3, <3>4 DEF Closing
    <3> QED
      BY <3>5, <3>6 DEF Goal
  <2>4. CASE c # d
    <3>1. SameFunctors(d)
      BY <1>5, <1>c, <2>4 DEF RunDestroyed, Ops
    <3>2. SameHome(d) /\ Untouched(d)
      BY <2>1, <2>2, <2>4, <1>t DEF SameHome, Untouched, TypeOK
    <3> QED
      BY <3>1, <3>2, <1>a
  <2> QED
    BY <2>3, <2>4
<1>6. ASSUME NEW c \in Conns, HandleNewConnection(c) PROVE Goal
  <2>1. Chosen \in Loops /\ state[c] = "none" /\ loopOf[c] = None
    BY <1>6, ChosenType DEF HandleNewConnection, PlaceInv
  <2>2. /\ connections' = connections \cup {c} /\ loopOf' = [loopOf EXCEPT ![c] = Chosen]
        /\ UNCHANGED <<closeRequested, fin>>
    BY <1>6 DEF HandleNewConnection
  <2>3. CASE Established(c) /\ UNCHANGED queue
    <3>1. /\ state' = [state EXCEPT ![c] = "kConnected"]
          /\ UpdateChannel(c, events[c] \cup {"read"})
          /\ up' = [up EXCEPT ![c] = @ + 1]
      BY <2>3 DEF Established
    <3>2. CASE c = d
      <4>1. state'[d] = "kConnected" /\ index'[d] # "kNew" /\ d \in connections' /\ ~closeRequested'[d]
        BY <1>t, <2>1, <2>2, <3>1, <3>2 DEF UpdateChannel, TypeOK, Starting
      <4>2. \A k \in Loops : ~Has(queue[k], "established", d) /\ ~Has(queue[k], "destroyed", d)
        BY <1>t, <2>1, <3>2 DEF Starting, Closing
      <4> QED
        BY <1>t, <2>3, <4>1, <4>2 DEF Goal, Starting, Closing
    <3>3. CASE c # d
      <4>1. SameHome(d) /\ Untouched(d)
        BY <2>1, <2>2, <3>1, <3>3, <1>t DEF SameHome, Untouched, UpdateChannel, TypeOK
      <4> QED
        BY <4>1, <2>3, <1>a, <1>b
    <3> QED
      BY <3>2, <3>3
  <2>4. CASE /\ state' = [state EXCEPT ![c] = "kConnecting"]
             /\ QueueInLoop(Chosen, F("established", c))
             /\ UNCHANGED <<pollVars, up>>
    <3>1. F("established", c) \in Functor /\ F("established", c).op = "established"
          /\ F("established", c).conn = c
      BY FunctorType DEF Ops, F
    <3>2. Gains(Chosen, F("established", c))
      BY <3>1, <2>1, <2>4, <1>t, Gaining DEF QueueInLoop, Enqueue
    <3>3. CASE c = d
      <4>1. state'[d] = "kConnecting" /\ d \in connections'
        BY <1>t, <2>2, <2>4, <3>3 DEF TypeOK
      <4>2. \A k \in Loops : ~Has(queue[k], "established", d) /\ ~Has(queue[k], "destroyed", d)
        BY <1>t, <2>1, <3>3 DEF Starting, Closing
      <4>3. \A k \in Loops : /\ ~Has(queue'[k], "destroyed", d) /\ AtMostOne(queue'[k], "destroyed", d)
                            /\ AtMostOne(queue'[k], "established", d)
        BY <1>t, <3>1, <3>2, <4>2 DEF Gains, Starting, Closing, Ops
      <4>4. index[d] = "kNew" /\ ~closeRequested[d] /\ ~fin[d] /\ up[d] = 0
        BY <1>t, <2>1, <3>3 DEF Starting
      <4> QED
        BY <2>2, <2>4, <4>1, <4>3, <4>4 DEF Goal, Starting, Closing
    <3>4. CASE c # d
      <4>1. SameHome(d) /\ Untouched(d)
        BY <2>1, <2>2, <2>4, <3>4, <1>t DEF SameHome, Untouched, TypeOK
      <4>2. SameFunctors(d)
        BY <3>1, <3>2, <3>4 DEF Gains, SameFunctors, Ops
      <4> QED
        BY <4>1, <4>2, <1>a
    <3> QED
      BY <3>3, <3>4
  <2> QED
    BY <1>6, <2>3, <2>4 DEF HandleNewConnection
<1>7. ASSUME NEW c \in Conns, HandleWrite(c) PROVE Goal
  <2>1. state[c] \notin {"none", "kConnecting"} /\ index[c] = "kAdded"
    BY <1>7, <1>t, OnALoop DEF HandleWrite, Ready
  <2>2. /\ \A e \in Conns \ {c} : index'[e] = index[e] /\ fin'[e] = fin[e]
        /\ index'[c] # "kNew"
    <3>1. CASE \E i : UpdateChannel(c, i) /\ fin' = [fin EXCEPT ![c] = @ \/ FinDue(c)]
      BY <3>1, <1>t DEF UpdateChannel, TypeOK
    <3>2. CASE UNCHANGED <<pollVars, fin>>
      BY <3>2, <2>1
    <3> QED
      BY <1>7, <3>1, <3>2 DEF HandleWrite
  <2>3. SameHome(d) /\ (Untouched(d) \/ Running(d))
    BY <1>7, <2>1, <2>2 DEF HandleWrite, SameHome, Untouched, Running
  <2>4. queue' = queue
    BY <1>7 DEF HandleWrite
  <2> QED
    BY <2>3, <2>4, <1>a, <1>b
<1>h. ASSUME NEW c \in Conns, HandleClose(loopOf[c], c, queue[loopOf[c]]),
             UNCHANGED <<loopOf, fin, up>>, state'[c] \in {"kConnected", "kDisconnecting"},
             \A e \in Conns \ {c} : state'[e] = state[e]
      PROVE  Goal
  <2>1. Closable(c) /\ loopOf[c] \in Loops
    BY <1>h, <1>t, OnALoop DEF HandleClose, Closable
  <2>2. queue[loopOf[c]] \in Seq(Functor)
    BY <2>1, <1>t DEF TypeOK
  <2>3. /\ closeRequested' = [closeRequested EXCEPT ![c] = TRUE]
        /\ index'[c] # "kNew" /\ \A e \in Conns \ {c} : index'[e] = index[e]
        /\ connections' = connections \ {c}
    BY <1>h, <2>1, <2>2, <1>t, CloseDoes
  <2>4. Gains(loopOf[c], F("destroyed", c)) /\ F("destroyed", c).op = "destroyed" /\ F("destroyed", c).conn = c
    BY <1>h, <2>1, <1>t, CloseGains DEF F
  <2>5. \A k \in Loops, op \in {"established", "destroyed"}, e \in Conns :
          /\ Has(queue'[k], op, e) <=>
               Has(queue[k], op, e) \/ (k = loopOf[c] /\ op = "destroyed" /\ e = c)
          /\ AtMostOne(queue[k], op, e)
               /\ (k = loopOf[c] /\ op = "destroyed" /\ e = c => ~Has(queue[k], op, e))
             => AtMostOne(queue'[k], op, e)
    BY <2>4 DEF Gains, Ops
  <2> QED
    BY <1>h, <2>1, <2>3, <2>5, <1>t, Closes DEF Goal
<1>8. ASSUME NEW c \in Conns, HandleEof(c) PROVE Goal
  <2>1. HandleClose(loopOf[c], c, queue[loopOf[c]]) /\ UNCHANGED <<loopOf, state, fin, up>>
    BY <1>8 DEF HandleEof
  <2>2. state[c] \in {"kConnected", "kDisconnecting"}
    BY <2>1 DEF HandleClose, Closable
  <2> QED
    BY <2>1, <2>2, <1>h
<1>9. ASSUME NEW b \in Conns, NEW c \in Conns, MessageSends(b, c) PROVE Goal
  <2>1. loopOf[b] \in Senders
    BY <1>9, <1>t, OnALoop DEF MessageSends, Ready, Senders
  <2>2. NextMessage(loopOf[b]) \in Message
    BY <2>1, <1>t, NextMessageType
  <2>3. SendEffect(c, NextMessage(loopOf[b]))
    BY <1>9, <1>t, <2>2, SendDoes DEF MessageSends
  <2>4. index'[d] = index[d] \/ (state[d] = "kConnected" /\ index'[d] # "kNew")
    BY <2>3, <1>e
  <2>5. SameHome(d) /\ (Untouched(d) \/ Running(d))
    BY <1>9, <2>4, <1>t DEF MessageSends, SameHome, Untouched, Running, Closing
  <2> QED
    BY <1>9, <2>5, <1>a, <1>b DEF MessageSends
<1>10. ASSUME NEW b \in Conns, NEW c \in Conns, MessageShutsDown(b, c) PROVE Goal
  <2>1. SameHome(d) /\ (Untouched(d) \/ Running(d))
    BY <1>10, <1>t DEF MessageShutsDown, ShutdownInLoop, SameHome, Untouched, Running, TypeOK
  <2> QED
    BY <1>10, <2>1, <1>a, <1>b DEF MessageShutsDown
<1>11. ASSUME NEW b \in Conns, NEW c \in Conns, MessageForceCloses(b, c) PROVE Goal
  <2>1. /\ state[c] \in {"kConnected", "kDisconnecting"} /\ state'[c] = "kDisconnecting"
        /\ \A e \in Conns \ {c} : state'[e] = state[e]
        /\ UNCHANGED <<loopOf, fin, up>>
    BY <1>11, <1>t DEF MessageForceCloses, TypeOK
  <2>2. CASE HandleClose(loopOf[c], c, queue[loopOf[c]])
    BY <2>1, <2>2, <1>h
  <2>3. CASE UNCHANGED <<closeRequested, pollVars, connections, queue>>
    <3>1. SameHome(d) /\ (Untouched(d) \/ Running(d))
      BY <2>1, <2>3 DEF SameHome, Untouched, Running
    <3> QED
      BY <2>3, <3>1, <1>a, <1>b
  <2> QED
    BY <1>11, <2>2, <2>3 DEF MessageForceCloses
<1>12. ASSUME NEW t \in Threads, Queued(t) PROVE Goal
  <2>1. call[t] \in Functor /\ loopOf[call[t].conn] \in Loops
        /\ call[t].op \in {"send", "shutdown", "forceClose"}
    BY <1>12, <1>t, OnALoop DEF Queued
  <2>2. Gains(loopOf[call[t].conn], call[t])
    BY <1>12, <1>t, <2>1, Gaining DEF Queued, QueueInLoop, Enqueue
  <2>3. SameFunctors(d)
    BY <2>1, <2>2 DEF Gains, SameFunctors, Ops
  <2>4. SameHome(d) /\ Untouched(d)
    BY <1>12 DEF Queued, SameHome, Untouched
  <2> QED
    BY <2>3, <2>4, <1>a
<1>13. ASSUME NEW t \in Threads, NEW c \in Conns, Send(t, c) PROVE Goal
  <2>1. SameHome(d) /\ Untouched(d)
    BY <1>13 DEF Send, SameHome, Untouched
  <2> QED
    BY <1>13, <2>1, <1>a, <1>b DEF Send
<1>14. ASSUME NEW t \in Threads, NEW c \in Conns, Shutdown(t, c) PROVE Goal
  <2>1. SameHome(d) /\ (Untouched(d) \/ Running(d))
    BY <1>14, <1>t DEF Shutdown, SameHome, Untouched, Running, TypeOK
  <2> QED
    BY <1>14, <2>1, <1>a, <1>b DEF Shutdown
<1>15. ASSUME NEW t \in Threads, NEW c \in Conns, ForceClose(t, c) PROVE Goal
  <2>1. state[c] \notin {"none", "kConnecting"}
    BY <1>15, <1>t, OnALoop DEF ForceClose, Holds
  <2>2. SameHome(d) /\ (Untouched(d) \/ Running(d))
    BY <1>15, <2>1, <1>t DEF ForceClose, SameHome, Untouched, Running, TypeOK
  <2> QED
    BY <1>15, <2>2, <1>a, <1>b DEF ForceClose
<1>16. ASSUME NEW c \in Conns, NEW how \in {"closed", "reset"}, PeerEnds(c, how) PROVE Goal
  <2>1. SameHome(d) /\ Untouched(d)
    BY <1>16 DEF PeerEnds, SameHome, Untouched
  <2> QED
    BY <1>16, <2>1, <1>a, <1>b DEF PeerEnds
<1>17. CASE UNCHANGED vars
  <2>1. SameHome(d) /\ Untouched(d)
    BY <1>17 DEF vars, SameHome, Untouched
  <2>2. queue' = queue
    BY <1>17 DEF vars
  <2> QED
    BY <2>1, <2>2, <1>a, <1>b DEF Goal
<1> QED
  BY <1>1, <1>2, <1>3, <1>4, <1>5, <1>6, <1>7, <1>8, <1>9, <1>10, <1>11, <1>12, <1>13, <1>14, <1>15,
     <1>16, <1>17 DEF Next, RunFunctor, Goal

-----------------------------------------------------------------------------
(* Nothing that has ended starts again, so what is known of the functors   *)
(* and calls of a shutdown stays true.                                     *)
LEMMA EndsForGood ==
  TypeOK /\ PlaceInv /\ LifeInv /\ [Next]_vars => \A c \in Conns : Ending(c) => Ending(c)'
<1> SUFFICES ASSUME TypeOK, PlaceInv, LifeInv, [Next]_vars, NEW d \in Conns, Ending(d)
             PROVE  Ending(d)'
  OBVIOUS
<1>t. TypeOK /\ Starting(d) /\ state \in [Conns -> {"none", "kConnecting", "kConnected",
                                                   "kDisconnecting", "kDisconnected"}]
  BY DEF TypeOK, LifeInv
<1> USE DEF Ending
<1>0. state' = state => Ending(d)'
  OBVIOUS
<1>1. ASSUME NEW l \in Loops, RunEstablished(l) PROVE Ending(d)'
  <2>1. Head(queue[l]).conn \in Conns /\ Has(queue[l], "established", Head(queue[l]).conn)
    BY <1>1, <1>t, HeadHas DEF RunEstablished, Ops
  <2>2. state[Head(queue[l]).conn] = "kConnecting"
    BY <2>1 DEF LifeInv, Starting
  <2>3. state' = [state EXCEPT ![Head(queue[l]).conn] = "kConnected"]
    BY <1>1 DEF RunEstablished, Established
  <2> QED
    BY <2>1, <2>2, <2>3, <1>t
<1>2. ASSUME NEW l \in Loops, RunDestroyed(l) PROVE Ending(d)'
  <2>1. Head(queue[l]).conn \in Conns
    BY <1>2, <1>t, HeadHas DEF RunDestroyed, Ops
  <2> QED
    BY <1>2, <2>1, <1>t DEF RunDestroyed, StillOpen
<1>3. ASSUME NEW c \in Conns, HandleNewConnection(c) PROVE Ending(d)'
  <2>1. c # d /\ state'[d] = state[d]
    BY <1>3, <1>t DEF HandleNewConnection, Established
  <2> QED
    BY <2>1
<1>4. ASSUME NEW b \in Conns, NEW c \in Conns,
             MessageShutsDown(b, c) \/ MessageForceCloses(b, c)
      PROVE  Ending(d)'
  BY <1>4, <1>t DEF MessageShutsDown, MessageForceCloses
<1>5. ASSUME NEW t \in Threads, NEW c \in Conns, Shutdown(t, c) \/ ForceClose(t, c)
      PROVE  Ending(d)'
  BY <1>5, <1>t DEF Shutdown, ForceClose
<1>6. ASSUME NEW l \in Loops, RunSend(l) \/ RunShutdown(l) \/ RunForceClose(l) PROVE Ending(d)'
  BY <1>6, <1>0 DEF RunSend, RunShutdown, RunForceClose
<1>7. ASSUME NEW c \in Conns, HandleWrite(c) \/ HandleEof(c) PROVE Ending(d)'
  BY <1>7, <1>0 DEF HandleWrite, HandleEof
<1>8. ASSUME NEW b \in Conns, NEW c \in Conns, MessageSends(b, c) PROVE Ending(d)'
  BY <1>8, <1>0 DEF MessageSends
<1>9. ASSUME NEW t \in Threads, NEW c \in Conns, Queued(t) \/ Send(t, c) PROVE Ending(d)'
  BY <1>9, <1>0 DEF Queued, Send
<1>10. ASSUME NEW c \in Conns, NEW how \in {"closed", "reset"}, PeerEnds(c, how) PROVE Ending(d)'
  BY <1>10, <1>0 DEF PeerEnds
<1>11. CASE UNCHANGED vars
  BY <1>11, <1>0 DEF vars
<1> QED
  BY <1>1, <1>2, <1>3, <1>4, <1>5, <1>6, <1>7, <1>8, <1>9, <1>10, <1>11 DEF Next, RunFunctor

Draining(d) ==
  /\ outputBuffer[d] # <<>> /\ ~closeRequested[d] => IsWriting(d)
  /\ fin[d] => Ending(d)
  /\ fin[d] /\ ~closeRequested[d] => outputBuffer[d] = <<>>

LEMMA DrainingNext ==
  ASSUME TypeOK, PlaceInv, LifeInv, DrainInv, FinAfterDrain, [Next]_vars, NEW d \in Conns
  PROVE  Draining(d)'
<1>t. /\ TypeOK /\ Starting(d) /\ Closing(d) /\ Draining(d)
      /\ Ending(d) => Ending(d)'
  BY EndsForGood DEF LifeInv, DrainInv, FinAfterDrain, Draining
<1> USE DEF poolVars, pollVars, dataVars, userVars, cbVars
<1>a. /\ outputBuffer'[d] = outputBuffer[d] /\ fin'[d] = fin[d] /\ (closeRequested[d] => closeRequested'[d])
      /\ closeRequested'[d] \/ (IsWriting(d) => "write" \in events'[d])
      => Draining(d)'
  BY <1>t DEF Draining, IsWriting
<1>b. ASSUME NEW c \in Conns, NEW m, SendEffect(c, m), fin' = fin, closeRequested' = closeRequested
      PROVE  Draining(d)'
  <2>1. CASE c # d
    BY <1>b, <2>1, <1>a DEF SendEffect, IsWriting
  <2>2. CASE c = d
    <3>1. /\ outputBuffer'[d] = outputBuffer[d] \/ state[d] = "kConnected"
          /\ (outputBuffer[d] = <<>> \/ IsWriting(d)) => (outputBuffer'[d] = <<>> \/ "write" \in events'[d])
      BY <1>b, <2>2 DEF SendEffect
    <3> QED
      BY <1>b, <3>1, <1>t DEF Draining, Ending, IsWriting
  <2> QED
    BY <2>1, <2>2
<1>c. ASSUME NEW l \in Loops, NEW c \in Conns, NEW q \in Seq(Functor), HandleClose(l, c, q),
             UNCHANGED <<outputBuffer, fin>>
      PROVE  Draining(d)'
  <2>1. /\ closeRequested' = [closeRequested EXCEPT ![c] = TRUE]
        /\ \A e \in Conns \ {c} : events'[e] = events[e]
    BY <1>c, <1>t, CloseDoes
  <2> QED
    BY <1>c, <2>1, <1>a, <1>t DEF TypeOK, IsWriting
<1>d. ASSUME UNCHANGED <<outputBuffer, fin, closeRequested, events>> PROVE Draining(d)'
  BY <1>d, <1>a DEF IsWriting
<1>e. ASSUME NEW c \in Conns, ShutdownInLoop(c), Ending(c)', UNCHANGED <<outputBuffer, closeRequested, events>>
      PROVE  Draining(d)'
  <2>1. fin' = [fin EXCEPT ![c] = fin[c] \/ ~IsWriting(c)]
    BY <1>e DEF ShutdownInLoop
  <2>2. CASE c # d
    BY <1>e, <2>1, <2>2, <1>a DEF IsWriting
  <2>3. CASE c = d
    BY <1>e, <2>1, <2>3, <1>t DEF Draining, IsWriting, TypeOK
  <2> QED
    BY <2>2, <2>3
<1>f. ASSUME NEW c \in Conns, UpdateChannel(c, events[c] \cup {"read"}),
             UNCHANGED <<outputBuffer, fin, closeRequested>>
      PROVE  Draining(d)'
  BY <1>f, <1>a, <1>t DEF UpdateChannel, IsWriting, TypeOK
<1>1. ASSUME NEW l \in Loops, RunEstablished(l) PROVE Draining(d)'
  <2>1. Head(queue[l]).conn \in Conns
    BY <1>1, <1>t, HeadHas DEF RunEstablished, Ops
  <2> QED
    BY <1>1, <2>1, <1>f DEF RunEstablished, Established
<1>2. ASSUME NEW l \in Loops, RunSend(l) PROVE Draining(d)'
  <2> DEFINE c == Head(queue[l]).conn
             m == Head(queue[l]).msg
  <2>1. c \in Conns /\ m \in Message
    BY <1>2, <1>t, HeadHas DEF RunSend, Ops
  <2>2. SendEffect(c, m)
    BY <1>2, <2>1, <1>t, SendDoes DEF RunSend
  <2>3. fin' = fin /\ closeRequested' = closeRequested
    BY <1>2 DEF RunSend
  <2> QED
    BY <2>1, <2>2, <2>3, <1>b
<1>3. ASSUME NEW l \in Loops, RunShutdown(l) PROVE Draining(d)'
  <2>0. Head(queue[l]).conn \in Conns /\ Has(queue[l], "shutdown", Head(queue[l]).conn)
    BY <1>3, <1>t, HeadHas DEF RunShutdown, Ops
  <2>1. PICK c \in Conns : c = Head(queue[l]).conn /\ Has(queue[l], "shutdown", c)
    BY <2>0
  <2>2. Ending(c)
    BY <2>1 DEF DrainInv
  <2>3. ShutdownInLoop(c) /\ UNCHANGED <<state, outputBuffer, closeRequested, events>>
    BY <1>3, <2>1 DEF RunShutdown
  <2>4. Ending(c)'
    BY <2>2, <2>3 DEF Ending
  <2> QED
    BY <2>1, <2>3, <2>4, <1>e
<1>4. ASSUME NEW l \in Loops, RunForceClose(l) PROVE Draining(d)'
  <2> DEFINE c == Head(queue[l]).conn
  <2>1. c \in Conns /\ Tail(queue[l]) \in Seq(Functor)
    BY <1>4, <1>t, HeadHas, HeadType DEF RunForceClose, Ops
  <2> QED
    BY <1>4, <2>1, <1>c, <1>d DEF RunForceClose
<1>5. ASSUME NEW l \in Loops, RunDestroyed(l) PROVE Draining(d)'
  <2> DEFINE c == Head(queue[l]).conn
  <2>1. c \in Conns /\ Has(queue[l], "destroyed", c)
    BY <1>5, <1>t, HeadHas DEF RunDestroyed, Ops
  <2>2. closeRequested[c]
    BY <2>1 DEF LifeInv, Closing
  <2>3. \A e \in Conns \ {c} : events'[e] = events[e]
    BY <1>5, <1>t DEF RunDestroyed, RemoveChannel, TypeOK
  <2>4. UNCHANGED <<outputBuffer, fin, closeRequested>>
    BY <1>5 DEF RunDestroyed
  <2> QED
    BY <2>1, <2>2, <2>3, <2>4, <1>a DEF IsWriting
<1>6. ASSUME NEW c \in Conns, HandleNewConnection(c) PROVE Draining(d)'
  <2>1. UNCHANGED <<outputBuffer, fin, closeRequested>>
    BY <1>6 DEF HandleNewConnection
  <2>2. CASE UpdateChannel(c, events[c] \cup {"read"})
    BY <2>1, <2>2, <1>f
  <2>3. CASE events' = events
    BY <2>1, <2>3, <1>d
  <2> QED
    BY <1>6, <2>2, <2>3 DEF HandleNewConnection, Established
<1>7. ASSUME NEW c \in Conns, HandleWrite(c) PROVE Draining(d)'
  <2> DEFINE q == outputBuffer[c]
  <2>1. PICK k \in Taken(c, q) \ {0} :
          LET rest == SubSeq(q, k + 1, Len(q)) IN
          /\ outputBuffer' = [outputBuffer EXCEPT ![c] = rest]
          /\ IF rest = <<>>
             THEN /\ UpdateChannel(c, events[c] \ {"write"})
                  /\ fin' = [fin EXCEPT ![c] = @ \/ FinDue(c)]
             ELSE UNCHANGED <<pollVars, fin>>
    BY <1>7 DEF HandleWrite
  <2>2. q \in Seq(Unit) /\ k \in 1 .. Len(q)
    <3>1. q \in Seq(Unit) /\ Len(q) \in Nat
      BY <1>t, LenProperties DEF TypeOK
    <3> QED
      BY <3>1 DEF Taken
  <2>3. q # <<>>
    BY <2>2, EmptySeq
  <2>4. closeRequested' = closeRequested /\ state' = state
    BY <1>7 DEF HandleWrite
  <2> DEFINE rest == SubSeq(q, k + 1, Len(q))
  <2>5. CASE c # d
    <3>1. outputBuffer'[d] = outputBuffer[d]
      BY <2>1, <2>5
    <3>2. fin'[d] = fin[d] /\ events'[d] = events[d]
      <4>1. CASE rest = <<>>
        BY <2>1, <2>5, <4>1, <1>t DEF UpdateChannel, TypeOK
      <4>2. CASE rest # <<>>
        BY <2>1, <4>2
      <4> QED
        BY <4>1, <4>2
    <3> QED
      BY <3>1, <3>2, <2>4, <1>a DEF IsWriting
  <2>6. CASE c = d
    <3>1. outputBuffer'[d] = rest
      BY <2>1, <2>6, <1>t DEF TypeOK
    <3>2. CASE rest = <<>>
      <4>1. fin'[d] <=> fin[d] \/ state[d] = "kDisconnecting"
        BY <2>1, <2>6, <3>2, <1>t DEF FinDue, TypeOK
      <4> QED
        BY <3>1, <3>2, <4>1, <2>4, <1>t DEF Draining, Ending
    <3>3. CASE rest # <<>>
      <4>1. UNCHANGED <<events, fin>>
        BY <2>1, <3>3
      <4>2. outputBuffer[d] # <<>>
        BY <2>3, <2>6
      <4> QED
        BY <3>1, <3>3, <4>1, <4>2, <2>4, <1>t DEF Draining, Ending, IsWriting
    <3> QED
      BY <3>2, <3>3
  <2> QED
    BY <2>5, <2>6
<1>8. ASSUME NEW c \in Conns, HandleEof(c) PROVE Draining(d)'
  <2>1. loopOf[c] \in Loops /\ queue[loopOf[c]] \in Seq(Functor)
    BY <1>8, <1>t, OnALoop DEF HandleEof, Ready, TypeOK
  <2> QED
    BY <1>8, <2>1, <1>c DEF HandleEof
<1>9. ASSUME NEW b \in Conns, NEW c \in Conns, MessageSends(b, c) PROVE Draining(d)'
  <2>1. loopOf[b] \in Senders
    BY <1>9, <1>t, OnALoop DEF MessageSends, Ready, Senders
  <2>2. NextMessage(loopOf[b]) \in Message
    BY <2>1, <1>t, NextMessageType
  <2>3. SendEffect(c, NextMessage(loopOf[b]))
    BY <1>9, <1>t, <2>2, SendDoes DEF MessageSends
  <2>4. fin' = fin /\ closeRequested' = closeRequested
    BY <1>9 DEF MessageSends
  <2> QED
    BY <2>3, <2>4, <1>b
<1>10. ASSUME NEW b \in Conns, NEW c \in Conns, MessageShutsDown(b, c) PROVE Draining(d)'
  <2>1. Ending(c)'
    BY <1>10, <1>t DEF MessageShutsDown, Ending, TypeOK
  <2> QED
    BY <1>10, <2>1, <1>e DEF MessageShutsDown
<1>11. ASSUME NEW b \in Conns, NEW c \in Conns, MessageForceCloses(b, c) PROVE Draining(d)'
  <2>1. loopOf[c] \in Loops /\ queue[loopOf[c]] \in Seq(Functor)
    BY <1>11, <1>t, OnALoop DEF MessageForceCloses, TypeOK
  <2> QED
    BY <1>11, <2>1, <1>c, <1>d DEF MessageForceCloses
<1>12. ASSUME NEW t \in Threads, NEW c \in Conns,
              Queued(t) \/ Send(t, c) \/ Shutdown(t, c) \/ ForceClose(t, c)
       PROVE  Draining(d)'
  BY <1>12, <1>d DEF Queued, Send, Shutdown, ForceClose
<1>13. ASSUME NEW c \in Conns, NEW how \in {"closed", "reset"}, PeerEnds(c, how) PROVE Draining(d)'
  BY <1>13, <1>d DEF PeerEnds
<1>14. CASE UNCHANGED vars
  BY <1>14, <1>d DEF vars
<1> QED
  BY <1>1, <1>2, <1>3, <1>4, <1>5, <1>6, <1>7, <1>8, <1>9, <1>10, <1>11, <1>12, <1>13, <1>14
  DEF Next, RunFunctor

(* A shutdown that is on its way ends the connection already.              *)
WillEnd(c) == state'[c] \in {"kDisconnecting", "kDisconnected"}

LEMMA ShutdownNext ==
  ASSUME TypeOK, PlaceInv, LifeInv, DrainInv, [Next]_vars
  PROVE  /\ \A l \in Loops, c \in Conns : Has(queue'[l], "shutdown", c) => WillEnd(c)
         /\ \A t \in Threads : call'[t].op = "shutdown" => WillEnd(call'[t].conn)
<1> DEFINE GoalQ == \A l \in Loops, c \in Conns : Has(queue'[l], "shutdown", c) => WillEnd(c)
           GoalC == \A t \in Threads : call'[t].op = "shutdown" => WillEnd(call'[t].conn)
<1>t. TypeOK /\ \A c \in Conns : Ending(c) => WillEnd(c)
  BY EndsForGood DEF WillEnd, Ending
<1> USE DEF poolVars, pollVars, dataVars, userVars, cbVars
<1>a. (\A l \in Loops, c \in Conns : Has(queue'[l], "shutdown", c) => Has(queue[l], "shutdown", c)) => GoalQ
  BY <1>t DEF DrainInv
<1>b. queue' = queue => GoalQ
  BY <1>a
<1>i. Idle.op # "shutdown"
  BY DEF Idle
<1>c. call' = call => GoalC
  <2> SUFFICES ASSUME call' = call, NEW t \in Threads, call[t].op = "shutdown"
               PROVE  WillEnd(call[t].conn)
    OBVIOUS
  <2>1. call[t] # Idle /\ Ending(call[t].conn)
    BY <1>i DEF DrainInv
  <2>2. call[t].conn \in Conns
    BY <2>1, <1>t, OnALoop
  <2> QED
    BY <2>1, <2>2, <1>t
<1>d. ASSUME NEW l \in Loops, NEW op \in Ops, NextIs(l, op), Dequeue(l) PROVE GoalQ
  BY <1>d, <1>a, <1>t, RunLoses DEF Loses, Ops
<1>e. ASSUME NEW l \in Loops, NEW f \in Functor, Gains(l, f), f.op # "shutdown" PROVE GoalQ
  BY <1>e, <1>a DEF Gains, Ops
<1>f. \A op \in Ops \ {"send"}, c \in Conns : F(op, c).op = op /\ F(op, c).conn = c /\ F(op, c) \in Functor
  BY FunctorType DEF F
<1>g. ASSUME NEW c \in Conns, loopOf[c] \in Loops, HandleClose(loopOf[c], c, queue[loopOf[c]]) PROVE GoalQ
  <2>1. Gains(loopOf[c], F("destroyed", c))
    BY <1>g, <1>t, CloseGains
  <2> QED
    BY <1>g, <2>1, <1>e, <1>f DEF Ops
<1> HIDE DEF GoalQ, GoalC
<1>1. ASSUME NEW l \in Loops, RunEstablished(l) \/ RunSend(l) \/ RunShutdown(l) \/ RunDestroyed(l)
      PROVE  GoalQ /\ GoalC
  BY <1>1, <1>c, <1>d DEF RunEstablished, RunSend, RunShutdown, RunDestroyed, Ops
<1>2. ASSUME NEW l \in Loops, RunForceClose(l) PROVE GoalQ /\ GoalC
  <2> DEFINE c == Head(queue[l]).conn
  <2>1. c \in Conns /\ queue[l] # <<>> /\ Head(queue[l]).op = "forceClose"
    BY <1>2, <1>t, HeadHas DEF RunForceClose, Ops
  <2>2. CASE HandleClose(l, c, Tail(queue[l]))
    <3>0. \A k \in Loops, op \in Ops \ {"forceClose"}, d \in Conns :
            Has(queue'[k], op, d) <=> Has(queue[k], op, d) \/ (k = l /\ op = "destroyed" /\ d = c)
      <4> HIDE DEF c
      <4> QED
        BY <2>1, <2>2, <1>t, CloseInstead
    <3>1. \A k \in Loops, d \in Conns : Has(queue'[k], "shutdown", d) => Has(queue[k], "shutdown", d)
      BY <3>0 DEF Ops
    <3> QED
      BY <1>2, <3>1, <1>a, <1>c DEF RunForceClose
  <2>3. CASE Dequeue(l)
    BY <1>2, <2>3, <1>c, <1>d DEF RunForceClose, Ops
  <2> QED
    BY <1>2, <2>2, <2>3 DEF RunForceClose
<1>3. ASSUME NEW c \in Conns, HandleNewConnection(c) PROVE GoalQ /\ GoalC
  <2>1. Chosen \in Loops
    BY ChosenType
  <2>2. CASE UNCHANGED queue
    BY <1>3, <2>2, <1>b, <1>c DEF HandleNewConnection
  <2>3. CASE QueueInLoop(Chosen, F("established", c))
    <3>1. Gains(Chosen, F("established", c))
      BY <2>1, <2>3, <1>t, <1>f, Gaining DEF QueueInLoop, Enqueue, Ops
    <3> QED
      BY <1>3, <2>1, <3>1, <1>c, <1>e, <1>f DEF HandleNewConnection, Ops
  <2> QED
    BY <1>3, <2>2, <2>3 DEF HandleNewConnection
<1>4. ASSUME NEW c \in Conns, HandleWrite(c) PROVE GoalQ /\ GoalC
  BY <1>4, <1>b, <1>c DEF HandleWrite
<1>5. ASSUME NEW c \in Conns, HandleEof(c) PROVE GoalQ /\ GoalC
  <2>1. loopOf[c] \in Loops
    BY <1>5, <1>t, OnALoop DEF HandleEof, Ready
  <2> QED
    BY <1>5, <2>1, <1>c, <1>g DEF HandleEof
<1>6. ASSUME NEW b \in Conns, NEW c \in Conns, MessageSends(b, c) \/ MessageShutsDown(b, c)
      PROVE  GoalQ /\ GoalC
  BY <1>6, <1>b, <1>c DEF MessageSends, MessageShutsDown
<1>7. ASSUME NEW b \in Conns, NEW c \in Conns, MessageForceCloses(b, c) PROVE GoalQ /\ GoalC
  <2>1. loopOf[c] \in Loops
    BY <1>7, <1>t, OnALoop DEF MessageForceCloses
  <2> QED
    BY <1>7, <2>1, <1>b, <1>c, <1>g DEF MessageForceCloses
<1>8. ASSUME NEW t \in Threads, Queued(t) PROVE GoalQ /\ GoalC
  <2>1. call[t] \in Functor /\ loopOf[call[t].conn] \in Loops
    BY <1>8, <1>t, OnALoop DEF Queued
  <2>2. Gains(loopOf[call[t].conn], call[t])
    BY <1>8, <1>t, <2>1, Gaining DEF Queued, QueueInLoop, Enqueue
  <2>3. \A c \in Conns : WillEnd(c) <=> Ending(c)
    BY <1>8 DEF Queued, Ending, WillEnd
  <2>4. GoalQ
    BY <2>1, <2>2, <2>3 DEF Gains, GoalQ, DrainInv, Ops
  <2>5. call' = [call EXCEPT ![t] = Idle] /\ state' = state
    BY <1>8 DEF Queued
  <2>6. GoalC
    BY <2>5, <1>t, <1>i DEF GoalC, DrainInv, Ending, WillEnd, TypeOK
  <2> QED
    BY <2>4, <2>6
<1>9. ASSUME NEW t \in Threads, NEW c \in Conns, Send(t, c) PROVE GoalQ /\ GoalC
  <2>1. /\ call' = [call EXCEPT ![t] = [op |-> "send", conn |-> c, msg |-> NextMessage(t)]]
        /\ state' = state /\ queue' = queue
    BY <1>9 DEF Send
  <2>2. GoalC
    BY <2>1, <1>t DEF GoalC, DrainInv, Ending, WillEnd, TypeOK
  <2> QED
    BY <2>1, <2>2, <1>b
<1>10. ASSUME NEW t \in Threads, NEW c \in Conns, Shutdown(t, c) \/ ForceClose(t, c) PROVE GoalQ /\ GoalC
  <2>1. PICK op \in {"shutdown", "forceClose"} : call' = [call EXCEPT ![t] = F(op, c)] /\ queue' = queue
                                                 /\ (op = "shutdown" => WillEnd(c))
    BY <1>10, <1>t DEF Shutdown, ForceClose, WillEnd, Ending, TypeOK
  <2>2. F(op, c).op = op /\ F(op, c).conn = c
    BY <1>f DEF Ops
  <2>3. ASSUME NEW u \in Threads, call'[u].op = "shutdown" PROVE WillEnd(call'[u].conn)
    <3>1. CASE u = t
      BY <2>1, <2>2, <2>3, <3>1, <1>t DEF TypeOK
    <3>2. CASE u # t
      <4>1. call'[u] = call[u]
        BY <2>1, <3>2, <1>t DEF TypeOK
      <4>2. Ending(call[u].conn) /\ call[u] # Idle
        BY <2>3, <4>1, <1>i DEF DrainInv
      <4> QED
        BY <4>1, <4>2, <1>t, OnALoop
    <3> QED
      BY <3>1, <3>2
  <2> QED
    BY <2>1, <2>3, <1>b DEF GoalC
<1>11. ASSUME NEW c \in Conns, NEW how \in {"closed", "reset"}, PeerEnds(c, how) PROVE GoalQ /\ GoalC
  BY <1>11, <1>b, <1>c DEF PeerEnds
<1>12. ASSUME UNCHANGED vars PROVE GoalQ /\ GoalC
  BY <1>12, <1>b, <1>c DEF vars
<1>13. GoalQ /\ GoalC
  BY <1>1, <1>2, <1>3, <1>4, <1>5, <1>6, <1>7, <1>8, <1>9, <1>10, <1>11, <1>12 DEF Next, RunFunctor
<1> QED
  BY <1>13 DEF GoalQ, GoalC

LEMMA DrainNext ==
  TypeOK /\ PlaceInv /\ LifeInv /\ DrainInv /\ FinAfterDrain /\ [Next]_vars
    => DrainInv' /\ FinAfterDrain'
<1> SUFFICES ASSUME TypeOK, PlaceInv, LifeInv, DrainInv, FinAfterDrain, [Next]_vars
             PROVE  DrainInv' /\ FinAfterDrain'
  OBVIOUS
<1>1. \A d \in Conns : Draining(d)'
  BY DrainingNext
<1>2. /\ \A l \in Loops, c \in Conns : Has(queue'[l], "shutdown", c) => WillEnd(c)
      /\ \A t \in Threads : call'[t].op = "shutdown" => WillEnd(call'[t].conn)
  BY ShutdownNext
<1> QED
  BY <1>1, <1>2 DEF Draining, DrainInv, FinAfterDrain, WillEnd, Ending, IsWriting

-----------------------------------------------------------------------------
(* The frames of a stream                                                  *)

LEMMA FramedFrame ==
  ASSUME NEW s \in Seq(Unit), NEW m \in Message, Framed(s)
  PROVE  Framed(s \o Frame(m))
<1> DEFINE r == s \o Frame(m)
           n == Len(s)
<1>1. n \in Nat /\ DOMAIN s = 1 .. n
  BY LenProperties
<1>2. Frame(m) \in Seq(Unit) /\ Len(Frame(m)) = 2
      /\ Frame(m)[1] = [msg |-> m, part |-> 1] /\ Frame(m)[2] = [msg |-> m, part |-> 2]
  BY FrameType
<1>3. /\ r \in Seq(Unit) /\ Len(r) = n + 2
      /\ \A i \in 1 .. n + 2 : r[i] = IF i <= n THEN s[i] ELSE Frame(m)[i - n]
  <2> DEFINE g == Frame(m)
  <2>1. g \in Seq(Unit) /\ Len(g) = 2
    BY <1>2
  <2> HIDE DEF g
  <2>2. /\ s \o g \in Seq(Unit) /\ Len(s \o g) = Len(s) + Len(g)
        /\ \A i \in 1 .. Len(s) + Len(g) : (s \o g)[i] = IF i <= Len(s) THEN s[i] ELSE g[i - Len(s)]
    BY <2>1, ConcatProperties
  <2> QED
    BY <2>1, <2>2 DEF g
<1>4. DOMAIN r = 1 .. n + 2
  BY <1>3, LenProperties
<1>5. /\ \A i \in 1 .. n : r[i] = s[i]
      /\ r[n + 1] = [msg |-> m, part |-> 1] /\ r[n + 2] = [msg |-> m, part |-> 2]
  BY <1>1, <1>2, <1>3
<1> HIDE DEF r, n
<1>6. ASSUME NEW i \in DOMAIN r
      PROVE  IF r[i].part = 1 THEN i + 1 \in DOMAIN r /\ r[i + 1] = [r[i] EXCEPT !.part = 2]
                              ELSE i > 1 /\ r[i - 1] = [r[i] EXCEPT !.part = 1]
  <2>1. CASE i \in 1 .. n
    <3>1. r[i] = s[i]
      BY <2>1, <1>5
    <3>2. IF s[i].part = 1 THEN i + 1 \in DOMAIN s /\ s[i + 1] = [s[i] EXCEPT !.part = 2]
                           ELSE i > 1 /\ s[i - 1] = [s[i] EXCEPT !.part = 1]
      BY <2>1, <1>1 DEF Framed
    <3>3. CASE s[i].part = 1
      BY <3>1, <3>2, <3>3, <2>1, <1>1, <1>4, <1>5
    <3>4. CASE s[i].part # 1
      <4>1. i - 1 \in 1 .. n
        BY <3>2, <3>4, <2>1, <1>1
      <4> QED
        BY <3>1, <3>2, <3>4, <4>1, <1>5
    <3> QED
      BY <3>3, <3>4
  <2>2. CASE i = n + 1
    <3>1. i + 1 \in DOMAIN r /\ i + 1 = n + 2
      BY <2>2, <1>1, <1>4
    <3> QED
      BY <3>1, <2>2, <1>5
  <2>3. CASE i = n + 2
    <3>1. i > 1 /\ i - 1 = n + 1
      BY <2>3, <1>1
    <3> QED
      BY <3>1, <2>3, <1>5
  <2> QED
    BY <2>1, <2>2, <2>3, <1>1, <1>4
<1>7. Framed(r)
  BY <1>6 DEF Framed
<1> QED
  BY <1>7 DEF r

(* A step lengthens a stream by one frame or not at all.                   *)
Grows(c) == Stream(c)' = Stream(c) \/ \E m \in Message : Stream(c)' = Stream(c) \o Frame(m)

LEMMA WriteKeepsStream ==
  ASSUME TypeOK, NEW c \in Conns, HandleWrite(c), NEW d \in Conns
  PROVE  Stream(d)' = Stream(d)
<1> DEFINE q == outputBuffer[c]
<1>1. PICK k \in Taken(c, q) \ {0} :
        /\ wire' = [wire EXCEPT ![c] = @ \o SubSeq(q, 1, k)]
        /\ outputBuffer' = [outputBuffer EXCEPT ![c] = SubSeq(q, k + 1, Len(q))]
  BY DEF HandleWrite
<1>2. q \in Seq(Unit) /\ Len(q) \in Nat /\ wire[c] \in Seq(Unit)
  BY LenProperties DEF TypeOK
<1>3. k \in 0 .. Len(q)
  BY <1>2 DEF Taken
<1>4. /\ SubSeq(q, 1, k) \in Seq(Unit) /\ SubSeq(q, k + 1, Len(q)) \in Seq(Unit)
      /\ SubSeq(q, 1, k) \o SubSeq(q, k + 1, Len(q)) = q
  BY <1>2, <1>3, SubSeqType
<1>5. (wire[c] \o SubSeq(q, 1, k)) \o SubSeq(q, k + 1, Len(q))
        = wire[c] \o (SubSeq(q, 1, k) \o SubSeq(q, k + 1, Len(q)))
  <2> DEFINE x == wire[c]
             y == SubSeq(q, 1, k)
             z == SubSeq(q, k + 1, Len(q))
  <2>1. x \in Seq(Unit) /\ y \in Seq(Unit) /\ z \in Seq(Unit)
    BY <1>2, <1>4
  <2> HIDE DEF x, y, z
  <2>2. (x \o y) \o z = x \o (y \o z)
    BY <2>1, ConcatUnits
  <2> QED
    BY <2>2 DEF x, y, z
<1>6. CASE d = c
  <2>1. wire'[c] = wire[c] \o SubSeq(q, 1, k) /\ outputBuffer'[c] = SubSeq(q, k + 1, Len(q))
    BY <1>1 DEF TypeOK
  <2> QED
    BY <2>1, <1>4, <1>5, <1>6 DEF Stream
<1>7. CASE d # c
  BY <1>1, <1>7 DEF Stream, TypeOK
<1> QED
  BY <1>6, <1>7

LEMMA StreamNext ==
  ASSUME TypeOK, PlaceInv, LifeInv, [Next]_vars, NEW d \in Conns
  PROVE  Grows(d)
<1>t. TypeOK
  OBVIOUS
<1> USE DEF poolVars, pollVars, dataVars, userVars, cbVars
<1>a. UNCHANGED <<wire, outputBuffer>> => Grows(d)
  BY DEF Grows, Stream
<1>b. ASSUME NEW c \in Conns, NEW m \in Message, SendEffect(c, m) PROVE Grows(d)
  <2>1. CASE d = c
    BY <1>b, <2>1 DEF SendEffect, Grows
  <2>2. CASE d # c
    <3>1. outputBuffer'[d] = outputBuffer[d] /\ wire'[d] = wire[d]
      BY <1>b, <2>2 DEF SendEffect
    <3> QED
      BY <3>1 DEF Grows, Stream
  <2> QED
    BY <2>1, <2>2
<1>1. ASSUME NEW l \in Loops, RunSend(l) PROVE Grows(d)
  <2>1. Head(queue[l]).conn \in Conns /\ Head(queue[l]).msg \in Message
    BY <1>1, <1>t, HeadHas DEF RunSend, Ops
  <2>2. SendEffect(Head(queue[l]).conn, Head(queue[l]).msg)
    BY <1>1, <2>1, <1>t, SendDoes DEF RunSend
  <2> QED
    BY <2>1, <2>2, <1>b
<1>2. ASSUME NEW b \in Conns, NEW c \in Conns, MessageSends(b, c) PROVE Grows(d)
  <2>1. loopOf[b] \in Senders
    BY <1>2, <1>t, OnALoop DEF MessageSends, Ready, Senders
  <2>2. NextMessage(loopOf[b]) \in Message
    BY <2>1, <1>t, NextMessageType
  <2>3. SendEffect(c, NextMessage(loopOf[b]))
    BY <1>2, <1>t, <2>2, SendDoes DEF MessageSends
  <2> QED
    BY <2>2, <2>3, <1>b
<1>3. ASSUME NEW c \in Conns, HandleWrite(c) PROVE Grows(d)
  BY <1>3, <1>t, WriteKeepsStream DEF Grows
<1>4. ASSUME NEW l \in Loops, RunEstablished(l) \/ RunShutdown(l) \/ RunForceClose(l) \/ RunDestroyed(l)
      PROVE  Grows(d)
  BY <1>4, <1>a DEF RunEstablished, RunShutdown, RunForceClose, RunDestroyed
<1>5. ASSUME NEW c \in Conns, HandleNewConnection(c) \/ HandleEof(c) PROVE Grows(d)
  BY <1>5, <1>a DEF HandleNewConnection, HandleEof
<1>6. ASSUME NEW b \in Conns, NEW c \in Conns, MessageShutsDown(b, c) \/ MessageForceCloses(b, c)
      PROVE  Grows(d)
  BY <1>6, <1>a DEF MessageShutsDown, MessageForceCloses
<1>7. ASSUME NEW t \in Threads, NEW c \in Conns,
             Queued(t) \/ Send(t, c) \/ Shutdown(t, c) \/ ForceClose(t, c)
      PROVE  Grows(d)
  BY <1>7, <1>a DEF Queued, Send, Shutdown, ForceClose
<1>8. ASSUME NEW c \in Conns, NEW how \in {"closed", "reset"}, PeerEnds(c, how) PROVE Grows(d)
  BY <1>8, <1>a DEF PeerEnds
<1>9. CASE UNCHANGED vars
  BY <1>9, <1>a DEF vars
<1> QED
  BY <1>1, <1>2, <1>3, <1>4, <1>5, <1>6, <1>7, <1>8, <1>9 DEF Next, RunFunctor

LEMMA FramesNext ==
  TypeOK /\ PlaceInv /\ LifeInv /\ FramesIntact /\ [Next]_vars => FramesIntact'
<1> SUFFICES ASSUME TypeOK, PlaceInv, LifeInv, FramesIntact, [Next]_vars, NEW c \in Conns
             PROVE  Framed(Stream(c)')
  BY DEF FramesIntact, Stream
<1>1. Grows(c)
  BY StreamNext
<1>2. Framed(Stream(c)) /\ Stream(c) \in Seq(Unit)
  BY ConcatType DEF FramesIntact, Stream, TypeOK
<1> QED
  BY <1>1, <1>2, FramedFrame DEF Grows

-----------------------------------------------------------------------------
(* The theorems *)

LEMMA ServerInitially == Init => ServerInv
<1> SUFFICES ASSUME Init PROVE ServerInv
  OBVIOUS
<1>1. TypeOK
  BY TypeInit
<1>2. \A l \in Loops : \A op, c : ~Has(queue[l], op, c) /\ AtMostOne(queue[l], op, c)
  <2>1. \A l \in Loops : queue[l] = <<>>
    BY DEF Init
  <2>2. DOMAIN <<>> = {}
    OBVIOUS
  <2>3. \A op, c : ~Has(<<>>, op, c) /\ AtMostOne(<<>>, op, c)
    BY <2>2 DEF Has, AtMostOne
  <2> QED
    BY <2>1, <2>3
<1>3. PlaceInv
  BY <1>2 DEF Init, PlaceInv
<1>4. LifeInv
  BY <1>2 DEF Init, LifeInv, Starting, Closing
<1>5. DrainInv /\ FinAfterDrain
  BY <1>2 DEF Init, DrainInv, FinAfterDrain, Idle
<1>6. FramesIntact
  <2> SUFFICES ASSUME NEW c \in Conns PROVE Framed(Stream(c))
    BY DEF FramesIntact, Stream
  <2>1. Stream(c) = <<>>
    BY DEF Init, Stream
  <2> QED
    BY <2>1, EmptySeq DEF Framed
<1> QED
  BY <1>1, <1>3, <1>4, <1>5, <1>6 DEF ServerInv

LEMMA ServerInvariant == Spec => []ServerInv
<1>1. ServerInv /\ [Next]_vars => ServerInv'
  BY TypeNext, PlaceNext, LifeNext, DrainNext, FramesNext DEF ServerInv
<1> QED
  BY ServerInitially, <1>1, PTL DEF Spec

(* Type correctness: next_ stays within loops_, so getNextLoop never reads *)
(* past its end, and only a functor of send() carries a message.           *)
THEOREM TypeCorrect == Spec => [](TypeOK)
<1>1. ServerInv => TypeOK
  BY DEF ServerInv
<1> QED
  BY ServerInvariant, <1>1, PTL

(* No frame is cut or overtaken in any stream.                             *)
THEOREM FramesIntactHolds == Spec => []FramesIntact
<1>1. ServerInv => FramesIntact
  BY DEF ServerInv
<1> QED
  BY ServerInvariant, <1>1, PTL

(* The write side is shut only once the buffer is drained.                 *)
THEOREM FinAfterDrainHolds == Spec => []FinAfterDrain
<1>1. ServerInv => FinAfterDrain
  BY DEF ServerInv
<1> QED
  BY ServerInvariant, <1>1, PTL

(* A channel in the poller belongs to a connection that is alive.          *)
THEOREM ChannelOwnedHolds == Spec => []ChannelOwned
<1>1. ServerInv => ChannelOwned
  <2> SUFFICES ASSUME ServerInv, NEW c \in Conns, index[c] # "kNew"
               PROVE  c \in connections \/ loopOf[c] \in Pointers(c)
    BY DEF ChannelOwned
  <2>1. TypeOK /\ PlaceInv /\ LifeInv /\ Starting(c) /\ Closing(c)
    BY DEF ServerInv, LifeInv
  <2>2. state[c] # "none" /\ loopOf[c] \in Loops
    BY <2>1, OnALoop
  <2>3. c \notin connections => Has(queue[loopOf[c]], "destroyed", c)
    BY <2>1, <2>2 DEF Closing
  <2> QED
    BY <2>2, <2>3 DEF Has, Pointers
<1> QED
  BY ServerInvariant, <1>1, PTL

(* A connection is destroyed once, out of the table, its channel still in  *)
(* the poller, on its own loop.                                            *)
THEOREM DestroyedOnceHolds == Spec => []DestroyedOnce
<1>1. ServerInv => DestroyedOnce
  <2> SUFFICES ASSUME ServerInv, NEW l \in Loops, NEW i \in DOMAIN queue[l],
                      queue[l][i].op = "destroyed"
               PROVE  /\ queue[l][i].conn \notin connections /\ index[queue[l][i].conn] # "kNew"
                      /\ loopOf[queue[l][i].conn] = l
                      /\ \A j \in DOMAIN queue[l] \ {i} :
                           queue[l][j].op = "destroyed" => queue[l][j].conn # queue[l][i].conn
    BY DEF DestroyedOnce
  <2>1. TypeOK /\ PlaceInv /\ LifeInv
    BY DEF ServerInv
  <2>2. queue[l] \in Seq(Functor)
    BY <2>1 DEF TypeOK
  <2>3. queue[l][i] \in Functor
    BY <2>2, LenProperties
  <2>4. PICK c \in Conns : c = queue[l][i].conn
    BY <2>3 DEF Functor
  <2>5. Has(queue[l], "destroyed", c)
    BY <2>4 DEF Has
  <2>6. c \notin connections /\ index[c] # "kNew" /\ AtMostOne(queue[l], "destroyed", c)
    BY <2>1, <2>5 DEF LifeInv, Closing
  <2>7. loopOf[c] = l
    BY <2>1, <2>5 DEF PlaceInv, Ops
  <2>8. \A j \in DOMAIN queue[l] \ {i} : queue[l][j].op = "destroyed" => queue[l][j].conn # c
    BY <2>4, <2>6 DEF AtMostOne
  <2> QED
    BY <2>4, <2>6, <2>7, <2>8
<1> QED
  BY ServerInvariant, <1>1, PTL

-----------------------------------------------------------------------------
(* SenderOrder: a message is numbered when it is sent, and the numbers of   *)
(* one sender never decrease along the way of a message, from the call      *)
(* through the loop's queue to the stream of the connection.                *)

(* The send functors of a queue, and the messages of a stream.              *)
HasMsg(q, c, m) == \E i \in DOMAIN q : q[i].op = "send" /\ q[i].conn = c /\ q[i].msg = m

Before(m1, m2) == m1.by = m2.by => m1.seq < m2.seq

Sorted(q) ==
  \A i, j \in DOMAIN q :
    i < j /\ q[i].op = "send" /\ q[j].op = "send" => Before(q[i].msg, q[j].msg)

In(s, m) == \E i \in DOMAIN s : s[i].msg = m

Ordered(s) ==
  \A i, j \in DOMAIN s : i < j /\ s[i].part = s[j].part => Before(s[i].msg, s[j].msg)

(* A message that has left its sender's hands is not newer than the last    *)
(* one sent, and older if the sender is still in the call that sends it.    *)
Out(m) == /\ m.seq <= sent[m.by]
          /\ m.by \in Threads /\ call[m.by].op = "send" => m.seq < sent[m.by]

OrderInv ==
  /\ \A c \in Conns : /\ Ordered(Stream(c))
                      /\ \A m \in Message : In(Stream(c), m) => Out(m)
  /\ \A l \in Loops : /\ Sorted(queue[l])
                      /\ \A c \in Conns, m \in Message : HasMsg(queue[l], c, m) => Out(m) /\ m.by \in Threads
  /\ \A l \in Loops, c \in Conns, m1, m2 \in Message :
       In(Stream(c), m1) /\ HasMsg(queue[l], c, m2) => Before(m1, m2)
  /\ \A t \in Threads : call[t].op = "send" => call[t].msg.by = t /\ call[t].msg.seq = sent[t]

-----------------------------------------------------------------------------
LEMMA EnqueuedMsg ==
  ASSUME NEW q \in Seq(Functor), NEW f \in Functor
  PROVE  /\ \A c, m : HasMsg(Append(q, f), c, m) <=>
                      HasMsg(q, c, m) \/ (f.op = "send" /\ f.conn = c /\ f.msg = m)
         /\ Sorted(q) /\ (f.op = "send" => \A c \in Conns, m \in Message : HasMsg(q, c, m) => Before(m, f.msg))
            => Sorted(Append(q, f))
<1>1. /\ Len(q) \in Nat /\ DOMAIN q = 1 .. Len(q)
      /\ DOMAIN Append(q, f) = 1 .. Len(q) + 1
      /\ \A i \in DOMAIN q : Append(q, f)[i] = q[i]
      /\ Append(q, f)[Len(q) + 1] = f
  BY AppendProperties, LenProperties
<1>2. /\ DOMAIN Append(q, f) = DOMAIN q \cup {Len(q) + 1} /\ Len(q) + 1 \notin DOMAIN q
      /\ \A i \in DOMAIN q : ~(Len(q) + 1 < i) /\ i \in Nat
      /\ ~(Len(q) + 1 < Len(q) + 1)
  BY <1>1
<1>3. \A c, m : HasMsg(Append(q, f), c, m) <=>
                HasMsg(q, c, m) \/ (f.op = "send" /\ f.conn = c /\ f.msg = m)
  BY <1>1, <1>2 DEF HasMsg
<1>4. ASSUME NEW i \in DOMAIN q, q[i].op = "send"
      PROVE  q[i].conn \in Conns /\ q[i].msg \in Message /\ HasMsg(q, q[i].conn, q[i].msg)
  <2>1. q[i] \in Functor
    BY <1>1, LenProperties
  <2> QED
    BY <1>4, <2>1 DEF Functor, Ops, HasMsg
<1>5. ASSUME Sorted(q), f.op = "send" => \A c \in Conns, m \in Message : HasMsg(q, c, m) => Before(m, f.msg)
      PROVE  Sorted(Append(q, f))
  <2> SUFFICES ASSUME NEW i \in DOMAIN Append(q, f), NEW j \in DOMAIN Append(q, f), i < j,
                      Append(q, f)[i].op = "send", Append(q, f)[j].op = "send"
               PROVE  Before(Append(q, f)[i].msg, Append(q, f)[j].msg)
    BY DEF Sorted
  <2>1. i \in DOMAIN q
    BY <1>1, <1>2
  <2>2. CASE j \in DOMAIN q
    BY <1>1, <1>5, <2>1, <2>2 DEF Sorted
  <2>3. CASE j = Len(q) + 1
    BY <1>1, <1>4, <1>5, <2>1, <2>3
  <2> QED
    BY <1>2, <2>2, <2>3
<1> QED
  BY <1>3, <1>5

LEMMA DequeuedMsg ==
  ASSUME NEW q \in Seq(Functor), q # <<>>
  PROVE  /\ \A c, m : HasMsg(q, c, m) <=>
              HasMsg(Tail(q), c, m) \/ (Head(q).op = "send" /\ Head(q).conn = c /\ Head(q).msg = m)
         /\ Sorted(q) => /\ Sorted(Tail(q))
                         /\ Head(q).op = "send" =>
                              \A c, m : HasMsg(Tail(q), c, m) => Before(Head(q).msg, m)
<1>1. /\ Len(q) \in Nat \ {0} /\ DOMAIN q = 1 .. Len(q) /\ Head(q) = q[1]
      /\ DOMAIN Tail(q) = 1 .. Len(q) - 1
      /\ \A i \in DOMAIN Tail(q) : Tail(q)[i] = q[i + 1]
  BY HeadTailProperties, LenProperties, EmptySeq
<1>2. \A i \in DOMAIN q : i = 1 \/ (i - 1 \in DOMAIN Tail(q) /\ q[i] = Tail(q)[i - 1])
  BY <1>1
<1>3. /\ \A i \in DOMAIN Tail(q) : i + 1 \in DOMAIN q /\ 1 < i + 1 /\ Tail(q)[i] = q[i + 1]
      /\ 1 \in DOMAIN q /\ Head(q) = q[1]
      /\ \A i, j \in DOMAIN Tail(q) : i < j => i + 1 < j + 1
  BY <1>1
<1>4. \A c, m : HasMsg(q, c, m) <=>
        HasMsg(Tail(q), c, m) \/ (Head(q).op = "send" /\ Head(q).conn = c /\ Head(q).msg = m)
  BY <1>2, <1>3 DEF HasMsg
<1>5. Sorted(q) => Sorted(Tail(q))
  BY <1>3 DEF Sorted
<1>6. Sorted(q) /\ Head(q).op = "send" => \A c, m : HasMsg(Tail(q), c, m) => Before(Head(q).msg, m)
  BY <1>3 DEF Sorted, HasMsg
<1> QED
  BY <1>4, <1>5, <1>6

LEMMA FrameOrder ==
  ASSUME NEW s \in Seq(Unit), NEW m \in Message
  PROVE  /\ \A k : In(s \o Frame(m), k) <=> In(s, k) \/ k = m
         /\ Ordered(s) /\ (\A k \in Message : In(s, k) => Before(k, m)) => Ordered(s \o Frame(m))
<1> DEFINE r == s \o Frame(m)
           n == Len(s)
<1>1. n \in Nat /\ DOMAIN s = 1 .. n
  BY LenProperties
<1>2. Frame(m) \in Seq(Unit) /\ Len(Frame(m)) = 2
      /\ Frame(m)[1] = [msg |-> m, part |-> 1] /\ Frame(m)[2] = [msg |-> m, part |-> 2]
  BY FrameType
<1>3. /\ r \in Seq(Unit) /\ Len(r) = n + 2
      /\ \A i \in 1 .. n + 2 : r[i] = IF i <= n THEN s[i] ELSE Frame(m)[i - n]
  <2> DEFINE g == Frame(m)
  <2>1. g \in Seq(Unit) /\ Len(g) = 2
    BY <1>2
  <2> HIDE DEF g
  <2>2. /\ s \o g \in Seq(Unit) /\ Len(s \o g) = Len(s) + Len(g)
        /\ \A i \in 1 .. Len(s) + Len(g) : (s \o g)[i] = IF i <= Len(s) THEN s[i] ELSE g[i - Len(s)]
    BY <2>1, ConcatProperties
  <2> QED
    BY <2>1, <2>2 DEF g
<1>4. DOMAIN r = 1 .. n + 2
  BY <1>3, LenProperties
<1>5. /\ \A i \in 1 .. n : r[i] = s[i]
      /\ r[n + 1] = [msg |-> m, part |-> 1] /\ r[n + 2] = [msg |-> m, part |-> 2]
  BY <1>1, <1>2, <1>3
<1>6. \A i \in 1 .. n : In(s, s[i].msg) /\ s[i].msg \in Message
  <2> SUFFICES ASSUME NEW i \in 1 .. n PROVE In(s, s[i].msg) /\ s[i].msg \in Message
    OBVIOUS
  <2>1. s[i] \in Unit
    BY <1>1
  <2> QED
    BY <2>1, <1>1 DEF In, Unit
<1>7. /\ n + 1 \in DOMAIN r /\ \A i \in 1 .. n : i \in DOMAIN r
      /\ \A i \in DOMAIN r : i \in 1 .. n \/ i = n + 1 \/ i = n + 2
  BY <1>1, <1>4
<1> HIDE DEF r
<1>8. \A k : In(r, k) <=> In(s, k) \/ k = m
  BY <1>1, <1>5, <1>7 DEF In
<1>9. ASSUME Ordered(s), \A k \in Message : In(s, k) => Before(k, m),
             NEW i \in DOMAIN r, NEW j \in DOMAIN r, i < j, r[i].part = r[j].part
      PROVE  Before(r[i].msg, r[j].msg)
  <2>1. CASE j \in 1 .. n
    <3>1. i \in 1 .. n
      BY <1>1, <1>4, <1>9, <2>1
    <3> QED
      BY <1>1, <1>5, <1>9, <2>1, <3>1 DEF Ordered
  <2>2. CASE j \in {n + 1, n + 2}
    <3>1. r[j].msg = m
      BY <1>5, <2>2
    <3>2. CASE i \in 1 .. n
      BY <1>5, <1>6, <1>9, <3>1, <3>2
    <3>3. CASE i \notin 1 .. n
      <4>1. i = n + 1 /\ j = n + 2
        BY <1>1, <1>4, <1>9, <2>2, <3>3
      <4> QED
        BY <4>1, <1>5, <1>9
    <3> QED
      BY <3>2, <3>3
  <2> QED
    BY <1>7, <2>1, <2>2
<1>10. Ordered(s) /\ (\A k \in Message : In(s, k) => Before(k, m)) => Ordered(r)
  BY <1>9 DEF Ordered
<1> QED
  BY <1>8, <1>10 DEF r

-----------------------------------------------------------------------------
(* Steps that neither put a message into a queue nor write one.            *)
NoNewMsg ==
  \A l \in Loops :
    /\ Sorted(queue[l]) => Sorted(queue'[l])
    /\ \A c \in Conns, m \in Message : HasMsg(queue'[l], c, m) => HasMsg(queue[l], c, m)

SameStreams == \A c \in Conns : wire'[c] = wire[c] /\ outputBuffer'[c] = outputBuffer[c]

NoNewSend == /\ sent' = sent
             /\ \A t \in Threads : call'[t].op = "send" => call'[t] = call[t]

OutNext(m) == /\ m.seq <= sent'[m.by]
              /\ m.by \in Threads /\ call'[m.by].op = "send" => m.seq < sent'[m.by]

LEMMA OutKept == ASSUME NoNewSend PROVE \A m \in Message : Out(m) => OutNext(m)
  BY DEF NoNewSend, Out, OutNext

LEMMA OrderKept ==
  ASSUME OrderInv, NoNewMsg, NoNewSend, \A c \in Conns : Stream(c)' = Stream(c)
  PROVE  OrderInv'
<1>1. \A m \in Message : Out(m) => Out(m)'
  BY OutKept DEF OutNext, Out
<1>2. \A c \in Conns : /\ Ordered(Stream(c)')
                       /\ \A m \in Message : In(Stream(c)', m) => Out(m)'
  BY <1>1 DEF OrderInv
<1>3. \A l \in Loops : /\ Sorted(queue'[l])
                       /\ \A c \in Conns, m \in Message : HasMsg(queue'[l], c, m) => Out(m)' /\ m.by \in Threads
  BY <1>1 DEF OrderInv, NoNewMsg
<1>4. \A l \in Loops, c \in Conns, m1, m2 \in Message :
        In(Stream(c)', m1) /\ HasMsg(queue'[l], c, m2) => Before(m1, m2)
  BY DEF OrderInv, NoNewMsg
<1>5. \A t \in Threads : call'[t].op = "send" => call'[t].msg.by = t /\ call'[t].msg.seq = sent'[t]
  BY DEF OrderInv, NoNewSend
<1> QED
  BY <1>2, <1>3, <1>4, <1>5 DEF OrderInv

(* Sending m to c, with the messages of the queues no newer for it.        *)
LEMMA OrderGrows ==
  ASSUME TypeOK, OrderInv, NoNewMsg, NEW c \in Conns, NEW m \in Message,
         SendEffect(c, m),
         \A k \in Message : Out(k) => OutNext(k), OutNext(m),
         \A k \in Message : In(Stream(c), k) => Before(k, m),
         \A l \in Loops, k \in Message : HasMsg(queue'[l], c, k) => Before(m, k),
         \A t \in Threads : call'[t].op = "send" => call'[t].msg.by = t /\ call'[t].msg.seq = sent'[t]
  PROVE  OrderInv'
<1>1. \A d \in Conns \ {c} : Stream(d)' = Stream(d)
  BY DEF SendEffect, Stream
<1>2. Stream(c)' = Stream(c) \/ Stream(c)' = Stream(c) \o Frame(m)
  BY DEF SendEffect
<1>3. Stream(c) \in Seq(Unit)
  BY ConcatType DEF TypeOK, Stream
<1>4. /\ Ordered(Stream(c)')
      /\ \A k \in Message : In(Stream(c)', k) => In(Stream(c), k) \/ k = m
  <2>1. Ordered(Stream(c)) /\ \A k \in Message : In(Stream(c), k) => Before(k, m)
    BY DEF OrderInv
  <2>2. \A s \in Seq(Unit) :
          /\ \A k : In(s \o Frame(m), k) <=> In(s, k) \/ k = m
          /\ Ordered(s) /\ (\A k \in Message : In(s, k) => Before(k, m)) => Ordered(s \o Frame(m))
    BY FrameOrder
  <2>3. /\ \A k : In(Stream(c) \o Frame(m), k) <=> In(Stream(c), k) \/ k = m
        /\ Ordered(Stream(c) \o Frame(m))
    BY <2>1, <2>2, <1>3
  <2> QED
    BY <1>2, <2>1, <2>3
<1>5. \A d \in Conns : /\ Ordered(Stream(d)')
                       /\ \A k \in Message : In(Stream(d)', k) => OutNext(k)
  BY <1>1, <1>4 DEF OrderInv
<1>6. \A l \in Loops : /\ Sorted(queue'[l])
                       /\ \A d \in Conns, k \in Message : HasMsg(queue'[l], d, k) => OutNext(k) /\ k.by \in Threads
  BY DEF OrderInv, NoNewMsg
<1>7. \A l \in Loops, d \in Conns, m1, m2 \in Message :
        In(Stream(d)', m1) /\ HasMsg(queue'[l], d, m2) => Before(m1, m2)
  BY <1>1, <1>4 DEF OrderInv, NoNewMsg
<1> QED
  BY <1>5, <1>6, <1>7 DEF OrderInv, OutNext, Out

LEMMA DequeueKeeps ==
  ASSUME TypeOK, NEW l \in Loops, queue[l] # <<>>, Dequeue(l)
  PROVE  NoNewMsg
<1>1. queue[l] \in Seq(Functor) /\ queue'[l] = Tail(queue[l]) /\ \A k \in Loops \ {l} : queue'[k] = queue[k]
  BY DEF TypeOK, Dequeue
<1> QED
  BY <1>1, DequeuedMsg DEF NoNewMsg

LEMMA QueueKeeps ==
  ASSUME TypeOK, NEW l \in Loops, NEW f \in Functor, f.op # "send",
         NEW q \in Seq(Functor), q = queue[l] \/ (queue[l] # <<>> /\ q = Tail(queue[l])),
         queue' = [queue EXCEPT ![l] = Append(q, f)]
  PROVE  NoNewMsg
<1>1. queue[l] \in Seq(Functor) /\ queue'[l] = Append(q, f) /\ \A k \in Loops \ {l} : queue'[k] = queue[k]
  BY DEF TypeOK
<1>2. /\ \A c, m : HasMsg(Append(q, f), c, m) <=> HasMsg(q, c, m)
      /\ Sorted(q) => Sorted(Append(q, f))
  BY EnqueuedMsg
<1>3. /\ \A c, m : HasMsg(q, c, m) => HasMsg(queue[l], c, m)
      /\ Sorted(queue[l]) => Sorted(q)
  <2>1. CASE q = queue[l]
    BY <2>1
  <2>2. CASE queue[l] # <<>> /\ q = Tail(queue[l])
    <3>1. /\ \A c, m : HasMsg(Tail(queue[l]), c, m) => HasMsg(queue[l], c, m)
          /\ Sorted(queue[l]) => Sorted(Tail(queue[l]))
      BY <1>1, <2>2, DequeuedMsg
    <3> QED
      BY <2>2, <3>1
  <2> QED
    BY <2>1, <2>2
<1> QED
  BY <1>1, <1>2, <1>3 DEF NoNewMsg

LEMMA OrderNext == TypeOK /\ PlaceInv /\ LifeInv /\ OrderInv /\ [Next]_vars => OrderInv'
<1> SUFFICES ASSUME TypeOK, PlaceInv, LifeInv, OrderInv, [Next]_vars
             PROVE  OrderInv'
  OBVIOUS
<1>t. TypeOK
  OBVIOUS
<1> USE DEF poolVars, pollVars, dataVars, userVars, cbVars
<1>a. ASSUME NoNewMsg, NoNewSend, UNCHANGED <<wire, outputBuffer>> PROVE OrderInv'
  <2>1. \A c \in Conns : Stream(c)' = Stream(c)
    BY <1>a DEF Stream
  <2> QED
    BY <1>a, <2>1, OrderKept
<1>b. queue' = queue => NoNewMsg
  BY DEF NoNewMsg
<1>c. UNCHANGED <<sent, call>> => NoNewSend
  BY DEF NoNewSend
<1>d. ASSUME NEW l \in Loops, NEW c \in Conns, NEW q \in Seq(Functor),
             q = queue[l] \/ (queue[l] # <<>> /\ q = Tail(queue[l])), HandleClose(l, c, q)
      PROVE  NoNewMsg
  <2>1. F("destroyed", c) \in Functor /\ F("destroyed", c).op # "send"
    BY FunctorType DEF F, Ops
  <2>2. queue' = [queue EXCEPT ![l] = Append(q, F("destroyed", c))]
    BY <1>d DEF HandleClose, Enqueue
  <2> QED
    BY <1>d, <2>1, <2>2, <1>t, QueueKeeps
<1>1. ASSUME NEW l \in Loops, RunSend(l) PROVE OrderInv'
  <2> DEFINE c == Head(queue[l]).conn
             m == Head(queue[l]).msg
  <2>1. /\ c \in Conns /\ m \in Message /\ Head(queue[l]).op = "send" /\ queue[l] # <<>>
        /\ loopOf[c] = l /\ queue[l] \in Seq(Functor)
    BY <1>1, <1>t, HeadHas, HeadType DEF RunSend, Ops
  <2>2. SendEffect(c, m)
    BY <1>1, <2>1, <1>t, SendDoes DEF RunSend
  <2>3. UNCHANGED <<sent, call>> /\ Dequeue(l)
    BY <1>1 DEF RunSend
  <2>4. NoNewMsg
    BY <2>1, <2>3, <1>t, DequeueKeeps
  <2>5. HasMsg(queue[l], c, m)
    BY <2>1, DequeuedMsg
  <2>6. Out(m) /\ \A k \in Message : In(Stream(c), k) => Before(k, m)
    BY <2>1, <2>5 DEF OrderInv
  <2>7. \A k \in Message : HasMsg(queue'[l], c, k) => Before(m, k)
    <3>1. queue'[l] = Tail(queue[l]) /\ Sorted(queue[l])
      BY <2>3, <1>t DEF Dequeue, TypeOK, OrderInv
    <3> QED
      BY <3>1, <2>1, DequeuedMsg
  <2>8. \A k \in Loops \ {l}, n \in Message : ~HasMsg(queue'[k], c, n)
    <3>1. \A k \in Loops, n \in Message : HasMsg(queue[k], c, n) => Has(queue[k], "send", c)
      BY DEF HasMsg, Has
    <3> QED
      BY <3>1, <2>1, <2>4 DEF NoNewMsg, PlaceInv, Ops
  <2>9. (\A k \in Message : Out(k) => OutNext(k)) /\ OutNext(m)
    BY <2>1, <2>3, <2>6 DEF Out, OutNext
  <2>10. \A t \in Threads : call'[t].op = "send" => call'[t].msg.by = t /\ call'[t].msg.seq = sent'[t]
    BY <2>3 DEF OrderInv
  <2>11. \A k \in Loops, n \in Message : HasMsg(queue'[k], c, n) => Before(m, n)
    BY <2>7, <2>8
  <2> HIDE DEF c, m
  <2> QED
    BY <2>1, <2>2, <2>4, <2>6, <2>9, <2>10, <2>11, <1>t, OrderGrows
<1>2. ASSUME NEW b \in Conns, NEW c \in Conns, MessageSends(b, c) PROVE OrderInv'
  <2> DEFINE s == loopOf[b]
             m == NextMessage(s)
  <2>1. s \in Loops /\ s \in Senders /\ s \notin Threads
    BY <1>2, <1>t, OnALoop, ServerAssumption DEF MessageSends, Ready, Senders
  <2>2. m \in Message /\ m.by = s /\ m.seq = sent[s] + 1 /\ sent \in [Senders -> Nat]
    BY <2>1, <1>t, NextMessageType DEF NextMessage, TypeOK
  <2>3. SendEffect(c, m)
    BY <1>2, <1>t, <2>2, SendDoes DEF MessageSends
  <2>4. sent' = [sent EXCEPT ![s] = sent[s] + 1] /\ UNCHANGED <<queue, call>>
    BY <1>2 DEF MessageSends
  <2>5. \A k \in Message : Out(k) => OutNext(k)
    BY <2>1, <2>2, <2>4 DEF Out, OutNext, Message
  <2>6. OutNext(m)
    BY <2>1, <2>2, <2>4 DEF OutNext
  <2>7. \A k \in Message : In(Stream(c), k) => Before(k, m)
    <3>1. \A k \in Message : Out(k) => Before(k, m)
      BY <2>1, <2>2 DEF Out, Before, Message
    <3> QED
      BY <3>1 DEF OrderInv
  <2>8. \A l \in Loops, k \in Message : HasMsg(queue'[l], c, k) => Before(m, k)
    BY <2>1, <2>2, <2>4 DEF OrderInv, Before
  <2>9. \A t \in Threads : call'[t].op = "send" => call'[t].msg.by = t /\ call'[t].msg.seq = sent'[t]
    BY <2>1, <2>4 DEF OrderInv
  <2>10. NoNewMsg
    BY <2>4, <1>b
  <2> HIDE DEF m, s
  <2> QED
    BY <2>2, <2>3, <2>5, <2>6, <2>7, <2>8, <2>9, <2>10, <1>t, OrderGrows
<1>3. ASSUME NEW c \in Conns, HandleWrite(c) PROVE OrderInv'
  <2>1. \A d \in Conns : Stream(d)' = Stream(d)
    BY <1>3, <1>t, WriteKeepsStream
  <2>2. UNCHANGED <<queue, sent, call>>
    BY <1>3 DEF HandleWrite
  <2> QED
    BY <2>1, <2>2, <1>b, <1>c, OrderKept
<1>4. ASSUME NEW l \in Loops, RunEstablished(l) \/ RunShutdown(l) \/ RunDestroyed(l) PROVE OrderInv'
  <2>1. queue[l] # <<>> /\ Dequeue(l) /\ UNCHANGED <<wire, outputBuffer, sent, call>>
    BY <1>4 DEF RunEstablished, RunShutdown, RunDestroyed, NextIs
  <2> QED
    BY <2>1, <1>a, <1>c, <1>t, DequeueKeeps
<1>5. ASSUME NEW l \in Loops, RunForceClose(l) PROVE OrderInv'
  <2> DEFINE c == Head(queue[l]).conn
  <2>1. c \in Conns /\ queue[l] # <<>> /\ Tail(queue[l]) \in Seq(Functor)
    BY <1>5, <1>t, HeadType DEF RunForceClose, NextIs
  <2>2. NoNewMsg
    <3>1. CASE HandleClose(l, c, Tail(queue[l]))
      BY <2>1, <3>1, <1>d
    <3>2. CASE Dequeue(l)
      BY <2>1, <3>2, <1>t, DequeueKeeps
    <3> QED
      BY <1>5, <3>1, <3>2 DEF RunForceClose
  <2> QED
    BY <1>5, <2>2, <1>a, <1>c DEF RunForceClose
<1>6. ASSUME NEW c \in Conns, HandleNewConnection(c) PROVE OrderInv'
  <2>1. Chosen \in Loops
    BY ChosenType
  <2>2. NoNewMsg
    <3>1. CASE QueueInLoop(Chosen, F("established", c))
      <4>1. F("established", c) \in Functor /\ F("established", c).op # "send"
        BY FunctorType DEF F, Ops
      <4>2. queue[Chosen] \in Seq(Functor)
        BY <2>1, <1>t DEF TypeOK
      <4>3. queue' = [queue EXCEPT ![Chosen] = Append(queue[Chosen], F("established", c))]
        BY <3>1 DEF QueueInLoop, Enqueue
      <4> QED
        BY <2>1, <4>1, <4>2, <4>3, <1>t, QueueKeeps
    <3>2. CASE UNCHANGED queue
      BY <3>2, <1>b
    <3> QED
      BY <1>6, <3>1, <3>2 DEF HandleNewConnection
  <2> QED
    BY <1>6, <2>2, <1>a, <1>c DEF HandleNewConnection
<1>7. ASSUME NEW c \in Conns, HandleEof(c) PROVE OrderInv'
  <2>1. loopOf[c] \in Loops /\ queue[loopOf[c]] \in Seq(Functor)
    BY <1>7, <1>t, OnALoop DEF HandleEof, Ready, TypeOK
  <2>2. NoNewMsg
    BY <1>7, <2>1, <1>d DEF HandleEof
  <2> QED
    BY <1>7, <2>2, <1>a, <1>c DEF HandleEof
<1>8. ASSUME NEW b \in Conns, NEW c \in Conns, MessageShutsDown(b, c) PROVE OrderInv'
  BY <1>8, <1>a, <1>b, <1>c DEF MessageShutsDown
<1>9. ASSUME NEW b \in Conns, NEW c \in Conns, MessageForceCloses(b, c) PROVE OrderInv'
  <2>1. loopOf[c] \in Loops /\ queue[loopOf[c]] \in Seq(Functor)
    BY <1>9, <1>t, OnALoop DEF MessageForceCloses, TypeOK
  <2>2. NoNewMsg
    BY <1>9, <2>1, <1>b, <1>d DEF MessageForceCloses
  <2> QED
    BY <1>9, <2>2, <1>a, <1>c DEF MessageForceCloses
<1>10. ASSUME NEW t \in Threads, Queued(t) PROVE OrderInv'
  <2> DEFINE l == loopOf[call[t].conn]
             f == call[t]
  <2>1. f \in Functor /\ l \in Loops /\ queue[l] \in Seq(Functor) /\ f.conn \in Conns
    BY <1>10, <1>t, OnALoop DEF Queued, TypeOK
  <2>2. /\ queue' = [queue EXCEPT ![l] = Append(queue[l], f)] /\ call' = [call EXCEPT ![t] = Idle]
        /\ UNCHANGED <<sent, wire, outputBuffer>>
    BY <1>10 DEF Queued, QueueInLoop, Enqueue
  <2>3. NoNewSend
    BY <2>2, <1>t DEF NoNewSend, Idle, TypeOK
  <2>4. CASE f.op # "send"
    <3>1. NoNewMsg
      BY <2>1, <2>2, <2>4, <1>t, QueueKeeps
    <3> QED
      BY <2>2, <2>3, <3>1, <1>a
  <2>5. CASE f.op = "send"
    <3>1. f.msg \in Message /\ f.msg.by = t /\ f.msg.seq = sent[t] /\ t \in Senders /\ sent[t] \in Nat
      BY <2>1, <2>5, <1>t DEF OrderInv, Functor, Ops, TypeOK, Senders
    <3>2. \A m \in Message : Out(m) => Before(m, f.msg)
      BY <2>5, <3>1 DEF Out, Before
    <3>3. queue'[l] = Append(queue[l], f) /\ \A k \in Loops \ {l} : queue'[k] = queue[k]
      BY <2>1, <2>2, <1>t DEF TypeOK
    <3>4. /\ \A c, m : HasMsg(queue'[l], c, m) <=> HasMsg(queue[l], c, m) \/ (c = f.conn /\ m = f.msg)
          /\ Sorted(queue'[l])
      <4>1. \A c \in Conns, m \in Message : HasMsg(queue[l], c, m) => Before(m, f.msg)
        BY <2>1, <3>2 DEF OrderInv
      <4>2. Sorted(queue[l])
        BY <2>1 DEF OrderInv
      <4> HIDE DEF f, l
      <4>3. /\ \A c, m : HasMsg(Append(queue[l], f), c, m) <=>
                          HasMsg(queue[l], c, m) \/ (f.op = "send" /\ f.conn = c /\ f.msg = m)
            /\ Sorted(Append(queue[l], f))
        BY <2>1, <4>1, <4>2, EnqueuedMsg
      <4> QED
        BY <3>3, <2>5, <4>3
    <3>5. call'[t].op # "send" /\ sent' = sent /\ \A u \in Threads \ {t} : call'[u] = call[u]
      BY <2>2, <1>t DEF Idle, TypeOK
    <3>6. OutNext(f.msg) /\ \A m \in Message : Out(m) => OutNext(m)
      BY <3>1, <3>5, <2>3, OutKept DEF OutNext
    <3>7. \A c \in Conns : Stream(c)' = Stream(c)
      BY <2>2 DEF Stream
    <3> HIDE DEF f, l
    <3>8. \A c \in Conns : /\ Ordered(Stream(c)')
                           /\ \A m \in Message : In(Stream(c)', m) => OutNext(m)
      BY <3>6, <3>7 DEF OrderInv
    <3>9. \A k \in Loops :
            /\ Sorted(queue'[k])
            /\ \A c \in Conns, m \in Message : HasMsg(queue'[k], c, m) => OutNext(m) /\ m.by \in Threads
      BY <3>1, <3>3, <3>4, <3>6 DEF OrderInv
    <3>10. \A k \in Loops, c \in Conns, m1, m2 \in Message :
             In(Stream(c)', m1) /\ HasMsg(queue'[k], c, m2) => Before(m1, m2)
      <4> SUFFICES ASSUME NEW k \in Loops, NEW c \in Conns, NEW m1 \in Message, NEW m2 \in Message,
                          In(Stream(c), m1), HasMsg(queue'[k], c, m2)
                   PROVE  Before(m1, m2)
        BY <3>7
      <4>1. CASE HasMsg(queue[k], c, m2)
        BY <4>1 DEF OrderInv
      <4>2. CASE m2 = f.msg
        BY <3>2, <4>2 DEF OrderInv
      <4> QED
        BY <3>3, <3>4, <4>1, <4>2
    <3>11. \A u \in Threads : call'[u].op = "send" => call'[u].msg.by = u /\ call'[u].msg.seq = sent'[u]
      BY <3>5 DEF OrderInv
    <3> QED
      BY <3>8, <3>9, <3>10, <3>11 DEF OrderInv, OutNext, Out
  <2> QED
    BY <2>4, <2>5
<1>11. ASSUME NEW t \in Threads, NEW c \in Conns, Send(t, c) PROVE OrderInv'
  <2>1. /\ call[t] = Idle /\ UNCHANGED <<queue, wire, outputBuffer>>
        /\ sent' = [sent EXCEPT ![t] = sent[t] + 1]
        /\ call' = [call EXCEPT ![t] = [op |-> "send", conn |-> c, msg |-> NextMessage(t)]]
    BY <1>11 DEF Send, Holds
  <2>2. t \in Senders /\ sent \in [Senders -> Nat] /\ call \in [Threads -> Functor \cup {Idle}]
    BY <1>t DEF TypeOK, Senders
  <2>3. /\ call'[t].msg.by = t /\ call'[t].msg.seq = sent'[t] /\ sent'[t] = sent[t] + 1
        /\ \A u \in Threads \ {t} : call'[u] = call[u]
        /\ \A u \in Senders \ {t} : sent'[u] = sent[u]
    BY <2>1, <2>2 DEF NextMessage
  <2>4. \A m \in Message : Out(m) => OutNext(m)
    BY <2>2, <2>3 DEF Out, OutNext, Message
  <2>5. \A d \in Conns : Stream(d)' = Stream(d)
    BY <2>1 DEF Stream
  <2>6. \A d \in Conns : /\ Ordered(Stream(d)')
                         /\ \A m \in Message : In(Stream(d)', m) => OutNext(m)
    BY <2>4, <2>5 DEF OrderInv
  <2>7. \A l \in Loops :
          /\ Sorted(queue'[l])
          /\ \A d \in Conns, m \in Message : HasMsg(queue'[l], d, m) => OutNext(m) /\ m.by \in Threads
    BY <2>1, <2>4 DEF OrderInv
  <2>8. \A l \in Loops, d \in Conns, m1, m2 \in Message :
          In(Stream(d)', m1) /\ HasMsg(queue'[l], d, m2) => Before(m1, m2)
    BY <2>1, <2>5 DEF OrderInv
  <2>9. \A u \in Threads : call'[u].op = "send" => call'[u].msg.by = u /\ call'[u].msg.seq = sent'[u]
    BY <2>2, <2>3 DEF OrderInv, Senders
  <2> QED
    BY <2>6, <2>7, <2>8, <2>9 DEF OrderInv, OutNext, Out
<1>12. ASSUME NEW t \in Threads, NEW c \in Conns, Shutdown(t, c) \/ ForceClose(t, c) PROVE OrderInv'
  <2>1. UNCHANGED <<queue, wire, outputBuffer, sent>>
    BY <1>12 DEF Shutdown, ForceClose
  <2>2. PICK op \in {"shutdown", "forceClose"} : call' = [call EXCEPT ![t] = F(op, c)]
    BY <1>12 DEF Shutdown, ForceClose
  <2>3. NoNewSend
    BY <2>1, <2>2, <1>t DEF NoNewSend, F, TypeOK
  <2> QED
    BY <2>1, <2>3, <1>a, <1>b
<1>13. ASSUME NEW c \in Conns, NEW how \in {"closed", "reset"}, PeerEnds(c, how) PROVE OrderInv'
  BY <1>13, <1>a, <1>b, <1>c DEF PeerEnds
<1>14. CASE UNCHANGED vars
  BY <1>14, <1>a, <1>b, <1>c DEF vars
<1> QED
  BY <1>1, <1>2, <1>3, <1>4, <1>5, <1>6, <1>7, <1>8, <1>9, <1>10, <1>11, <1>12, <1>13, <1>14
  DEF Next, RunFunctor

LEMMA OrderInitially == Init => OrderInv
<1> SUFFICES ASSUME Init PROVE OrderInv
  OBVIOUS
<1>1. \A l \in Loops : queue[l] = <<>>
  BY DEF Init
<1>2. ASSUME NEW c \in Conns PROVE Stream(c) = <<>>
  BY DEF Init, Stream
<1>3. DOMAIN <<>> = {}
  OBVIOUS
<1>4. Ordered(<<>>) /\ Sorted(<<>>) /\ \A c, m : ~HasMsg(<<>>, c, m) /\ ~In(<<>>, m)
  BY <1>3 DEF Ordered, Sorted, HasMsg, In
<1>5. \A t \in Threads : call[t].op # "send"
  BY DEF Init, Idle
<1> QED
  BY <1>1, <1>2, <1>4, <1>5 DEF OrderInv

(* One sender's messages to a connection are written in the order in which *)
(* they were sent, and none twice.                                         *)
THEOREM SenderOrderHolds == Spec => []SenderOrder
<1>1. ServerInv => TypeOK /\ PlaceInv /\ LifeInv
  BY DEF ServerInv
<1>2. OrderInv => SenderOrder
  <2> SUFFICES ASSUME OrderInv, NEW c \in Conns
               PROVE  \A i, j \in DOMAIN Stream(c) :
                        i < j /\ Stream(c)[i].msg.by = Stream(c)[j].msg.by
                              /\ Stream(c)[i].part = Stream(c)[j].part
                        => Stream(c)[i].msg.seq < Stream(c)[j].msg.seq
    BY DEF SenderOrder, Stream
  <2>1. Ordered(Stream(c))
    BY DEF OrderInv
  <2> QED
    BY <2>1 DEF Ordered, Before
<1> QED
  BY ServerInvariant, OrderInitially, OrderNext, <1>1, <1>2, PTL DEF Spec

=============================================================================
