------------------------------- MODULE Framing -------------------------------
(* How bytes become messages: nwl::Buffer, TcpConnection::handleRead, and   *)
(* the framing of ChatServer::onMessage and chatservice::sendFrame.  The    *)
(* four bytes of a length are two digits here.                              *)
EXTENDS Integers, Sequences, SequencesExt

CONSTANTS
  Base,           \* bytes are 0..Base-1
  CheapPrepend, InitialSize,  \* of a Buffer
  ExtraSize,      \* bytes of extrabuf
  MaxLen,         \* the longest payload that is accepted
  Sendings, Tails \* bounds: what a client sends, as frames and then bytes of any kind

Byte == 0..(Base - 1)
HeaderLen == 2

ASSUME FramingAssumption ==
  /\ Base \in Nat \ {0} /\ MaxLen \in Nat
  /\ 2 * MaxLen < Base * Base  \* 16 MiB is an int32_t
  /\ CheapPrepend \in Nat /\ InitialSize \in Nat /\ ExtraSize \in Nat

-----------------------------------------------------------------------------
(* Buffer: index i of buffer_ is mem[i + 1].                                *)

Zeros(n) == [i \in 1..n |-> 0]
Fresh == [mem |-> Zeros(CheapPrepend + InitialSize), reader |-> CheapPrepend, writer |-> CheapPrepend]

ReadableBytes(b) == b.writer - b.reader
WritableBytes(b) == Len(b.mem) - b.writer
Peek(b, n) == [i \in 1..n |-> b.mem[b.reader + i]]

RetrieveAll(b) == [b EXCEPT !.reader = CheapPrepend, !.writer = CheapPrepend]
Retrieve(b, n) == IF n < ReadableBytes(b) THEN [b EXCEPT !.reader = @ + n] ELSE RetrieveAll(b)

\* what retrieveAsString returns, before it retrieves
FrontString(b, n) == Peek(b, IF n < ReadableBytes(b) THEN n ELSE ReadableBytes(b))

\* memcpy and memmove: n bytes from f to the indices i, i + 1, ...
Put(mem, i, n, f) == [k \in DOMAIN mem |-> IF i < k /\ k <= i + n THEN f[k - i] ELSE mem[k]]

CompactsMut(b, n) == WritableBytes(b) + b.reader >= n  \* mutant: forgets the reserve in front
Compacts(b, n) == WritableBytes(b) + b.reader - CheapPrepend >= n + CheapPrepend

MakeSpace(b, n) ==
  IF Compacts(b, n)
  THEN LET readable == ReadableBytes(b)
       IN [mem |-> Put(b.mem, CheapPrepend, readable, Peek(b, readable)),
           reader |-> CheapPrepend, writer |-> CheapPrepend + readable]
  ELSE [b EXCEPT !.mem = [k \in 1..(b.writer + n) |-> IF k <= Len(@) THEN @[k] ELSE 0]]

EnsureWritableBytes(b, n) == IF WritableBytes(b) < n THEN MakeSpace(b, n) ELSE b

\* the n elements of data, a function on at least 1..n
Write(b, n, data) ==
  [mem |-> Put(b.mem, b.writer, n, data), reader |-> b.reader, writer |-> b.writer + n]
AppendBytes(b, n, data) == Write(EnsureWritableBytes(b, n), n, data)

\* The most that readv reads, and what becomes of n bytes.
ReadRoom(b) == WritableBytes(b) + IF WritableBytes(b) < ExtraSize THEN ExtraSize ELSE 0

ReadFd(b, n, data) ==
  LET writable == WritableBytes(b) IN
  IF n <= writable THEN Write(b, n, data)
  ELSE AppendBytes(Write(b, writable, data), n - writable,
                   [i \in 1..(n - writable) |-> data[writable + i]])

-----------------------------------------------------------------------------
(* Lengths: int32_t in network order.                                       *)

Number(h) == LET n == Base * h[1] + h[2]
             IN IF 2 * n < Base * Base THEN n ELSE n - Base * Base

Frame(payload) == <<Len(payload) \div Base, Len(payload) % Base>> \o payload

Wire(payloads) == FlattenSeq([i \in DOMAIN payloads |-> Frame(payloads[i])])

ASSUME StreamAssumption ==
  /\ \A s \in Sendings : s \in Seq(Seq(Byte)) /\ \A i \in DOMAIN s : Len(s[i]) \in 1..MaxLen
  /\ \A s \in Tails : s \in Seq(Byte)

-----------------------------------------------------------------------------
VARIABLES
  sent,      \* the payloads of the client's whole frames
  stream,    \* all bytes it sends
  received,  \* how many of them the connection has read
  input,     \* inputBuffer_
  at,        \* "poll", or in onMessage
  state,     \* state_
  consumed,  \* history: bytes that onMessage took out of input
  frames     \* history: the payloads given to recvmsg

vars == <<sent, stream, received, input, at, state, consumed, frames>>

Init ==
  /\ sent \in Sendings
  /\ \E tail \in Tails : stream = Wire(sent) \o tail
  /\ received = 0 /\ input = Fresh
  /\ at = "poll" /\ state = "kConnected"
  /\ consumed = 0 /\ frames = <<>>

\* handleRead: TCP delivers any number of the bytes that are on their way
Read(n) ==
  /\ at = "poll" /\ state # "kDisconnected"
  /\ received + n <= Len(stream) /\ n <= ReadRoom(input)
  /\ input' = ReadFd(input, n, [i \in 1..n |-> stream[received + i]])
  /\ received' = received + n
  /\ at' = "onMessage"
  /\ UNCHANGED <<sent, stream, state, consumed, frames>>

\* the client's FIN, after all bytes: what is not a frame yet is lost
End ==
  /\ at = "poll" /\ received = Len(stream) /\ state # "kDisconnected"
  /\ state' = "kDisconnected"
  /\ UNCHANGED <<sent, stream, received, input, at, consumed, frames>>

HasHeader == ReadableBytes(input) >= HeaderLen
Length == Number(Peek(input, HeaderLen))

Valid(len) == len > 0 /\ len <= MaxLen

IsWholeMut(len) == ReadableBytes(input) >= len  \* mutant: forgets the header
IsWhole(len) == ReadableBytes(input) >= HeaderLen + len

\* One iteration of onMessage: to the next frame, ...
NextFrame ==
  /\ at = "onMessage" /\ HasHeader /\ Valid(Length)
  /\ IsWhole(Length)
  /\ LET rest    == Retrieve(input, HeaderLen)
         payload == FrontString(rest, Length)
     IN /\ frames' = Append(frames, payload)
        /\ input' = Retrieve(rest, Length)
        /\ consumed' = consumed + HeaderLen + Len(payload)
  /\ UNCHANGED <<sent, stream, received, at, state>>

\* ... to a length that is none, which stays in the buffer, ...
BadLength ==
  /\ at = "onMessage" /\ HasHeader /\ ~Valid(Length)
  /\ state' = "kDisconnecting"
  /\ at' = "poll"
  /\ UNCHANGED <<sent, stream, received, input, consumed, frames>>

\* ... or to the end of what is there.
NeedsMore ==
  /\ at = "onMessage"
  /\ HasHeader => Valid(Length) /\ ~IsWhole(Length)
  /\ at' = "poll"
  /\ UNCHANGED <<sent, stream, received, input, state, consumed, frames>>

Next ==
  \/ \E n \in 1..(Len(stream) - received) : Read(n)
  \/ End \/ NextFrame \/ BadLength \/ NeedsMore

Spec == Init /\ [][Next]_vars

-----------------------------------------------------------------------------
(* Properties *)

\* The buffer stays within its vector and holds what was read and not taken
\* out, in order, whichever of appending, compacting, growing and the
\* overflow into extrabuf put it there (Buffer.hpp:62, 87, 104).
BufferSound ==
  /\ CheapPrepend <= input.reader /\ input.reader <= input.writer
  /\ input.writer <= Len(input.mem)
  /\ ReadableBytes(input) = received - consumed
  /\ \A i \in 1..ReadableBytes(input) : Peek(input, ReadableBytes(input))[i] = stream[consumed + i]

\* Between two reads the frames given to recvmsg are those in the bytes read
\* so far, wherever the reads cut them: all whole ones of the client, none
\* beyond a bad length, which ends the connection (chatserver.cpp:17).
FramesExact ==
  LET rest == SubSeq(stream, Len(Wire(frames)) + 1, received)
      len  == Number(rest)
  IN at = "poll" =>
       /\ \A i \in DOMAIN frames : Len(frames[i]) \in 1..MaxLen
       /\ Wire(frames) \o rest = SubSeq(stream, 1, received)
       /\ \A k \in 0..Len(sent) :
            Len(Wire(SubSeq(sent, 1, k))) <= received => SubSeq(frames, 1, k) = SubSeq(sent, 1, k)
       /\ IF Len(rest) >= HeaderLen /\ len \notin 1..MaxLen THEN state # "kConnected"
          ELSE Len(rest) < HeaderLen \/ Len(rest) < HeaderLen + len
       /\ state = "kDisconnecting" => Len(rest) >= HeaderLen /\ len \notin 1..MaxLen
=============================================================================
