---------------------------- MODULE FramingProofs ----------------------------
(* The buffer of Framing is sound, and the cut into frames exact, for every *)
(* stream, every size of the buffer and of the bytes, and all reads.         *)
EXTENDS Framing, SequenceTheorems, WellFoundedInduction, TLAPS

\* A buffer within its vector.
Ok(b) ==
  /\ b \in [mem : Seq(Byte), reader : Nat, writer : Nat]
  /\ CheapPrepend <= b.reader /\ b.reader <= b.writer /\ b.writer <= Len(b.mem)

\* A function on 1..n is a sequence of length n.
LEMMA FunctionIsSeq ==
  ASSUME NEW S, NEW n \in Nat, NEW f \in [1..n -> S]
  PROVE  f \in Seq(S) /\ Len(f) = n
OBVIOUS

\* memcpy changes its n bytes and nothing else.
LEMMA PutLemma ==
  ASSUME NEW mem \in Seq(Byte), NEW i \in Nat, NEW n \in Nat, i + n <= Len(mem),
         NEW f, \A k \in 1..n : f[k] \in Byte
  PROVE  LET p == Put(mem, i, n, f) IN
         /\ p \in Seq(Byte) /\ Len(p) = Len(mem)
         /\ \A k \in 1..n : p[i + k] = f[k]
         /\ \A k \in 1..Len(mem) : k <= i \/ i + n < k => p[k] = mem[k]
<1> DEFINE p == Put(mem, i, n, f)
<1>1. DOMAIN mem = 1..Len(mem) /\ Len(mem) \in Nat
  OBVIOUS
<1>2. ASSUME NEW k \in 1..Len(mem)
      PROVE  (IF i < k /\ k <= i + n THEN f[k - i] ELSE mem[k]) \in Byte
  <2>1. CASE i < k /\ k <= i + n
    <3>1. k - i \in 1..n
      BY <1>1, <2>1
    <3> QED
      BY <2>1, <3>1
  <2>2. CASE ~(i < k /\ k <= i + n)
    BY <2>2, <1>1
  <2> QED
    BY <2>1, <2>2
<1>3. p \in [1..Len(mem) -> Byte]
  BY <1>1, <1>2 DEF Put
<1>4. p \in Seq(Byte) /\ Len(p) = Len(mem)
  BY <1>1, <1>3, FunctionIsSeq
<1>5. ASSUME NEW k \in 1..n PROVE p[i + k] = f[k]
  <2> DEFINE j == i + k
  <2>1. j \in 1..Len(mem) /\ i < j /\ j <= i + n /\ j - i = k
    BY <1>1
  <2> HIDE DEF j
  <2>2. p[j] = f[j - i]
    BY <1>1, <2>1 DEF Put
  <2> QED
    BY <2>1, <2>2 DEF j
<1>6. ASSUME NEW k \in 1..Len(mem), k <= i \/ i + n < k PROVE p[k] = mem[k]
  <2>1. ~(i < k /\ k <= i + n)
    BY <1>1, <1>6
  <2> QED
    BY <1>1, <2>1 DEF Put
<1> QED
  BY <1>4, <1>5, <1>6

\* Writing into the free part appends to what is readable.
LEMMA WriteLemma ==
  ASSUME NEW b, Ok(b), NEW n \in Nat, n <= WritableBytes(b),
         NEW data, \A k \in 1..n : data[k] \in Byte
  PROVE  LET w == Write(b, n, data) IN
         /\ Ok(w) /\ w.reader = b.reader /\ w.writer = b.writer + n /\ Len(w.mem) = Len(b.mem)
         /\ \A k \in 1..ReadableBytes(b) : w.mem[w.reader + k] = b.mem[b.reader + k]
         /\ \A k \in 1..n : w.mem[w.reader + ReadableBytes(b) + k] = data[k]
<1> DEFINE w == Write(b, n, data)
           p == Put(b.mem, b.writer, n, data)
<1>1. /\ b.mem \in Seq(Byte) /\ Len(b.mem) \in Nat /\ b.reader \in Nat /\ b.writer \in Nat
      /\ CheapPrepend <= b.reader /\ b.reader <= b.writer /\ b.writer + n <= Len(b.mem)
  BY DEF Ok, WritableBytes
<1>2. /\ p \in Seq(Byte) /\ Len(p) = Len(b.mem)
      /\ \A k \in 1..n : p[b.writer + k] = data[k]
      /\ \A k \in 1..Len(b.mem) : k <= b.writer \/ b.writer + n < k => p[k] = b.mem[k]
  BY <1>1, PutLemma
<1>3. w = [mem |-> p, reader |-> b.reader, writer |-> b.writer + n]
  BY DEF Ok, Write
<1> HIDE DEF p, w
<1>4. Ok(w)
  BY <1>1, <1>2, <1>3, FramingAssumption DEF Ok
<1>5. ASSUME NEW k \in 1..ReadableBytes(b)
      PROVE  w.mem[w.reader + k] = b.mem[b.reader + k]
  <2>1. b.reader + k \in 1..Len(b.mem) /\ b.reader + k <= b.writer
    BY <1>1 DEF ReadableBytes
  <2> QED
    BY <1>2, <1>3, <2>1
<1>6. ASSUME NEW k \in 1..n
      PROVE  w.mem[w.reader + ReadableBytes(b) + k] = data[k]
  <2>1. b.reader + ReadableBytes(b) + k = b.writer + k
    BY <1>1 DEF ReadableBytes
  <2> QED
    BY <1>2, <1>3, <2>1
<1> QED
  BY <1>2, <1>3, <1>4, <1>5, <1>6 DEF w

\* Growing and compacting keep what is readable and make room for n bytes.
LEMMA RoomLemma ==
  ASSUME NEW b, Ok(b), NEW n \in Nat
  PROVE  LET e == EnsureWritableBytes(b, n) IN
         /\ Ok(e) /\ n <= WritableBytes(e) /\ ReadableBytes(e) = ReadableBytes(b)
         /\ \A k \in 1..ReadableBytes(b) : e.mem[e.reader + k] = b.mem[b.reader + k]
<1> DEFINE e == EnsureWritableBytes(b, n)
           r == ReadableBytes(b)
<1>1. /\ b.mem \in Seq(Byte) /\ Len(b.mem) \in Nat /\ b.reader \in Nat /\ b.writer \in Nat
      /\ CheapPrepend <= b.reader /\ b.reader <= b.writer /\ b.writer <= Len(b.mem)
      /\ CheapPrepend \in Nat
  BY FramingAssumption DEF Ok
<1>2. CASE ~(WritableBytes(b) < n)
  <2>1. e = b
    BY <1>2 DEF EnsureWritableBytes
  <2>2. n <= WritableBytes(b)
    BY <1>1, <1>2 DEF WritableBytes
  <2> QED
    BY <2>1, <2>2
<1>3. CASE WritableBytes(b) < n /\ Compacts(b, n)
  <2> DEFINE p == Put(b.mem, CheapPrepend, r, Peek(b, r))
  <2>1. e = [mem |-> p, reader |-> CheapPrepend, writer |-> CheapPrepend + r]
    BY <1>3 DEF EnsureWritableBytes, MakeSpace
  <2>2. r \in Nat /\ r = b.writer - b.reader
    BY <1>1 DEF ReadableBytes
  <2>3. \A k \in 1..r : Peek(b, r)[k] = b.mem[b.reader + k] /\ Peek(b, r)[k] \in Byte
    <3>1. \A k \in 1..r : b.reader + k \in 1..Len(b.mem)
      BY <1>1, <2>2
    <3> QED
      BY <1>1, <3>1 DEF Peek
  <2>4. CheapPrepend + r <= Len(b.mem) /\ n <= Len(b.mem) - (CheapPrepend + r)
    BY <1>1, <1>3, <2>2 DEF Compacts, WritableBytes
  <2>5. /\ p \in Seq(Byte) /\ Len(p) = Len(b.mem)
        /\ \A k \in 1..r : p[CheapPrepend + k] = Peek(b, r)[k]
    BY <1>1, <2>2, <2>3, <2>4, PutLemma
  <2> HIDE DEF p, r, e
  <2>6. Ok(e) /\ n <= WritableBytes(e) /\ ReadableBytes(e) = r
    BY <1>1, <2>1, <2>2, <2>4, <2>5 DEF Ok, WritableBytes, ReadableBytes
  <2>7. ASSUME NEW k \in 1..r PROVE e.mem[e.reader + k] = b.mem[b.reader + k]
    BY <2>1, <2>3, <2>5
  <2> QED
    BY <2>6, <2>7 DEF e, r
<1>4. CASE WritableBytes(b) < n /\ ~Compacts(b, n)
  <2> DEFINE p == [k \in 1..(b.writer + n) |-> IF k <= Len(b.mem) THEN b.mem[k] ELSE 0]
  <2>1. e = [b EXCEPT !.mem = p]
    BY <1>4 DEF EnsureWritableBytes, MakeSpace
  <2>2. p \in [1..(b.writer + n) -> Byte]
    <3>1. 0 \in Byte
      BY FramingAssumption DEF Byte
    <3>2. \A k \in 1..Len(b.mem) : b.mem[k] \in Byte
      BY <1>1
    <3> QED
      BY <1>1, <3>1, <3>2
  <2>3. b.writer + n \in Nat
    BY <1>1
  <2>4. p \in Seq(Byte) /\ Len(p) = b.writer + n
    BY <2>2, <2>3, FunctionIsSeq
  <2>5. \A k \in 1..Len(b.mem) : p[k] = b.mem[k]
    BY <1>1, <1>4 DEF WritableBytes
  <2>6. e.mem = p /\ e.reader = b.reader /\ e.writer = b.writer
        /\ e \in [mem : Seq(Byte), reader : Nat, writer : Nat]
    BY <2>1, <2>4 DEF Ok
  <2> HIDE DEF p, r, e
  <2>7. Ok(e) /\ n <= WritableBytes(e) /\ ReadableBytes(e) = ReadableBytes(b)
    BY <1>1, <2>3, <2>4, <2>6 DEF Ok, WritableBytes, ReadableBytes
  <2>8. \A k \in 1..ReadableBytes(b) : e.mem[e.reader + k] = b.mem[b.reader + k]
    <3>1. \A k \in 1..ReadableBytes(b) : b.reader + k \in 1..Len(b.mem)
      BY <1>1 DEF ReadableBytes
    <3> QED
      BY <2>5, <2>6, <3>1
  <2> QED
    BY <2>7, <2>8 DEF e
<1> QED
  BY <1>2, <1>3, <1>4

\* a is b with n more bytes to read.
Appended(b, a, n, data) ==
  /\ Ok(a) /\ ReadableBytes(a) = ReadableBytes(b) + n
  /\ \A k \in 1..ReadableBytes(b) : a.mem[a.reader + k] = b.mem[b.reader + k]
  /\ \A k \in 1..n : a.mem[a.reader + ReadableBytes(b) + k] = data[k]

\* append makes room and writes.
LEMMA AppendLemma ==
  ASSUME NEW b, Ok(b), NEW n \in Nat, NEW data, \A k \in 1..n : data[k] \in Byte
  PROVE  Appended(b, AppendBytes(b, n, data), n, data)
<1> DEFINE e == EnsureWritableBytes(b, n)
           a == Write(e, n, data)
<1>1. /\ Ok(e) /\ n <= WritableBytes(e) /\ ReadableBytes(e) = ReadableBytes(b)
      /\ \A k \in 1..ReadableBytes(b) : e.mem[e.reader + k] = b.mem[b.reader + k]
  BY RoomLemma
<1> HIDE DEF e
<1>2. /\ Ok(a) /\ a.reader = e.reader /\ a.writer = e.writer + n
      /\ \A k \in 1..ReadableBytes(e) : a.mem[a.reader + k] = e.mem[e.reader + k]
      /\ \A k \in 1..n : a.mem[a.reader + ReadableBytes(e) + k] = data[k]
  BY <1>1, WriteLemma
<1> HIDE DEF a
<1>3. ReadableBytes(a) = ReadableBytes(b) + n
  <2>1. e.reader \in Nat /\ e.writer \in Nat
    BY <1>1 DEF Ok
  <2> QED
    BY <1>1, <1>2, <2>1 DEF ReadableBytes
<1>4. Appended(b, a, n, data)
  BY <1>1, <1>2, <1>3 DEF Appended
<1> QED
  BY <1>4 DEF a, e, AppendBytes

\* readFd appends what was read, in the vector or by way of extrabuf.
LEMMA ReadFdLemma ==
  ASSUME NEW b, Ok(b), NEW n \in Nat, NEW data, \A k \in 1..n : data[k] \in Byte
  PROVE  Appended(b, ReadFd(b, n, data), n, data)
<1> DEFINE v == WritableBytes(b)
           r == ReadableBytes(b)
<1>1. v \in Nat /\ r \in Nat
  BY DEF Ok, WritableBytes, ReadableBytes
<1>2. ASSUME NEW m \in Nat, m <= v, \A k \in 1..m : data[k] \in Byte
      PROVE  Appended(b, Write(b, m, data), m, data)
  <2> DEFINE a == Write(b, m, data)
  <2>1. /\ Ok(a) /\ a.reader = b.reader /\ a.writer = b.writer + m
        /\ \A k \in 1..ReadableBytes(b) : a.mem[a.reader + k] = b.mem[b.reader + k]
        /\ \A k \in 1..m : a.mem[a.reader + ReadableBytes(b) + k] = data[k]
    BY <1>2, WriteLemma
  <2> HIDE DEF a
  <2>2. b.reader \in Nat /\ b.writer \in Nat
    BY DEF Ok
  <2>3. ReadableBytes(a) = ReadableBytes(b) + m
    BY <2>1, <2>2 DEF ReadableBytes
  <2>4. Appended(b, a, m, data)
    BY <2>1, <2>3 DEF Appended
  <2> QED
    BY <2>4 DEF a
<1>3. CASE n <= v
  BY <1>2, <1>3 DEF ReadFd
<1>4. CASE ~(n <= v)
  <2> DEFINE w == Write(b, v, data)
             rest == [i \in 1..(n - v) |-> data[v + i]]
             a == AppendBytes(w, n - v, rest)
  <2>1. n - v \in Nat /\ \A k \in 1..v : k \in 1..n
    BY <1>1, <1>4
  <2>2. \A k \in 1..(n - v) : rest[k] = data[v + k] /\ rest[k] \in Byte
    <3>1. \A k \in 1..(n - v) : v + k \in 1..n
      BY <1>1, <1>4
    <3> QED
      BY <3>1
  <2>3. Appended(b, w, v, data)
    BY <1>1, <1>2, <2>1
  <2> HIDE DEF w, rest
  <2>4. Ok(w) /\ ReadableBytes(w) = r + v
    BY <2>3 DEF Appended
  <2>5. Appended(w, a, n - v, rest)
    BY <2>1, <2>2, <2>4, AppendLemma
  <2> HIDE DEF a, r, v
  <2>6. Ok(a) /\ ReadableBytes(a) = r + n
    BY <1>1, <2>1, <2>4, <2>5 DEF Appended
  <2>7. ASSUME NEW k \in 1..(r + v) PROVE a.mem[a.reader + k] = w.mem[w.reader + k]
    BY <2>4, <2>5 DEF Appended
  <2>8. ASSUME NEW k \in 1..r PROVE a.mem[a.reader + k] = b.mem[b.reader + k]
    <3>1. k \in 1..(r + v)
      BY <1>1
    <3> QED
      BY <2>3, <2>7, <3>1 DEF Appended, r
  <2>9. ASSUME NEW k \in 1..n PROVE a.mem[a.reader + r + k] = data[k]
    <3>1. a.reader \in Nat /\ w.reader \in Nat
      BY <2>4, <2>6 DEF Ok
    <3>2. CASE k <= v
      <4>1. /\ r + k \in 1..(r + v) /\ k \in 1..v
            /\ a.reader + r + k = a.reader + (r + k) /\ w.reader + r + k = w.reader + (r + k)
        BY <1>1, <3>1, <3>2
      <4>2. w.mem[w.reader + r + k] = data[k]
        BY <2>3, <4>1 DEF Appended, r
      <4> QED
        BY <2>7, <4>1, <4>2
    <3>3. CASE ~(k <= v)
      <4> DEFINE j == k - v
      <4>1. j \in 1..(n - v) /\ v + j = k /\ a.reader + (r + v) + j = a.reader + r + k
        BY <1>1, <3>1, <3>3
      <4> HIDE DEF j
      <4>2. a.mem[a.reader + (r + v) + j] = rest[j]
        BY <2>4, <2>5, <4>1 DEF Appended
      <4> QED
        BY <2>2, <4>1, <4>2
    <3> QED
      BY <3>2, <3>3
  <2>10. Appended(b, a, n, data)
    BY <2>6, <2>8, <2>9 DEF Appended, r
  <2> QED
    BY <1>4, <2>10 DEF ReadFd, a, w, rest, v
<1> QED
  BY <1>3, <1>4

\* Taking n bytes leaves the others; taking them all starts again in front.
LEMMA RetrieveLemma ==
  ASSUME NEW b, Ok(b), NEW n \in Nat, n <= ReadableBytes(b)
  PROVE  LET a == Retrieve(b, n) IN
         /\ Ok(a) /\ ReadableBytes(a) = ReadableBytes(b) - n
         /\ \A k \in 1..(ReadableBytes(b) - n) : a.mem[a.reader + k] = b.mem[b.reader + n + k]
<1> DEFINE a == Retrieve(b, n)
<1>1. /\ b.mem \in Seq(Byte) /\ Len(b.mem) \in Nat /\ b.reader \in Nat /\ b.writer \in Nat
      /\ CheapPrepend <= b.reader /\ b.reader <= b.writer /\ b.writer <= Len(b.mem)
      /\ CheapPrepend \in Nat
  BY FramingAssumption DEF Ok
<1>2. CASE n < ReadableBytes(b)
  <2>1. a.mem = b.mem /\ a.reader = b.reader + n /\ a.writer = b.writer
        /\ a \in [mem : Seq(Byte), reader : Nat, writer : Nat]
    BY <1>1, <1>2 DEF Ok, Retrieve
  <2> HIDE DEF a
  <2> QED
    BY <1>1, <1>2, <2>1 DEF Ok, ReadableBytes, a
<1>3. CASE ~(n < ReadableBytes(b))
  <2>1. a.mem = b.mem /\ a.reader = CheapPrepend /\ a.writer = CheapPrepend
        /\ a \in [mem : Seq(Byte), reader : Nat, writer : Nat]
    BY <1>1, <1>3 DEF Ok, Retrieve, RetrieveAll
  <2>2. ReadableBytes(b) - n = 0
    BY <1>1, <1>3 DEF ReadableBytes
  <2> HIDE DEF a
  <2>3. Ok(a) /\ ReadableBytes(a) = 0
    BY <1>1, <2>1 DEF Ok, ReadableBytes
  <2> QED
    BY <2>2, <2>3 DEF a
<1> QED
  BY <1>2, <1>3

-----------------------------------------------------------------------------
(* Induction over the naturals, by way of the set of those that have a       *)
(* property, and what flattening a sequence of sequences gives.              *)

\* A set of naturals has a least element; with the set as the argument, no
\* operator has to be instantiated.
LEMMA Least ==
  ASSUME NEW T \in SUBSET Nat, T # {}
  PROVE  \E n \in T : \A m \in T : n <= m
<1> DEFINE R == OpToRel(<, Nat)
<1>1. IsWellFoundedOn(R, Nat)
  BY NatLessThanWellFounded
<1>2. \A x, y \in Nat : <<y, x>> \in R <=> y < x
  BY DEF OpToRel
<1> HIDE DEF R
<1>3. PICK x \in T : \A y \in T : ~ (<<y, x>> \in R)
  BY <1>1, WFMin
<1>4. ASSUME NEW m \in T PROVE x <= m
  <2>1. x \in Nat /\ m \in Nat /\ ~(<<m, x>> \in R)
    BY <1>3
  <2>2. ~(m < x)
    BY <1>2, <2>1
  <2> QED
    BY <2>1, <2>2
<1> QED
  BY <1>4

\* A set with zero and the successors of its elements has all naturals.
LEMMA SetInduction ==
  ASSUME NEW S, 0 \in S, \A n \in Nat : n \in S => n + 1 \in S
  PROVE  Nat \subseteq S
<1> SUFFICES ASSUME Nat \ S # {} PROVE FALSE
  OBVIOUS
<1>1. PICK n \in Nat \ S : \A m \in Nat \ S : n <= m
  BY Least
<1>2. n - 1 \in Nat /\ n - 1 \notin Nat \ S
  BY <1>1
<1> QED
  BY <1>1, <1>2

\* f gives the concatenations of the first n elements of s.
FlatTo(f, s, n) == f = [i \in 1..n |-> IF i = 1 THEN s[i] ELSE f[i-1] \o s[i]]

\* The recursion of FlattenSeq has a solution.
LEMMA FlatExists ==
  ASSUME NEW s, NEW n \in Nat
  PROVE  \E f : FlatTo(f, s, n)
<1> DEFINE S == {k \in Nat : \E f : FlatTo(f, s, k)}
<1>1. 0 \in S
  <2>1. FlatTo(<<>>, s, 0)
    BY DEF FlatTo
  <2> QED
    BY <2>1
<1>2. ASSUME NEW k \in Nat, k \in S PROVE k + 1 \in S
  <2>1. PICK f : FlatTo(f, s, k)
    BY <1>2
  <2> DEFINE g == [i \in 1..(k + 1) |->
                    IF i <= k THEN f[i] ELSE IF i = 1 THEN s[i] ELSE f[i-1] \o s[i]]
             h == [i \in 1..(k + 1) |-> IF i = 1 THEN s[i] ELSE g[i-1] \o s[i]]
  <2>2. ASSUME NEW i \in 1..(k + 1) PROVE g[i] = h[i]
    <3>1. CASE i = 1
      <4>1. CASE k = 0
        BY <3>1, <4>1
      <4>2. CASE k > 0
        <5>1. i \in 1..k
          BY <3>1, <4>2
        <5>2. f[i] = s[i]
          BY <2>1, <3>1, <5>1 DEF FlatTo
        <5> QED
          BY <3>1, <5>1, <5>2
      <4> QED
        BY <4>1, <4>2
    <3>2. CASE i # 1
      <4>1. i - 1 \in 1..k /\ i - 1 \in 1..(k + 1) /\ i - 1 <= k
        BY <3>2
      <4>2. g[i - 1] = f[i - 1]
        BY <4>1
      <4>3. h[i] = f[i - 1] \o s[i]
        BY <3>2, <4>2
      <4>4. CASE i <= k
        <5>1. i \in 1..k
          BY <4>4
        <5>2. f[i] = f[i - 1] \o s[i]
          BY <2>1, <3>2, <5>1 DEF FlatTo
        <5> QED
          BY <4>3, <4>4, <5>2
      <4>5. CASE ~(i <= k)
        BY <3>2, <4>3, <4>5
      <4> QED
        BY <4>4, <4>5
    <3> QED
      BY <3>1, <3>2
  <2>3. g = h
    <3>1. /\ DOMAIN g = 1..(k + 1) /\ g = [i \in DOMAIN g |-> g[i]]
          /\ DOMAIN h = 1..(k + 1) /\ h = [i \in DOMAIN h |-> h[i]]
      OBVIOUS
    <3> HIDE DEF g, h
    <3> QED
      BY <2>2, <3>1
  <2>4. FlatTo(g, s, k + 1)
    <3> HIDE DEF g
    <3> QED
      BY <2>3 DEF FlatTo
  <2> QED
    BY <2>4
<1> HIDE DEF S
<1>3. n \in S
  BY <1>1, <1>2, SetInduction
<1> QED
  BY <1>3 DEF S

\* Solutions for sequences that begin alike begin alike.
LEMMA FlatSame ==
  ASSUME NEW s, NEW t, NEW n \in Nat, NEW m \in Nat, n <= m,
         \A i \in 1..n : s[i] = t[i],
         NEW f, FlatTo(f, s, n), NEW g, FlatTo(g, t, m)
  PROVE  \A i \in 1..n : f[i] = g[i]
<1> DEFINE S == {k \in Nat : k \in 1..n => f[k] = g[k]}
<1>1. 0 \in S
  OBVIOUS
<1>2. ASSUME NEW k \in Nat, k \in S PROVE k + 1 \in S
  <2> DEFINE j == k + 1
  <2> SUFFICES ASSUME j \in 1..n PROVE f[j] = g[j]
    OBVIOUS
  <2>1. j \in 1..m /\ j - 1 = k
    OBVIOUS
  <2> HIDE DEF j
  <2>2. /\ f[j] = IF j = 1 THEN s[j] ELSE f[j - 1] \o s[j]
        /\ g[j] = IF j = 1 THEN t[j] ELSE g[j - 1] \o t[j]
    BY <2>1 DEF FlatTo
  <2>3. j # 1 => f[k] = g[k]
    BY <1>2, <2>1 DEF j
  <2> QED
    BY <2>1, <2>2, <2>3
<1> HIDE DEF S
<1>3. Nat \subseteq S
  BY <1>1, <1>2, SetInduction
<1> QED
  BY <1>3 DEF S

LEMMA FlattenEmpty == \A s : Len(s) = 0 => FlattenSeq(s) = s
BY DEF FlattenSeq

\* FlattenSeq is the last value of a solution.
LEMMA FlattenIsFlat ==
  ASSUME NEW s, Len(s) \in Nat, Len(s) > 0
  PROVE  \E f : FlatTo(f, s, Len(s)) /\ FlattenSeq(s) = f[Len(s)]
<1> DEFINE c == CHOOSE f : FlatTo(f, s, Len(s))
<1>1. FlatTo(c, s, Len(s))
  BY FlatExists
<1>2. FlattenSeq(s) = c[Len(s)]
  BY DEF FlattenSeq, FlatTo
<1> QED
  BY <1>1, <1>2

\* The elements of what Append and \o return.
LEMMA AppendAt ==
  ASSUME NEW S, NEW s \in Seq(S), NEW q \in S
  PROVE  /\ Append(s, q) \in Seq(S) /\ Len(Append(s, q)) = Len(s) + 1
         /\ \A i \in 1..Len(s) : Append(s, q)[i] = s[i]
         /\ Append(s, q)[Len(s) + 1] = q
OBVIOUS

LEMMA EmptyConcat ==
  ASSUME NEW S, NEW q \in Seq(S)
  PROVE  <<>> \o q = q
OBVIOUS

LEMMA ConcatAt ==
  ASSUME NEW S, NEW s \in Seq(S), NEW q \in Seq(S)
  PROVE  /\ s \o q \in Seq(S) /\ Len(s \o q) = Len(s) + Len(q)
         /\ \A i \in 1..Len(s) : (s \o q)[i] = s[i]
         /\ \A i \in 1..Len(q) : (s \o q)[Len(s) + i] = q[i]
<1>1. s \o q \in Seq(S) /\ Len(s \o q) = Len(s) + Len(q)
  OBVIOUS
<1>2. \A i \in 1..Len(s) : (s \o q)[i] = s[i]
  OBVIOUS
<1>3. ASSUME NEW i \in 1..Len(q) PROVE (s \o q)[Len(s) + i] = q[i]
  <2> DEFINE j == Len(s) + i
  <2>1. j \in 1..(Len(s) + Len(q)) /\ ~(j <= Len(s)) /\ j - Len(s) = i
    OBVIOUS
  <2> HIDE DEF j
  <2>2. (s \o q)[j] = q[j - Len(s)]
    BY <2>1
  <2> QED
    BY <2>1, <2>2 DEF j
<1> QED
  BY <1>1, <1>2, <1>3

\* One more sequence to flatten comes behind the others.
LEMMA FlattenAppend ==
  ASSUME NEW S, NEW s \in Seq(Seq(S)), NEW q \in Seq(S)
  PROVE  FlattenSeq(Append(s, q)) = FlattenSeq(s) \o q
<1> DEFINE t == Append(s, q)
           n == Len(s)
<1>1. n \in Nat /\ Len(t) = n + 1 /\ t[n + 1] = q /\ \A i \in 1..n : s[i] = t[i]
  BY AppendAt
<1> HIDE DEF t, n
<1>2. PICK g : FlatTo(g, t, n + 1) /\ FlattenSeq(t) = g[n + 1]
  BY <1>1, FlattenIsFlat
<1>3. CASE n = 0
  <2>1. g[1] = q
    BY <1>1, <1>2, <1>3 DEF FlatTo
  <2>2. FlattenSeq(s) = <<>>
    BY <1>3, FlattenEmpty DEF n
  <2>3. <<>> \o q = q
    BY EmptyConcat
  <2> QED
    BY <1>2, <1>3, <2>1, <2>2, <2>3 DEF t
<1>4. CASE n > 0
  <2>1. PICK f : FlatTo(f, s, n) /\ FlattenSeq(s) = f[n]
    BY <1>1, <1>4, FlattenIsFlat DEF n
  <2>2. f[n] = g[n]
    <3> DEFINE m == n + 1
    <3>2. m \in Nat /\ n <= m /\ FlatTo(g, t, m)
      BY <1>1, <1>2
    <3> HIDE DEF m
    <3>1. \A i \in 1..n : f[i] = g[i]
      <4>1. /\ n \in Nat /\ m \in Nat /\ n <= m /\ \A i \in 1..n : s[i] = t[i]
            /\ FlatTo(f, s, n) /\ FlatTo(g, t, m)
        BY <1>1, <2>1, <3>2
      <4> QED
        BY <4>1, FlatSame
    <3> QED
      BY <1>1, <1>4, <3>1
  <2>3. g[n + 1] = g[n] \o t[n + 1]
    <3> DEFINE m == n + 1
    <3>1. m \in 1..m /\ m # 1 /\ m - 1 = n /\ FlatTo(g, t, m)
      BY <1>1, <1>2, <1>4
    <3> HIDE DEF m
    <3>2. g[m] = g[m - 1] \o t[m]
      BY <3>1 DEF FlatTo
    <3> QED
      BY <3>1, <3>2 DEF m
  <2> QED
    BY <1>1, <1>2, <2>1, <2>2, <2>3 DEF t
<1> QED
  BY <1>1, <1>3, <1>4

\* A frame is two digits and the payload.
LEMMA FrameType ==
  ASSUME NEW p \in Seq(Byte)
  PROVE  /\ Frame(p) \in Seq(Nat) /\ Len(Frame(p)) = HeaderLen + Len(p)
         /\ Frame(p)[1] = Len(p) \div Base /\ Frame(p)[2] = Len(p) % Base
         /\ \A i \in 1..Len(p) : Frame(p)[HeaderLen + i] = p[i]
<1> DEFINE h == <<Len(p) \div Base, Len(p) % Base>>
<1>1. Len(p) \in Nat /\ Len(p) \div Base \in Nat /\ Len(p) % Base \in Nat
  BY FramingAssumption
<1>2. h \in Seq(Nat) /\ Len(h) = 2 /\ h[1] = Len(p) \div Base /\ h[2] = Len(p) % Base
  BY <1>1
<1>3. p \in Seq(Nat)
  <2>1. Byte \subseteq Nat
    BY DEF Byte
  <2> QED
    BY <2>1, SeqMonotonic
<1> HIDE DEF h
<1>4. h \o p \in Seq(Nat) /\ Len(h \o p) = 2 + Len(p) /\ (h \o p)[1] = h[1] /\ (h \o p)[2] = h[2]
      /\ \A i \in 1..Len(p) : (h \o p)[2 + i] = p[i]
  <2>1. /\ h \o p \in Seq(Nat) /\ Len(h \o p) = Len(h) + Len(p)
        /\ \A i \in 1..Len(h) : (h \o p)[i] = h[i]
        /\ \A i \in 1..Len(p) : (h \o p)[Len(h) + i] = p[i]
    <3>1. h \in Seq(Nat) /\ p \in Seq(Nat)
      BY <1>2, <1>3
    <3> QED
      BY <3>1, ConcatAt
  <2> QED
    BY <1>2, <2>1
<1> QED
  BY <1>2, <1>4 DEF Frame, HeaderLen, h

Framed(s) == [i \in DOMAIN s |-> Frame(s[i])]

\* The frames of payloads are as many sequences.
LEMMA FramedType ==
  ASSUME NEW s \in Seq(Seq(Byte))
  PROVE  Framed(s) \in Seq(Seq(Nat)) /\ Len(Framed(s)) = Len(s)
<1>1. Framed(s) \in [1..Len(s) -> Seq(Nat)] /\ Len(s) \in Nat
  <2>1. DOMAIN s = 1..Len(s) /\ \A i \in 1..Len(s) : s[i] \in Seq(Byte)
    OBVIOUS
  <2>2. \A i \in DOMAIN s : Frame(s[i]) \in Seq(Nat)
    BY <2>1, FrameType
  <2> QED
    BY <2>1, <2>2 DEF Framed
<1> QED
  BY <1>1, FunctionIsSeq

LEMMA WireEmpty == Wire(<<>>) = <<>>
<1>1. Framed(<<>>) = <<>> /\ Len(<<>>) = 0
  BY DEF Framed
<1> QED
  BY <1>1, FlattenEmpty DEF Framed, Wire

\* What is sent last is last in the stream.
LEMMA WireAppend ==
  ASSUME NEW s \in Seq(Seq(Byte)), NEW p \in Seq(Byte)
  PROVE  Wire(Append(s, p)) = Wire(s) \o Frame(p)
<1>1. /\ Framed(s) \in Seq(Seq(Nat)) /\ Frame(p) \in Seq(Nat)
      /\ Append(s, p) \in Seq(Seq(Byte)) /\ Len(s) \in Nat /\ Len(Framed(s)) = Len(s)
  BY FramedType, FrameType, AppendAt
<1>2. Framed(Append(s, p)) = Append(Framed(s), Frame(p))
  <2> DEFINE a == Framed(Append(s, p))
             b == Append(Framed(s), Frame(p))
  <2>1. a \in Seq(Seq(Nat)) /\ Len(a) = Len(s) + 1 /\ b \in Seq(Seq(Nat)) /\ Len(b) = Len(s) + 1
    <3>1. a \in Seq(Seq(Nat)) /\ Len(a) = Len(Append(s, p))
      BY <1>1, FramedType
    <3>2. Len(Append(s, p)) = Len(s) + 1
      BY AppendAt
    <3>3. b \in Seq(Seq(Nat)) /\ Len(b) = Len(Framed(s)) + 1
      BY <1>1, AppendAt
    <3> QED
      BY <1>1, <3>1, <3>2, <3>3
  <2>2. ASSUME NEW i \in 1..(Len(s) + 1) PROVE a[i] = b[i]
    <3>1. i \in DOMAIN Append(s, p) /\ a[i] = Frame(Append(s, p)[i])
      BY <1>1, AppendAt DEF Framed
    <3>2. CASE i \in 1..Len(s)
      <4>1. Append(s, p)[i] = s[i] /\ Framed(s)[i] = Frame(s[i]) /\ b[i] = Framed(s)[i]
        BY <1>1, <3>2, AppendAt DEF Framed
      <4> QED
        BY <3>1, <4>1
    <3>3. CASE i = Len(s) + 1
      <4>1. Append(s, p)[i] = p /\ b[i] = Frame(p)
        BY <1>1, <3>3, AppendAt
      <4> QED
        BY <3>1, <4>1
    <3> QED
      BY <1>1, <3>2, <3>3
  <2> HIDE DEF a, b
  <2>3. a = b
    BY <2>1, <2>2
  <2> QED
    BY <2>3 DEF a, b
<1>3. FlattenSeq(Append(Framed(s), Frame(p))) = FlattenSeq(Framed(s)) \o Frame(p)
  BY <1>1, FlattenAppend
<1> QED
  BY <1>2, <1>3 DEF Wire, Framed

\* The first k payloads of s.
Leading(s, k) == SubSeq(s, 1, k)

\* The payloads in front, one more of them, and all.
LEMMA FrontType ==
  ASSUME NEW S, NEW s \in Seq(S), NEW k \in 0..Len(s)
  PROVE  /\ Leading(s, k) \in Seq(S) /\ Len(Leading(s, k)) = k
         /\ \A i \in 1..k : Leading(s, k)[i] = s[i]
BY DEF Leading

LEMMA FrontNext ==
  ASSUME NEW S, NEW s \in Seq(S), NEW k \in 0..(Len(s) - 1)
  PROVE  Leading(s, k + 1) = Append(Leading(s, k), s[k + 1])
<1> DEFINE a == Leading(s, k + 1)
           b == Append(Leading(s, k), s[k + 1])
<1>1. a \in Seq(S) /\ Len(a) = k + 1 /\ \A i \in 1..(k + 1) : a[i] = s[i]
  BY FrontType
<1>2. b \in Seq(S) /\ Len(b) = k + 1 /\ (\A i \in 1..k : b[i] = s[i]) /\ b[k + 1] = s[k + 1]
  <2>1. s[k + 1] \in S /\ k \in 0..Len(s)
    OBVIOUS
  <2> QED
    BY <2>1, FrontType, AppendAt
<1> HIDE DEF a, b
<1>3. ASSUME NEW i \in 1..(k + 1) PROVE a[i] = b[i]
  <2>1. i \in 1..k \/ i = k + 1
    OBVIOUS
  <2> QED
    BY <1>1, <1>2, <2>1
<1>4. a = b
  BY <1>1, <1>2, <1>3
<1> QED
  BY <1>4 DEF a, b

LEMMA FrontEnds ==
  ASSUME NEW S, NEW s \in Seq(S)
  PROVE  Leading(s, 0) = <<>> /\ Leading(s, Len(s)) = s
BY DEF Leading

-----------------------------------------------------------------------------
(* Lengths as two digits.                                                     *)

\* The two digits of a length, and back.
LEMMA Product ==
  ASSUME NEW a \in Nat, NEW b \in Nat, NEW c \in Nat, a < b
  PROVE  c * a + c <= c * b
<1>1. a + 1 <= b
  OBVIOUS
<1>2. PICK d \in Nat : b = a + 1 + d
  <2>1. b - a - 1 \in Nat /\ b = a + 1 + (b - a - 1)
    OBVIOUS
  <2> QED
    BY <2>1
<1>3. c * b = c * a + c + c * d
  BY <1>2
<1>4. c * d \in Nat /\ c * a \in Nat
  OBVIOUS
<1> QED
  BY <1>3, <1>4

\* Quotient and remainder of a length.
LEMMA Division ==
  ASSUME NEW n \in Nat
  PROVE  /\ n \div Base \in Nat /\ n % Base \in Byte
         /\ n = Base * (n \div Base) + (n % Base)
BY FramingAssumption DEF Byte

\* A number has one pair of digits.
LEMMA DigitsUnique ==
  ASSUME NEW a \in Nat, NEW b \in Byte, NEW c \in Nat, NEW d \in Byte,
         Base * a + b = Base * c + d
  PROVE  a = c /\ b = d
<1>1. Base \in Nat /\ b \in Nat /\ d \in Nat /\ b < Base /\ d < Base
  BY FramingAssumption DEF Byte
<1>2. Base * a \in Nat /\ Base * c \in Nat
  BY <1>1
<1>3. ~(a < c)
  <2> SUFFICES ASSUME a < c PROVE FALSE
    OBVIOUS
  <2>1. Base * a + Base <= Base * c
    BY <1>1, Product
  <2> QED
    BY <1>1, <1>2, <2>1
<1>4. ~(c < a)
  <2> SUFFICES ASSUME c < a PROVE FALSE
    OBVIOUS
  <2>1. Base * c + Base <= Base * a
    BY <1>1, Product
  <2> QED
    BY <1>1, <1>2, <2>1
<1>5. a = c
  BY <1>3, <1>4
<1> QED
  BY <1>1, <1>2, <1>5

\* A number that is above zero is what its two bytes say.
LEMMA NumberLemma ==
  ASSUME NEW h, h[1] \in Byte, h[2] \in Byte
  PROVE  /\ Number(h) \in Int
         /\ Number(h) > 0 => Number(h) = Base * h[1] + h[2]
         /\ 2 * (Base * h[1] + h[2]) < Base * Base => Number(h) = Base * h[1] + h[2]
<1> DEFINE n == Base * h[1] + h[2]
           s == Base * Base
<1>1. Base \in Nat /\ h[1] \in Nat /\ h[2] \in Nat /\ h[1] < Base /\ h[2] < Base
  BY FramingAssumption DEF Byte
<1>2. n \in Nat /\ s \in Nat
  BY <1>1
<1>3. n < s
  <2>1. Base * h[1] + Base <= Base * Base
    BY <1>1, Product
  <2>2. Base * h[1] \in Nat
    BY <1>1
  <2> QED
    BY <1>1, <2>1, <2>2
<1>4. Number(h) = IF 2 * n < s THEN n ELSE n - s
  BY DEF Number
<1> HIDE DEF n, s
<1>5. Number(h) \in Int /\ (Number(h) > 0 => Number(h) = n) /\ (2 * n < s => Number(h) = n)
  BY <1>2, <1>3, <1>4
<1> QED
  BY <1>5 DEF n, s

-----------------------------------------------------------------------------
(* The bytes of a sequence of payloads.                                       *)

IsPrefixOf(a, b) == Len(a) <= Len(b) /\ \A i \in 1..Len(a) : a[i] = b[i]

\* A legal length has two digits.
LEMMA FrameBytes ==
  ASSUME NEW p \in Seq(Byte), Len(p) \in 1..MaxLen
  PROVE  Frame(p) \in Seq(Byte)
<1> DEFINE q == Len(p) \div Base
           r == Len(p) % Base
           f == Frame(p)
<1>1. /\ Len(p) \in Nat /\ Base \in Nat /\ q \in Nat /\ r \in Byte
      /\ Len(p) = Base * q + r /\ Len(p) <= MaxLen /\ MaxLen \in Nat
  <2>1. Len(p) \in Nat /\ Base \in Nat /\ MaxLen \in Nat /\ Len(p) <= MaxLen
    BY FramingAssumption
  <2>2. q \in Nat /\ r \in Byte /\ Len(p) = Base * q + r
    BY <2>1, Division
  <2> QED
    BY <2>1, <2>2
<1>2. q \in Byte
  <2> SUFFICES ASSUME Base <= q PROVE FALSE
    BY <1>1 DEF Byte
  <2> HIDE DEF q, r
  <2>1. Base * Base <= Base * q
    <3>1. CASE Base = q
      BY <1>1, <3>1
    <3>2. CASE Base < q
      <4>1. Base * Base + Base <= Base * q
        BY <1>1, <3>2, Product
      <4>2. Base * Base \in Nat /\ Base * q \in Nat
        BY <1>1
      <4> QED
        BY <1>1, <4>1, <4>2
    <3> QED
      BY <1>1, <3>1, <3>2
  <2> DEFINE s == Base * Base
             t == Base * q
  <2>2. s \in Nat /\ t \in Nat /\ r \in Nat /\ s <= t /\ 2 * MaxLen < s /\ Len(p) = t + r
    BY <1>1, <2>1, FramingAssumption DEF Byte
  <2> HIDE DEF s, t
  <2> QED
    BY <1>1, <2>2
<1>3. /\ f \in Seq(Nat) /\ Len(f) = HeaderLen + Len(p) /\ f[1] = q /\ f[2] = r
      /\ \A i \in 1..Len(p) : f[HeaderLen + i] = p[i]
  BY FrameType
<1> HIDE DEF f, q, r
<1>4. ASSUME NEW i \in 1..Len(f) PROVE f[i] \in Byte
  <2>1. CASE i = 1 \/ i = 2
    BY <1>1, <1>2, <1>3, <2>1
  <2>2. CASE i > 2
    <3> DEFINE j == i - 2
    <3>1. j \in 1..Len(p) /\ HeaderLen + j = i
      BY <1>1, <1>3, <2>2 DEF HeaderLen
    <3> HIDE DEF j
    <3> QED
      BY <1>3, <3>1
  <2>3. i \in Nat /\ i >= 1
    OBVIOUS
  <2> QED
    BY <2>1, <2>2, <2>3
<1>5. f \in [1..Len(f) -> Byte] /\ Len(f) \in Nat
  BY <1>3, <1>4
<1> QED
  BY <1>5, FunctionIsSeq DEF f

\* The stream of payloads is a sequence of numbers.
LEMMA WireType ==
  ASSUME NEW s \in Seq(Seq(Byte))
  PROVE  Wire(s) \in Seq(Nat)
<1> DEFINE S == {k \in Nat : k <= Len(s) => Wire(Leading(s, k)) \in Seq(Nat)}
<1>1. 0 \in S
  <2>1. Wire(Leading(s, 0)) = <<>>
    BY FrontEnds, WireEmpty
  <2>2. <<>> \in Seq(Nat)
    OBVIOUS
  <2> QED
    BY <2>1, <2>2
<1>2. ASSUME NEW k \in Nat, k \in S PROVE k + 1 \in S
  <2> SUFFICES ASSUME k + 1 <= Len(s) PROVE Wire(Leading(s, k + 1)) \in Seq(Nat)
    OBVIOUS
  <2>1. k \in 0..Len(s) /\ k \in 0..(Len(s) - 1) /\ s[k + 1] \in Seq(Byte)
    OBVIOUS
  <2>2. Wire(Leading(s, k)) \in Seq(Nat) /\ Leading(s, k) \in Seq(Seq(Byte))
    BY <1>2, <2>1, FrontType
  <2>3. Wire(Leading(s, k + 1)) = Wire(Leading(s, k)) \o Frame(s[k + 1])
    BY <2>1, <2>2, FrontNext, WireAppend
  <2>4. Frame(s[k + 1]) \in Seq(Nat)
    BY <2>1, FrameType
  <2> QED
    BY <2>2, <2>3, <2>4, ConcatAt
<1> HIDE DEF S
<1>3. Len(s) \in S
  BY <1>1, <1>2, SetInduction
<1> QED
  BY <1>3, FrontEnds DEF S

\* The bytes of a payload added to a sequence.
LEMMA WireMore ==
  ASSUME NEW s \in Seq(Seq(Byte)), NEW p \in Seq(Byte)
  PROVE  LET w == Wire(Append(s, p)) IN
         /\ w \in Seq(Nat) /\ Len(w) = Len(Wire(s)) + HeaderLen + Len(p)
         /\ IsPrefixOf(Wire(s), w)
         /\ w[Len(Wire(s)) + 1] = Len(p) \div Base /\ w[Len(Wire(s)) + 2] = Len(p) % Base
         /\ \A i \in 1..Len(p) : w[Len(Wire(s)) + HeaderLen + i] = p[i]
<1> DEFINE w == Wire(Append(s, p))
           v == Wire(s)
           f == Frame(p)
<1>1. v \in Seq(Nat) /\ f \in Seq(Nat) /\ Len(p) \in Nat /\ Len(v) \in Nat /\ HeaderLen = 2
  BY WireType, FrameType DEF HeaderLen
<1>2. w = v \o f
  BY WireAppend
<1>3. /\ Len(f) = HeaderLen + Len(p) /\ f[1] = Len(p) \div Base /\ f[2] = Len(p) % Base
      /\ \A i \in 1..Len(p) : f[HeaderLen + i] = p[i]
  BY FrameType
<1> HIDE DEF w, v, f
<1>4. /\ w \in Seq(Nat) /\ Len(w) = Len(v) + Len(f)
      /\ \A i \in 1..Len(v) : w[i] = v[i]
      /\ \A i \in 1..Len(f) : w[Len(v) + i] = f[i]
  BY <1>1, <1>2, ConcatAt
<1>5. IsPrefixOf(v, w)
  BY <1>1, <1>3, <1>4 DEF IsPrefixOf
<1>6. w[Len(v) + 1] = f[1] /\ w[Len(v) + 2] = f[2]
  BY <1>1, <1>3, <1>4
<1>7. ASSUME NEW i \in 1..Len(p) PROVE w[Len(v) + HeaderLen + i] = p[i]
  <2>1. HeaderLen + i \in 1..Len(f) /\ Len(v) + HeaderLen + i = Len(v) + (HeaderLen + i)
    BY <1>1, <1>3
  <2> QED
    BY <1>3, <1>4, <2>1
<1>8. Len(w) = Len(v) + HeaderLen + Len(p)
  BY <1>1, <1>3, <1>4
<1> QED
  BY <1>3, <1>4, <1>5, <1>6, <1>7, <1>8 DEF w, v

\* The bytes of payloads that are short enough are bytes.
LEMMA WireBytes ==
  ASSUME NEW s \in Seq(Seq(Byte)), \A i \in DOMAIN s : Len(s[i]) \in 1..MaxLen
  PROVE  Wire(s) \in Seq(Byte)
<1> DEFINE S == {k \in Nat : k <= Len(s) => Wire(Leading(s, k)) \in Seq(Byte)}
<1>1. 0 \in S
  <2>1. Wire(Leading(s, 0)) = <<>>
    BY FrontEnds, WireEmpty
  <2>2. <<>> \in Seq(Byte)
    OBVIOUS
  <2> QED
    BY <2>1, <2>2
<1>2. ASSUME NEW k \in Nat, k \in S PROVE k + 1 \in S
  <2> SUFFICES ASSUME k + 1 <= Len(s) PROVE Wire(Leading(s, k + 1)) \in Seq(Byte)
    OBVIOUS
  <2>1. /\ k \in 0..Len(s) /\ k \in 0..(Len(s) - 1) /\ s[k + 1] \in Seq(Byte)
        /\ Len(s[k + 1]) \in 1..MaxLen
    OBVIOUS
  <2>2. Wire(Leading(s, k)) \in Seq(Byte) /\ Leading(s, k) \in Seq(Seq(Byte))
    BY <1>2, <2>1, FrontType
  <2>3. Wire(Leading(s, k + 1)) = Wire(Leading(s, k)) \o Frame(s[k + 1])
    BY <2>1, <2>2, FrontNext, WireAppend
  <2>4. Frame(s[k + 1]) \in Seq(Byte)
    BY <2>1, FrameBytes
  <2> QED
    BY <2>2, <2>3, <2>4, ConcatAt
<1> HIDE DEF S
<1>3. Len(s) \in S
  BY <1>1, <1>2, SetInduction
<1> QED
  BY <1>3, FrontEnds DEF S

LEMMA PrefixTransitive ==
  ASSUME NEW a \in Seq(Nat), NEW b \in Seq(Nat), NEW c \in Seq(Nat), IsPrefixOf(a, b), IsPrefixOf(b, c)
  PROVE  IsPrefixOf(a, c)
<1>1. Len(a) \in Nat /\ Len(b) \in Nat /\ Len(c) \in Nat /\ Len(a) <= Len(b) /\ Len(b) <= Len(c)
  BY DEF IsPrefixOf
<1>2. ASSUME NEW i \in 1..Len(a) PROVE a[i] = c[i]
  <2>1. i \in 1..Len(b)
    BY <1>1
  <2> QED
    BY <2>1 DEF IsPrefixOf
<1> QED
  BY <1>1, <1>2 DEF IsPrefixOf

\* Fewer payloads make the beginning of the bytes of more.
LEMMA WirePrefix ==
  ASSUME NEW s \in Seq(Seq(Byte)), NEW k \in 0..Len(s), NEW m \in k..Len(s)
  PROVE  IsPrefixOf(Wire(Leading(s, k)), Wire(Leading(s, m)))
<1> DEFINE S == {d \in Nat : k + d <= Len(s) => IsPrefixOf(Wire(Leading(s, k)), Wire(Leading(s, k + d)))}
<1>1. 0 \in S
  BY DEF IsPrefixOf
<1>2. ASSUME NEW d \in Nat, d \in S PROVE d + 1 \in S
  <2> DEFINE j == k + d
  <2> SUFFICES ASSUME j + 1 <= Len(s) PROVE IsPrefixOf(Wire(Leading(s, k)), Wire(Leading(s, j + 1)))
    OBVIOUS
  <2>1. j \in 0..Len(s) /\ j \in 0..(Len(s) - 1) /\ s[j + 1] \in Seq(Byte) /\ j + 1 \in 0..Len(s)
    OBVIOUS
  <2>2. IsPrefixOf(Wire(Leading(s, k)), Wire(Leading(s, j)))
    BY <1>2
  <2> HIDE DEF j
  <2>3. /\ Leading(s, k) \in Seq(Seq(Byte)) /\ Leading(s, j) \in Seq(Seq(Byte))
        /\ Leading(s, j + 1) \in Seq(Seq(Byte))
    BY <2>1, FrontType
  <2>4. Leading(s, j + 1) = Append(Leading(s, j), s[j + 1])
    BY <2>1, FrontNext
  <2>5. IsPrefixOf(Wire(Leading(s, j)), Wire(Leading(s, j + 1)))
    BY <2>1, <2>3, <2>4, WireMore
  <2> QED
    BY <2>2, <2>3, <2>5, WireType, PrefixTransitive
<1> HIDE DEF S
<1>3. Nat \subseteq S
  BY <1>1, <1>2, SetInduction
<1>4. m - k \in Nat /\ k + (m - k) = m /\ m <= Len(s)
  OBVIOUS
<1> QED
  BY <1>3, <1>4 DEF S

-----------------------------------------------------------------------------
\* The inductive invariant: BufferSound, with the type of what it is about.
IInv ==
  /\ Ok(input)
  /\ stream \in Seq(Byte) /\ received \in Nat /\ received <= Len(stream) /\ consumed \in Nat
  /\ ReadableBytes(input) = received - consumed
  /\ \A i \in 1..ReadableBytes(input) : input.mem[input.reader + i] = stream[consumed + i]

LEMMA IInvIsSound == IInv => BufferSound
BY DEF IInv, BufferSound, Ok, Peek

LEMMA InitLemma == Init => IInv
<1> SUFFICES ASSUME Init PROVE IInv
  OBVIOUS
<1>1. stream \in Seq(Byte)
  <2>1. PICK tail \in Tails : stream = Wire(sent) \o tail
    BY DEF Init
  <2>2. Wire(sent) \in Seq(Byte) /\ tail \in Seq(Byte)
    BY WireBytes, StreamAssumption DEF Init
  <2> QED
    BY <2>1, <2>2
<1>2. /\ Zeros(CheapPrepend + InitialSize) \in Seq(Byte)
      /\ Len(Zeros(CheapPrepend + InitialSize)) = CheapPrepend + InitialSize
  <2>1. CheapPrepend + InitialSize \in Nat /\ 0 \in Byte
    BY FramingAssumption DEF Byte
  <2>2. Zeros(CheapPrepend + InitialSize) \in [1..(CheapPrepend + InitialSize) -> Byte]
    BY <2>1 DEF Zeros
  <2> QED
    BY <2>1, <2>2, FunctionIsSeq
<1>3. Ok(Fresh) /\ ReadableBytes(Fresh) = 0
  BY <1>2, FramingAssumption DEF Ok, Fresh, ReadableBytes
<1> QED
  BY <1>1, <1>3 DEF Init, IInv

\* The invariant is kept by a read, which appends to the buffer, ...
LEMMA ReadLemma ==
  ASSUME IInv, NEW n \in 1..(Len(stream) - received), Read(n)
  PROVE  IInv'
<1> DEFINE data == [i \in 1..n |-> stream[received + i]]
<1>1. /\ Ok(input) /\ stream \in Seq(Byte) /\ Len(stream) \in Nat /\ received \in Nat
      /\ received <= Len(stream) /\ consumed \in Nat /\ n \in Nat /\ received + n <= Len(stream)
  BY DEF IInv
<1>2. \A k \in 1..n : data[k] = stream[received + k] /\ data[k] \in Byte
  <2>1. \A k \in 1..n : received + k \in 1..Len(stream)
    BY <1>1
  <2> QED
    BY <1>1, <2>1
<1>3. /\ input' = ReadFd(input, n, data) /\ received' = received + n
      /\ stream' = stream /\ consumed' = consumed
  BY DEF Read
<1> HIDE DEF data
<1>4. Appended(input, input', n, data)
  BY <1>1, <1>2, <1>3, ReadFdLemma
<1> DEFINE r == ReadableBytes(input)
<1>5. r \in Nat /\ r = received - consumed /\ input'.reader \in Nat
  <2>1. r \in Nat
    BY <1>1 DEF Ok, ReadableBytes
  <2>2. r = received - consumed
    BY DEF IInv
  <2>3. Ok(input')
    BY <1>4 DEF Appended
  <2>4. input'.reader \in Nat
    BY <2>3 DEF Ok
  <2> QED
    BY <2>1, <2>2, <2>4
<1>6. Ok(input') /\ ReadableBytes(input') = r + n
  BY <1>4 DEF Appended
<1>7. ASSUME NEW k \in 1..(r + n)
      PROVE  input'.mem[input'.reader + k] = stream[consumed + k]
  <2>1. CASE k <= r
    <3>1. k \in 1..r
      BY <1>1, <1>5, <2>1
    <3> QED
      BY <1>4, <3>1 DEF Appended, IInv
  <2>2. CASE ~(k <= r)
    <3> DEFINE j == k - r
    <3>1. /\ j \in 1..n /\ input'.reader + r + j = input'.reader + k
          /\ received + j = consumed + k
      BY <1>1, <1>5, <2>2
    <3> HIDE DEF j
    <3>2. input'.mem[input'.reader + r + j] = data[j]
      BY <1>4, <3>1 DEF Appended
    <3> QED
      BY <1>2, <3>1, <3>2
  <2> QED
    BY <2>1, <2>2
<1> HIDE DEF r
<1>8. Ok(input)'
  BY <1>6 DEF Ok
<1>9. ReadableBytes(input)' = r + n
  BY <1>6 DEF ReadableBytes
<1>10. /\ stream' \in Seq(Byte) /\ received' \in Nat /\ received' <= Len(stream')
       /\ consumed' \in Nat /\ r + n = received' - consumed'
  BY <1>1, <1>3, <1>5
<1>11. \A i \in 1..(r + n) : input'.mem[input'.reader + i] = stream'[consumed' + i]
  BY <1>3, <1>7
<1> QED
  BY <1>8, <1>9, <1>10, <1>11 DEF IInv

\* The bytes that were read and are in no frame, and whether onMessage takes
\* what is in front of them for a length.
Rest == SubSeq(stream, consumed + 1, received)
IsBad == Len(Rest) >= HeaderLen /\ Number(Rest) \notin 1..MaxLen
IsPart == Len(Rest) < HeaderLen \/ Len(Rest) < HeaderLen + Number(Rest)

\* The frames are what the bytes taken out say, and the client's as far as it
\* sent frames; a connection that goes on has no whole frame left.
FrameInv ==
  /\ sent \in Seq(Seq(Byte)) /\ (\A i \in DOMAIN sent : Len(sent[i]) \in 1..MaxLen)
  /\ IsPrefixOf(Wire(sent), stream)
  /\ frames \in Seq(Seq(Byte)) /\ (\A i \in DOMAIN frames : Len(frames[i]) \in 1..MaxLen)
  /\ consumed = Len(Wire(frames)) /\ IsPrefixOf(Wire(frames), stream)
  /\ \A i \in DOMAIN frames : i <= Len(sent) => frames[i] = sent[i]
  /\ at = "poll" => IF IsBad THEN state # "kConnected" ELSE IsPart
  /\ state = "kDisconnecting" => IsBad

\* The rest is what the buffer holds.
LEMMA RestLemma ==
  ASSUME IInv
  PROVE  /\ Rest \in Seq(Byte) /\ Len(Rest) = received - consumed /\ Len(Rest) = ReadableBytes(input)
         /\ consumed <= received
         /\ \A i \in 1..Len(Rest) : Rest[i] = stream[consumed + i]
<1>1. ReadableBytes(input) \in Nat
  BY DEF IInv, Ok, ReadableBytes
<1>2. consumed \in Nat /\ received \in Nat /\ consumed <= received /\ received <= Len(stream)
  BY <1>1 DEF IInv
<1>3. stream \in Seq(Byte)
  BY DEF IInv
<1>4. Rest \in Seq(Byte) /\ Len(Rest) = received - consumed
  BY <1>2, <1>3 DEF Rest
<1>5. ASSUME NEW i \in 1..Len(Rest) PROVE Rest[i] = stream[consumed + i]
  <2>1. i \in 1..(received - consumed)
    BY <1>4
  <2> QED
    BY <1>2, <1>3, <2>1 DEF Rest
<1> QED
  BY <1>1, <1>2, <1>4, <1>5 DEF IInv

\* What onMessage finds in front of the buffer is in front of the rest.
LEMMA HeaderLemma ==
  ASSUME IInv
  PROVE  /\ HasHeader <=> Len(Rest) >= HeaderLen
         /\ HasHeader => /\ Rest[1] \in Byte /\ Rest[2] \in Byte
                         /\ Length = Number(Rest) /\ Number(Rest) \in Int
                         /\ Valid(Length) <=> Number(Rest) \in 1..MaxLen
                         /\ IsWhole(Length) <=> Len(Rest) >= HeaderLen + Number(Rest)
<1>1. HasHeader <=> Len(Rest) >= HeaderLen
  BY RestLemma DEF HasHeader
<1> SUFFICES ASSUME HasHeader
             PROVE  /\ Rest[1] \in Byte /\ Rest[2] \in Byte
                    /\ Length = Number(Rest) /\ Number(Rest) \in Int
                    /\ Valid(Length) <=> Number(Rest) \in 1..MaxLen
                    /\ IsWhole(Length) <=> Len(Rest) >= HeaderLen + Number(Rest)
  BY <1>1
<1>2. 1 \in 1..Len(Rest) /\ 2 \in 1..Len(Rest) /\ 1 \in 1..HeaderLen /\ 2 \in 1..HeaderLen
  BY <1>1, RestLemma DEF HeaderLen
<1>3. Rest[1] \in Byte /\ Rest[2] \in Byte
  BY <1>2, RestLemma
<1>4. Peek(input, HeaderLen)[1] = Rest[1] /\ Peek(input, HeaderLen)[2] = Rest[2]
  BY <1>2, RestLemma DEF IInv, Peek
<1>5. Length = Number(Rest)
  BY <1>4 DEF Length, Number
<1>6. Number(Rest) \in Int
  BY <1>3, NumberLemma
<1>7. Valid(Length) <=> Number(Rest) \in 1..MaxLen
  BY <1>5, <1>6, FramingAssumption DEF Valid
<1>8. IsWhole(Length) <=> Len(Rest) >= HeaderLen + Number(Rest)
  BY <1>5, RestLemma DEF IsWhole
<1> QED
  BY <1>3, <1>5, <1>6, <1>7, <1>8

\* While the client's frames last, the rest begins with the next of them.
LEMMA NextIsSent ==
  ASSUME IInv, FrameInv, Len(frames) < Len(sent)
  PROVE  LET p == sent[Len(frames) + 1] IN
         /\ p \in Seq(Byte) /\ Len(p) \in 1..MaxLen
         /\ frames = Leading(sent, Len(frames))
         /\ Leading(sent, Len(frames) + 1) = Append(frames, p)
         /\ consumed + HeaderLen + Len(p) <= Len(stream)
         /\ Len(Rest) >= HeaderLen => Number(Rest) = Len(p)
         /\ \A i \in 1..Len(p) : stream[consumed + HeaderLen + i] = p[i]
<1> DEFINE n == Len(frames)
           p == sent[n + 1]
           w == Wire(Append(frames, p))
<1>1. /\ sent \in Seq(Seq(Byte)) /\ frames \in Seq(Seq(Byte)) /\ n \in Nat
      /\ n \in 0..Len(sent) /\ n \in 0..(Len(sent) - 1) /\ n + 1 \in 1..Len(sent)
      /\ n + 1 \in 0..Len(sent) /\ Len(sent) \in (n + 1)..Len(sent) /\ HeaderLen = 2
  BY DEF FrameInv, HeaderLen
<1>2. p \in Seq(Byte) /\ Len(p) \in 1..MaxLen
  BY <1>1 DEF FrameInv
<1>3. frames = Leading(sent, n)
  <2>1. Leading(sent, n) \in Seq(Seq(Byte)) /\ Len(Leading(sent, n)) = n /\ \A i \in 1..n : Leading(sent, n)[i] = sent[i]
    BY <1>1, FrontType
  <2>2. \A i \in 1..n : frames[i] = sent[i]
    BY <1>1 DEF FrameInv
  <2>3. \A i \in 1..n : frames[i] = Leading(sent, n)[i]
    BY <2>1, <2>2
  <2> HIDE DEF p, w
  <2> QED
    BY <1>1, <2>1, <2>3, SeqEqual
<1>4. Leading(sent, n + 1) = Append(frames, p)
  BY <1>1, <1>3, FrontNext
<1>5. IsPrefixOf(w, Wire(sent))
  <2>1. IsPrefixOf(Wire(Leading(sent, n + 1)), Wire(Leading(sent, Len(sent))))
    BY <1>1, WirePrefix
  <2> QED
    BY <1>1, <1>4, <2>1, FrontEnds
<1>6. /\ w \in Seq(Nat) /\ Len(w) = consumed + HeaderLen + Len(p)
      /\ w[consumed + 1] = Len(p) \div Base /\ w[consumed + 2] = Len(p) % Base
      /\ \A i \in 1..Len(p) : w[consumed + HeaderLen + i] = p[i]
  <2>1. consumed = Len(Wire(frames))
    BY DEF FrameInv
  <2> HIDE DEF p, n
  <2> QED
    BY <1>1, <1>2, <2>1, WireMore
<1>7. Wire(sent) \in Seq(Nat) /\ stream \in Seq(Nat) /\ consumed \in Nat
  <2>1. Byte \subseteq Nat /\ stream \in Seq(Byte)
    BY DEF Byte, IInv
  <2> QED
    BY <1>1, <2>1, WireType, SeqMonotonic DEF IInv
<1> HIDE DEF w, p, n
<1>8. IsPrefixOf(w, stream)
  BY <1>5, <1>6, <1>7, PrefixTransitive DEF FrameInv
<1>9. Len(w) <= Len(stream) /\ \A i \in 1..Len(w) : w[i] = stream[i]
  BY <1>8 DEF IsPrefixOf
<1>10. ASSUME NEW i \in 1..Len(p) PROVE stream[consumed + HeaderLen + i] = p[i]
  <2>1. consumed + HeaderLen + i \in 1..Len(w)
    BY <1>1, <1>2, <1>6, <1>7
  <2> QED
    BY <1>6, <1>9, <2>1
<1>11. ASSUME Len(Rest) >= HeaderLen PROVE Number(Rest) = Len(p)
  <2>1. 1 \in 1..Len(Rest) /\ 2 \in 1..Len(Rest)
    BY <1>1, <1>11, RestLemma
  <2>2. consumed + 1 \in 1..Len(w) /\ consumed + 2 \in 1..Len(w)
    BY <1>1, <1>2, <1>6, <1>7
  <2>3. Rest[1] = Len(p) \div Base /\ Rest[2] = Len(p) % Base
    BY <1>6, <1>9, <2>1, <2>2, RestLemma
  <2>4. Rest[1] \in Byte /\ Rest[2] \in Byte
    BY <2>1, RestLemma
  <2>5. Len(p) \in Nat /\ Len(p) <= MaxLen /\ MaxLen \in Nat
    BY <1>2, FramingAssumption
  <2>6. Base * Rest[1] + Rest[2] = Len(p)
    BY <2>3, <2>5, Division
  <2>7. 2 * (Base * Rest[1] + Rest[2]) < Base * Base
    <3> DEFINE s == Base * Base
    <3>1. s \in Int /\ 2 * MaxLen < s
      BY FramingAssumption
    <3> HIDE DEF s
    <3>2. 2 * Len(p) < s
      BY <2>5, <3>1
    <3> QED
      BY <2>6, <3>2 DEF s
  <2> QED
    BY <2>4, <2>6, <2>7, NumberLemma
<1> QED
  BY <1>1, <1>2, <1>3, <1>4, <1>6, <1>9, <1>10, <1>11 DEF p, n

\* What NextFrame takes out of the buffer: the rest without the length, and
\* the payload, which is in the stream behind the length.
LEMMA PayloadLemma ==
  ASSUME IInv, HasHeader, Valid(Length), IsWhole(Length)
  PROVE  LET rest    == Retrieve(input, HeaderLen)
             payload == FrontString(rest, Length)
         IN /\ Length \in Nat /\ Length > 0 /\ HeaderLen + Length <= ReadableBytes(input)
            /\ Ok(rest) /\ ReadableBytes(rest) = ReadableBytes(input) - HeaderLen
            /\ \A k \in 1..(ReadableBytes(input) - HeaderLen) :
                 rest.mem[rest.reader + k] = input.mem[input.reader + HeaderLen + k]
            /\ payload \in Seq(Byte) /\ Len(payload) = Length
            /\ \A k \in 1..Length : payload[k] = stream[consumed + HeaderLen + k]
<1> DEFINE rest == Retrieve(input, HeaderLen)
           len  == Length
           payload == FrontString(rest, len)
           r == ReadableBytes(input)
<1>1. Ok(input) /\ r \in Nat /\ HeaderLen = 2 /\ input.reader \in Nat /\ consumed \in Nat
  BY DEF IInv, Ok, ReadableBytes, HeaderLen
<1>2. len \in Int
  BY HeaderLemma
<1>3. len \in Nat /\ len > 0 /\ HeaderLen + len <= r
  BY <1>1, <1>2 DEF IsWhole, Valid
<1> HIDE DEF len, r
<1>4. /\ Ok(rest) /\ ReadableBytes(rest) = r - HeaderLen
      /\ \A k \in 1..(r - HeaderLen) : rest.mem[rest.reader + k] = input.mem[input.reader + HeaderLen + k]
  BY <1>1, <1>3, RetrieveLemma DEF r
<1> HIDE DEF rest
<1>5. payload = [i \in 1..len |-> rest.mem[rest.reader + i]]
  BY <1>1, <1>3, <1>4 DEF FrontString, Peek
<1>6. payload \in Seq(Byte) /\ Len(payload) = len
  <2>1. \A i \in 1..len : rest.reader + i \in 1..Len(rest.mem)
    BY <1>1, <1>3, <1>4 DEF Ok, ReadableBytes
  <2>2. payload \in [1..len -> Byte]
    BY <1>4, <1>5, <2>1 DEF Ok
  <2> QED
    BY <1>3, <2>2, FunctionIsSeq
<1>7. ASSUME NEW k \in 1..len PROVE payload[k] = stream[consumed + HeaderLen + k]
  <2> DEFINE j == HeaderLen + k
  <2>1. /\ k \in 1..(r - HeaderLen) /\ j \in 1..r
        /\ input.reader + HeaderLen + k = input.reader + j
        /\ consumed + HeaderLen + k = consumed + j
    BY <1>1, <1>3
  <2> HIDE DEF j
  <2>2. payload[k] = rest.mem[rest.reader + k]
    BY <1>5
  <2>3. input.mem[input.reader + j] = stream[consumed + j]
    BY <2>1 DEF IInv, r
  <2> QED
    BY <1>4, <2>1, <2>2, <2>3
<1> HIDE DEF payload
<1> QED
  BY <1>3, <1>4, <1>6, <1>7 DEF payload, rest, len, r

\* ... and by the next frame, which retrieves twice.
LEMMA NextFrameLemma ==
  ASSUME IInv, NextFrame
  PROVE  IInv'
<1> DEFINE rest == Retrieve(input, HeaderLen)
           len  == Length
           payload == FrontString(rest, len)
           r == ReadableBytes(input)
<1>1. Ok(input) /\ r \in Nat /\ HeaderLen = 2 /\ input.reader \in Nat /\ consumed \in Nat
  BY DEF IInv, Ok, ReadableBytes, HeaderLen
<1>2. /\ input' = Retrieve(rest, len) /\ consumed' = consumed + HeaderLen + Len(payload)
      /\ UNCHANGED <<stream, received>>
  BY DEF NextFrame
<1>3. /\ len \in Nat /\ len > 0 /\ HeaderLen + len <= r
      /\ Ok(rest) /\ ReadableBytes(rest) = r - HeaderLen /\ Len(payload) = len
      /\ \A k \in 1..(r - HeaderLen) : rest.mem[rest.reader + k] = input.mem[input.reader + HeaderLen + k]
  BY PayloadLemma DEF NextFrame
<1> HIDE DEF len, r, rest, payload
<1>7. /\ Ok(input') /\ ReadableBytes(input') = r - HeaderLen - len
      /\ \A k \in 1..(r - HeaderLen - len) :
           input'.mem[input'.reader + k] = rest.mem[rest.reader + len + k]
  BY <1>1, <1>2, <1>3, RetrieveLemma
<1>8. ASSUME NEW k \in 1..(r - HeaderLen - len)
      PROVE  input'.mem[input'.reader + k] = stream[consumed' + k]
  <2> DEFINE j == len + k
  <2>1. rest.reader \in Nat
    BY <1>3 DEF Ok
  <2>2. /\ j \in 1..(r - HeaderLen) /\ HeaderLen + j \in 1..r
        /\ rest.reader + len + k = rest.reader + j
        /\ input.reader + HeaderLen + j = input.reader + (HeaderLen + j)
        /\ consumed' + k = consumed + (HeaderLen + j)
    BY <1>1, <1>2, <1>3, <2>1
  <2> HIDE DEF j
  <2>3. input.mem[input.reader + (HeaderLen + j)] = stream[consumed + (HeaderLen + j)]
    BY <2>2 DEF IInv, r
  <2> QED
    BY <1>3, <1>7, <2>2, <2>3
<1>9. Ok(input)' /\ ReadableBytes(input)' = ReadableBytes(input')
  BY <1>7 DEF Ok, ReadableBytes
<1>10. ReadableBytes(input') = received - consumed' /\ consumed' \in Nat
  BY <1>1, <1>2, <1>3, <1>7 DEF IInv, r
<1> QED
  BY <1>2, <1>7, <1>8, <1>9, <1>10 DEF IInv

RestIs ==
  /\ Rest \in Seq(Byte) /\ Len(Rest) = received - consumed
  /\ consumed \in Nat /\ received \in Nat /\ consumed <= received
  /\ \A i \in 1..Len(Rest) : Rest[i] = stream[consumed + i]

LEMMA RestFacts == IInv => RestIs
BY RestLemma DEF RestIs, IInv

LEMMA RestPrimed == IInv' => RestIs'
BY RestFacts, PTL

\* No read changes the frames or makes a bad length good.
LEMMA ReadKeepsFrames ==
  ASSUME IInv, IInv', FrameInv, NEW n \in 1..(Len(stream) - received), Read(n)
  PROVE  FrameInv'
<1>1. /\ received' = received + n /\ at' = "onMessage"
      /\ UNCHANGED <<sent, stream, state, consumed, frames>>
  BY DEF Read
<1>2. ASSUME IsBad PROVE IsBad'
  <2>1. RestIs /\ RestIs'
    BY RestFacts, RestPrimed
  <2>2. Len(Rest) \in Nat /\ Len(Rest') = Len(Rest) + n /\ Len(Rest) >= 2
    BY <1>1, <1>2, <2>1 DEF RestIs, IsBad, HeaderLen
  <2>3. /\ 1 \in 1..Len(Rest) /\ 2 \in 1..Len(Rest)
        /\ 1 \in 1..Len(Rest') /\ 2 \in 1..Len(Rest')
    BY <2>2
  <2>4. Rest[1] = stream[consumed + 1] /\ Rest[2] = stream[consumed + 2]
    BY <2>1, <2>3 DEF RestIs
  <2>5. Rest'[1] = stream[consumed + 1] /\ Rest'[2] = stream[consumed + 2]
    BY <1>1, <2>1, <2>3 DEF RestIs
  <2>6. Number(Rest') = Number(Rest)
    BY <2>4, <2>5 DEF Number
  <2>7. Len(Rest') >= HeaderLen
    BY <2>2 DEF HeaderLen
  <2> QED
    BY <1>2, <2>6, <2>7 DEF IsBad
<1> QED
  BY <1>1, <1>2 DEF FrameInv

\* The iteration that ends the loop of onMessage says rightly why.
LEMMA StopKeepsFrames ==
  ASSUME IInv, FrameInv, End \/ BadLength \/ NeedsMore \/ UNCHANGED vars
  PROVE  FrameInv'
<1>1. UNCHANGED <<sent, stream, received, consumed, frames>>
  BY DEF End, BadLength, NeedsMore, vars
<1>2. (IsBad <=> IsBad') /\ (IsPart <=> IsPart')
  BY <1>1 DEF IsBad, IsPart, Rest
<1>3. /\ at' = "poll" => IF IsBad THEN state' # "kConnected" ELSE IsPart
      /\ state' = "kDisconnecting" => IsBad
  <2>1. CASE End
    BY <2>1 DEF End, FrameInv
  <2>2. CASE BadLength
    <3>1. IsBad
      BY <2>2, HeaderLemma DEF BadLength, IsBad
    <3> QED
      BY <2>2, <3>1 DEF BadLength
  <2>3. CASE NeedsMore
    <3>1. ~IsBad
      BY <2>3, HeaderLemma DEF NeedsMore, IsBad
    <3>2. IsPart
      <4>1. Len(Rest) \in Nat /\ HeaderLen \in Nat
        BY RestLemma DEF HeaderLen
      <4>2. CASE ~HasHeader
        BY <4>1, <4>2, HeaderLemma DEF IsPart
      <4>3. CASE HasHeader
        <5>1. Number(Rest) \in Int /\ ~(Len(Rest) >= HeaderLen + Number(Rest))
          BY <2>3, <4>3, HeaderLemma DEF NeedsMore
        <5> QED
          BY <4>1, <5>1 DEF IsPart
      <4> QED
        BY <4>2, <4>3
    <3>3. state' = state
      BY <2>3 DEF NeedsMore
    <3> QED
      BY <3>1, <3>2, <3>3 DEF FrameInv
  <2>4. CASE UNCHANGED vars
    BY <2>4 DEF vars, FrameInv
  <2> QED
    BY <2>1, <2>2, <2>3, <2>4
<1> QED
  BY <1>1, <1>2, <1>3 DEF FrameInv

\* A frame is in the stream behind the others, and it is the client's.
LEMMA NextFrameKeepsFrames ==
  ASSUME IInv, FrameInv, NextFrame
  PROVE  FrameInv'
<1> DEFINE p == FrontString(Retrieve(input, HeaderLen), Length)
           w == Wire(Append(frames, p))
           n == Len(frames)
<1>1. /\ at = "onMessage" /\ HasHeader /\ Valid(Length) /\ IsWhole(Length)
      /\ frames' = Append(frames, p) /\ consumed' = consumed + HeaderLen + Len(p)
      /\ UNCHANGED <<sent, stream, received, at, state>>
  BY DEF NextFrame
<1>2. /\ Length \in Nat /\ Length > 0 /\ HeaderLen + Length <= ReadableBytes(input)
      /\ p \in Seq(Byte) /\ Len(p) = Length
      /\ \A k \in 1..Length : p[k] = stream[consumed + HeaderLen + k]
  BY <1>1, PayloadLemma
<1>3. /\ Rest[1] \in Byte /\ Rest[2] \in Byte /\ Length = Number(Rest)
      /\ Number(Rest) \in 1..MaxLen
  BY <1>1, HeaderLemma
<1> HIDE DEF p
<1>4. /\ sent \in Seq(Seq(Byte)) /\ frames \in Seq(Seq(Byte)) /\ n \in Nat
      /\ consumed = Len(Wire(frames)) /\ HeaderLen = 2
      /\ consumed \in Nat /\ received \in Nat /\ received <= Len(stream) /\ stream \in Seq(Byte)
      /\ Len(Rest) = received - consumed /\ Len(Rest) = ReadableBytes(input)
      /\ \A i \in 1..Len(Rest) : Rest[i] = stream[consumed + i]
  BY RestLemma DEF FrameInv, IInv, HeaderLen
<1>5. /\ Append(frames, p) \in Seq(Seq(Byte)) /\ Len(Append(frames, p)) = n + 1
      /\ \A i \in 1..n : Append(frames, p)[i] = frames[i]
      /\ Append(frames, p)[n + 1] = p
  BY <1>2, <1>4, AppendAt
<1>6. /\ w \in Seq(Nat) /\ Len(w) = consumed + HeaderLen + Len(p)
      /\ IsPrefixOf(Wire(frames), w)
      /\ w[consumed + 1] = Len(p) \div Base /\ w[consumed + 2] = Len(p) % Base
      /\ \A i \in 1..Len(p) : w[consumed + HeaderLen + i] = p[i]
  BY <1>2, <1>4, WireMore
<1> HIDE DEF w, n
<1>7. Len(p) \div Base = Rest[1] /\ Len(p) % Base = Rest[2]
  <2>1. Len(p) = Base * Rest[1] + Rest[2]
    BY <1>2, <1>3, NumberLemma
  <2>2. /\ Len(p) \div Base \in Nat /\ Len(p) % Base \in Byte
        /\ Len(p) = Base * (Len(p) \div Base) + (Len(p) % Base)
    BY <1>2, Division
  <2>3. Rest[1] \in Nat
    BY <1>3 DEF Byte
  <2> QED
    BY <1>3, <2>1, <2>2, <2>3, DigitsUnique
<1>8. IsPrefixOf(w, stream)
  <2>1. Len(w) <= Len(stream)
    BY <1>2, <1>4, <1>6
  <2>2. ASSUME NEW i \in 1..Len(w) PROVE w[i] = stream[i]
    <3>1. CASE i <= consumed
      <4>1. i \in 1..consumed
        BY <1>4, <3>1
      <4>2. Wire(frames)[i] = w[i]
        BY <1>4, <1>6, <4>1 DEF IsPrefixOf
      <4>3. Wire(frames)[i] = stream[i]
        BY <1>4, <4>1 DEF IsPrefixOf, FrameInv
      <4> QED
        BY <4>2, <4>3
    <3>2. CASE i = consumed + 1 \/ i = consumed + 2
      <4>1. 1 \in 1..Len(Rest) /\ 2 \in 1..Len(Rest)
        BY <1>2, <1>4
      <4> QED
        BY <1>4, <1>6, <1>7, <3>2, <4>1
    <3>3. CASE i > consumed + 2
      <4> DEFINE k == i - consumed - 2
      <4>1. k \in 1..Len(p) /\ consumed + HeaderLen + k = i
        BY <1>2, <1>4, <1>6, <3>3
      <4> HIDE DEF k
      <4> QED
        BY <1>2, <1>6, <4>1
    <3>4. i \in Int /\ consumed \in Int
      BY <1>4
    <3>5. i <= consumed \/ i = consumed + 1 \/ i = consumed + 2 \/ i > consumed + 2
      BY <3>4
    <3> QED
      BY <3>1, <3>2, <3>3, <3>5
  <2> QED
    BY <2>1, <2>2 DEF IsPrefixOf
<1>9. ASSUME n + 1 <= Len(sent) PROVE p = sent[n + 1]
  <2> DEFINE q == sent[n + 1]
  <2>1. Len(frames) < Len(sent)
    BY <1>4, <1>9 DEF n
  <2>2. /\ q \in Seq(Byte) /\ Len(q) \in 1..MaxLen
        /\ Len(Rest) >= HeaderLen => Number(Rest) = Len(q)
        /\ \A i \in 1..Len(q) : stream[consumed + HeaderLen + i] = q[i]
    BY <2>1, NextIsSent DEF n
  <2> HIDE DEF q
  <2>3. Len(q) = Len(p)
    BY <1>2, <1>3, <1>4, <2>2
  <2>4. \A i \in 1..Len(p) : p[i] = q[i]
    BY <1>2, <2>2, <2>3
  <2>5. p = q
    BY <1>2, <2>2, <2>3, <2>4, SeqEqual
  <2> QED
    BY <2>5 DEF q
<1>10. ASSUME NEW i \in DOMAIN frames', i <= Len(sent) PROVE frames'[i] = sent[i]
  <2>1. i \in 1..n \/ i = n + 1
    BY <1>1, <1>4, <1>5
  <2>2. CASE i \in 1..n
    <3>1. i \in DOMAIN frames
      BY <1>4, <2>2 DEF n
    <3> QED
      BY <1>1, <1>5, <1>10, <2>2, <3>1 DEF FrameInv
  <2>3. CASE i = n + 1
    BY <1>1, <1>5, <1>9, <1>10, <2>3
  <2> QED
    BY <2>1, <2>2, <2>3
<1>11. ASSUME NEW i \in DOMAIN frames' PROVE Len(frames'[i]) \in 1..MaxLen
  <2>1. i \in 1..n \/ i = n + 1
    BY <1>1, <1>4, <1>5
  <2>2. CASE i \in 1..n
    <3>1. i \in DOMAIN frames
      BY <1>4, <2>2 DEF n
    <3> QED
      BY <1>1, <1>5, <2>2, <3>1 DEF FrameInv
  <2>3. CASE i = n + 1
    BY <1>1, <1>2, <1>3, <1>5, <2>3
  <2> QED
    BY <2>1, <2>2, <2>3
<1>12. state # "kDisconnecting"
  BY <1>3 DEF FrameInv, IsBad
<1>13. /\ sent' \in Seq(Seq(Byte)) /\ (\A i \in DOMAIN sent' : Len(sent'[i]) \in 1..MaxLen)
       /\ IsPrefixOf(Wire(sent'), stream')
  BY <1>1 DEF FrameInv
<1>14. /\ frames' \in Seq(Seq(Byte)) /\ consumed' = Len(Wire(frames'))
       /\ IsPrefixOf(Wire(frames'), stream')
  BY <1>1, <1>5, <1>6, <1>8 DEF w
<1>15. at' # "poll" /\ state' # "kDisconnecting"
  BY <1>1, <1>12
<1> QED
  BY <1>1, <1>10, <1>11, <1>13, <1>14, <1>15 DEF FrameInv

\* Were a whole frame of the client's not among the frames, the next one
\* would be whole in the rest, and the loop would not have ended.
LEMMA FrameInvIsExact == IInv /\ FrameInv => FramesExact
<1> SUFFICES ASSUME IInv, FrameInv, at = "poll" PROVE FramesExact
  BY DEF FramesExact
<1> DEFINE n == Len(frames)
<1>1. /\ sent \in Seq(Seq(Byte)) /\ frames \in Seq(Seq(Byte)) /\ n \in Nat
      /\ consumed = Len(Wire(frames)) /\ HeaderLen = 2
      /\ consumed \in Nat /\ received \in Nat /\ consumed <= received /\ received <= Len(stream)
      /\ stream \in Seq(Byte) /\ stream \in Seq(Nat)
      /\ Rest \in Seq(Byte) /\ Rest \in Seq(Nat) /\ Len(Rest) = received - consumed
      /\ \A i \in 1..Len(Rest) : Rest[i] = stream[consumed + i]
  <2>1. Byte \subseteq Nat
    BY DEF Byte
  <2>2. stream \in Seq(Byte) /\ Rest \in Seq(Byte)
    BY RestLemma DEF IInv
  <2>3. stream \in Seq(Nat) /\ Rest \in Seq(Nat)
    BY <2>1, <2>2, SeqMonotonic
  <2> QED
    BY <2>2, <2>3, RestLemma DEF FrameInv, IInv, HeaderLen
<1>2. Rest = SubSeq(stream, Len(Wire(frames)) + 1, received)
  BY <1>1 DEF Rest
<1>3. Wire(frames) \o Rest = SubSeq(stream, 1, received)
  <2> DEFINE a == Wire(frames)
             l == a \o Rest
             r == SubSeq(stream, 1, received)
  <2>1. a \in Seq(Nat) /\ Len(a) = consumed
    BY <1>1, WireType
  <2>2. \A i \in 1..consumed : a[i] = stream[i]
    BY <1>1 DEF FrameInv, IsPrefixOf
  <2> HIDE DEF a
  <2>3. /\ l \in Seq(Nat) /\ Len(l) = Len(a) + Len(Rest)
        /\ \A i \in 1..Len(a) : l[i] = a[i]
        /\ \A i \in 1..Len(Rest) : l[Len(a) + i] = Rest[i]
    <3>1. a \in Seq(Nat) /\ Rest \in Seq(Nat)
      BY <1>1, <2>1
    <3> QED
      BY <3>1, ConcatAt
  <2>4. received \in 0..Len(stream) /\ r = Leading(stream, received)
    BY <1>1 DEF Leading
  <2>5. r \in Seq(Nat) /\ Len(r) = received /\ \A i \in 1..received : r[i] = stream[i]
    BY <1>1, <2>4, FrontType
  <2> HIDE DEF l, r
  <2>6. Len(l) = Len(r)
    BY <1>1, <2>1, <2>3, <2>5
  <2>7. ASSUME NEW i \in 1..Len(l) PROVE l[i] = r[i]
    <3>1. CASE i <= consumed
      <4>1. i \in 1..consumed /\ i \in 1..received
        BY <1>1, <2>5, <2>6, <3>1
      <4> QED
        BY <2>1, <2>2, <2>3, <2>5, <4>1
    <3>2. CASE i > consumed
      <4> DEFINE j == i - consumed
      <4>1. j \in 1..Len(Rest) /\ consumed + j = i /\ i \in 1..received
        BY <1>1, <2>5, <2>6, <3>2
      <4> HIDE DEF j
      <4> QED
        BY <1>1, <2>1, <2>3, <2>5, <4>1
    <3>3. i \in Int /\ consumed \in Int
      BY <1>1
    <3> QED
      BY <3>1, <3>2, <3>3
  <2>8. l = r
    BY <2>3, <2>5, <2>6, <2>7, SeqEqual
  <2> QED
    BY <2>8 DEF l, r, a
<1>4. ASSUME NEW k \in 0..Len(sent), Len(Wire(SubSeq(sent, 1, k))) <= received
      PROVE  SubSeq(frames, 1, k) = SubSeq(sent, 1, k)
  <2>1. CASE k <= n
    <3> DEFINE a == Leading(frames, k)
               b == Leading(sent, k)
    <3>1. k \in 0..Len(frames) /\ k \in 0..Len(sent)
      BY <1>1, <2>1
    <3>2. /\ a \in Seq(Seq(Byte)) /\ Len(a) = k /\ \A i \in 1..k : a[i] = frames[i]
          /\ b \in Seq(Seq(Byte)) /\ Len(b) = k /\ \A i \in 1..k : b[i] = sent[i]
      BY <1>1, <3>1, FrontType
    <3>3. \A i \in 1..k : i \in DOMAIN frames /\ i <= Len(sent)
      BY <1>1, <3>1
    <3>4. \A i \in 1..k : frames[i] = sent[i]
      BY <3>3 DEF FrameInv
    <3> HIDE DEF a, b
    <3>5. a = b
      BY <3>2, <3>4, SeqEqual
    <3> QED
      BY <3>5 DEF a, b, Leading
  <2>2. CASE ~(k <= n)
    <3> DEFINE p == sent[n + 1]
               w == Wire(Append(frames, p))
    <3>1. n < Len(sent) /\ n + 1 \in 0..Len(sent) /\ k \in (n + 1)..Len(sent)
      BY <1>1, <2>2
    <3>2. /\ p \in Seq(Byte) /\ Len(p) \in 1..MaxLen
          /\ Leading(sent, n + 1) = Append(frames, p)
          /\ Len(Rest) >= HeaderLen => Number(Rest) = Len(p)
      BY <3>1, NextIsSent
    <3>3. IsPrefixOf(w, Wire(Leading(sent, k)))
      BY <1>1, <3>1, <3>2, WirePrefix
    <3>4. Len(w) = consumed + HeaderLen + Len(p)
      BY <1>1, <3>2, WireMore
    <3> HIDE DEF p, w
    <3>5. Len(w) <= received
      <4>1. Len(Wire(Leading(sent, k))) \in Nat
        <5>1. Leading(sent, k) \in Seq(Seq(Byte))
          BY <1>1, FrontType
        <5>2. Wire(Leading(sent, k)) \in Seq(Nat)
          BY <5>1, WireType
        <5> QED
          BY <5>2
      <4>2. Len(Wire(Leading(sent, k))) <= received /\ Len(w) <= Len(Wire(Leading(sent, k)))
        BY <1>4, <3>3 DEF Leading, IsPrefixOf
      <4> QED
        BY <1>1, <3>2, <3>4, <4>1, <4>2
    <3>6. Len(Rest) >= HeaderLen + Len(p) /\ Len(p) \in Nat
      BY <1>1, <3>2, <3>4, <3>5
    <3>7. Number(Rest) = Len(p)
      BY <1>1, <3>2, <3>6
    <3>8. ~IsBad /\ ~IsPart
      BY <1>1, <3>2, <3>6, <3>7 DEF IsBad, IsPart
    <3> QED
      BY <3>8 DEF FrameInv
  <2> QED
    BY <2>1, <2>2
<1>5. /\ IF IsBad THEN state # "kConnected" ELSE IsPart
      /\ state = "kDisconnecting" => IsBad
      /\ \A i \in DOMAIN frames : Len(frames[i]) \in 1..MaxLen
  BY DEF FrameInv
<1> QED
  BY <1>2, <1>3, <1>4, <1>5 DEF FramesExact, IsBad, IsPart

\* Nothing is read yet.
LEMMA FrameInit == Init => FrameInv
<1> SUFFICES ASSUME Init PROVE FrameInv
  OBVIOUS
<1>1. sent \in Seq(Seq(Byte)) /\ \A i \in DOMAIN sent : Len(sent[i]) \in 1..MaxLen
  BY StreamAssumption DEF Init
<1>2. IsPrefixOf(Wire(sent), stream)
  <2>1. PICK tail \in Tails : stream = Wire(sent) \o tail
    BY DEF Init
  <2>2. Wire(sent) \in Seq(Nat) /\ tail \in Seq(Nat)
    <3>1. Byte \subseteq Nat /\ tail \in Seq(Byte)
      BY StreamAssumption DEF Byte
    <3> QED
      BY <1>1, <3>1, WireType, SeqMonotonic
  <2>3. /\ Len(stream) = Len(Wire(sent)) + Len(tail)
        /\ \A i \in 1..Len(Wire(sent)) : stream[i] = Wire(sent)[i]
    BY <2>1, <2>2, ConcatAt
  <2>4. Len(Wire(sent)) \in Nat /\ Len(tail) \in Nat
    BY <2>2
  <2> QED
    BY <2>3, <2>4 DEF IsPrefixOf
<1>3. /\ frames = <<>> /\ consumed = 0 /\ received = 0 /\ at = "poll" /\ state = "kConnected"
      /\ Wire(frames) = <<>>
  BY WireEmpty DEF Init
<1>4. Len(Rest) = 0
  BY <1>3 DEF Rest
<1>5. ~IsBad /\ IsPart
  BY <1>4 DEF IsBad, IsPart, HeaderLen
<1>6. frames \in Seq(Seq(Byte)) /\ DOMAIN frames = {} /\ Len(Wire(frames)) = 0
  BY <1>3
<1>7. IsPrefixOf(Wire(frames), stream)
  <2>1. stream \in Seq(Nat)
    <3>1. PICK tail \in Tails : stream = Wire(sent) \o tail
      BY DEF Init
    <3>2. Byte \subseteq Nat /\ tail \in Seq(Byte)
      BY StreamAssumption DEF Byte
    <3>3. Wire(sent) \in Seq(Nat) /\ tail \in Seq(Nat)
      BY <1>1, <3>2, WireType, SeqMonotonic
    <3> QED
      BY <3>1, <3>3, ConcatAt
  <2> QED
    BY <1>3, <2>1 DEF IsPrefixOf
<1> QED
  BY <1>1, <1>2, <1>3, <1>5, <1>6, <1>7 DEF FrameInv

LEMMA InvariantStep == IInv /\ FrameInv /\ [Next]_vars => IInv' /\ FrameInv'
<1> SUFFICES ASSUME IInv, FrameInv, [Next]_vars PROVE IInv' /\ FrameInv'
  OBVIOUS
<1>1. CASE \E n \in 1..(Len(stream) - received) : Read(n)
  BY <1>1, ReadLemma, ReadKeepsFrames
<1>2. CASE NextFrame
  BY <1>2, NextFrameLemma, NextFrameKeepsFrames
<1>3. CASE End \/ BadLength \/ NeedsMore \/ UNCHANGED vars
  <2>1. UNCHANGED <<stream, received, input, consumed>>
    BY <1>3 DEF End, BadLength, NeedsMore, vars
  <2>2. IInv'
    BY <2>1 DEF IInv, Ok, ReadableBytes
  <2> QED
    BY <1>3, <2>2, StopKeepsFrames
<1> QED
  BY <1>1, <1>2, <1>3 DEF Next

LEMMA Invariant == Spec => [](IInv /\ FrameInv)
<1>1. Init => IInv /\ FrameInv
  BY InitLemma, FrameInit
<1> QED
  BY <1>1, InvariantStep, PTL DEF Spec

\* Whatever the sizes and the bytes, and wherever the stream is cut, the
\* buffer stays within its vector and holds what was read and not taken out
\* (Buffer.hpp:62, 87, 104).
THEOREM BufferSoundHolds == Spec => []BufferSound
BY Invariant, IInvIsSound, PTL

\* For any frames, followed by any bytes, cut by the reads anywhere, and any
\* buffer: the frames given to recvmsg are those in the bytes read so far,
\* all whole ones of the client among them and none beyond a bad length
\* (chatserver.cpp:17).
THEOREM FramesExactHolds == Spec => []FramesExact
BY Invariant, FrameInvIsExact, PTL
=============================================================================
