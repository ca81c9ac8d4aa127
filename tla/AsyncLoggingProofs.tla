------------------------- MODULE AsyncLoggingProofs -------------------------
(* Proofs about AsyncLogging for any loggers, any number of lines of any    *)
(* lengths, and any sizes of the buffer and of the batch.                   *)
EXTENDS AsyncLogging, SequenceTheorems, WellFoundedInduction, TLAPS

-----------------------------------------------------------------------------
(* Induction over a set of naturals, and flattening.                         *)

\* A set of naturals has a least element; with the set as the argument, no
\* operator has to be instantiated.
LEMMA Least ==
  ASSUME NEW T \in SUBSET Nat, T # {}
  PROVE  \E n \in T : \A m \in T : n <= m
<1> DEFINE R == OpToRel(<, Nat)
<1>1. IsWellFoundedOn(R, Nat)
  BY NatLessThanWellFounded
<1>2. \A x, y \in Nat : <<y, x>> \in R <=> y < x
  BY DEF OpToRel
<1> HIDE DEF R
<1>3. PICK x \in T : \A y \in T : ~ (<<y, x>> \in R)
  BY <1>1, WFMin
<1>4. ASSUME NEW m \in T PROVE x <= m
  <2>1. x \in Nat /\ m \in Nat /\ ~(<<m, x>> \in R)
    BY <1>3
  <2>2. ~(m < x)
    BY <1>2, <2>1
  <2> QED
    BY <2>1, <2>2
<1> QED
  BY <1>4

\* A set with zero and the successors of its elements has all naturals.
LEMMA SetInduction ==
  ASSUME NEW S, 0 \in S, \A n \in Nat : n \in S => n + 1 \in S
  PROVE  Nat \subseteq S
<1> SUFFICES ASSUME Nat \ S # {} PROVE FALSE
  OBVIOUS
<1>1. PICK n \in Nat \ S : \A m \in Nat \ S : n <= m
  BY Least
<1>2. n - 1 \in Nat /\ n - 1 \notin Nat \ S
  BY <1>1
<1> QED
  BY <1>1, <1>2

\* f gives the concatenations of the first n elements of s.
FlatTo(f, s, n) == f = [i \in 1..n |-> IF i = 1 THEN s[i] ELSE f[i-1] \o s[i]]

\* The recursion of FlattenSeq has a solution.
LEMMA FlatExists ==
  ASSUME NEW s, NEW n \in Nat
  PROVE  \E f : FlatTo(f, s, n)
<1> DEFINE S == {k \in Nat : \E f : FlatTo(f, s, k)}
<1>1. 0 \in S
  <2>1. FlatTo(<<>>, s, 0)
    BY DEF FlatTo
  <2> QED
    BY <2>1
<1>2. ASSUME NEW k \in Nat, k \in S PROVE k + 1 \in S
  <2>1. PICK f : FlatTo(f, s, k)
    BY <1>2
  <2> DEFINE g == [i \in 1..(k + 1) |->
                    IF i <= k THEN f[i] ELSE IF i = 1 THEN s[i] ELSE f[i-1] \o s[i]]
             h == [i \in 1..(k + 1) |-> IF i = 1 THEN s[i] ELSE g[i-1] \o s[i]]
  <2>2. ASSUME NEW i \in 1..(k + 1) PROVE g[i] = h[i]
    <3>1. CASE i = 1
      <4>1. CASE k = 0
        BY <3>1, <4>1
      <4>2. CASE k > 0
        <5>1. i \in 1..k
          BY <3>1, <4>2
        <5>2. f[i] = s[i]
          BY <2>1, <3>1, <5>1 DEF FlatTo
        <5> QED
          BY <3>1, <5>1, <5>2
      <4> QED
        BY <4>1, <4>2
    <3>2. CASE i # 1
      <4>1. i - 1 \in 1..k /\ i - 1 \in 1..(k + 1) /\ i - 1 <= k
        BY <3>2
      <4>2. g[i - 1] = f[i - 1]
        BY <4>1
      <4>3. h[i] = f[i - 1] \o s[i]
        BY <3>2, <4>2
      <4>4. CASE i <= k
        <5>1. i \in 1..k
          BY <4>4
        <5>2. f[i] = f[i - 1] \o s[i]
          BY <2>1, <3>2, <5>1 DEF FlatTo
        <5> QED
          BY <4>3, <4>4, <5>2
      <4>5. CASE ~(i <= k)
        BY <3>2, <4>3, <4>5
      <4> QED
        BY <4>4, <4>5
    <3> QED
      BY <3>1, <3>2
  <2>3. g = h
    <3>1. /\ DOMAIN g = 1..(k + 1) /\ g = [i \in DOMAIN g |-> g[i]]
          /\ DOMAIN h = 1..(k + 1) /\ h = [i \in DOMAIN h |-> h[i]]
      OBVIOUS
    <3> HIDE DEF g, h
    <3> QED
      BY <2>2, <3>1
  <2>4. FlatTo(g, s, k + 1)
    <3> HIDE DEF g
    <3> QED
      BY <2>3 DEF FlatTo
  <2> QED
    BY <2>4
<1> HIDE DEF S
<1>3. n \in S
  BY <1>1, <1>2, SetInduction
<1> QED
  BY <1>3 DEF S

\* Solutions for sequences that begin alike begin alike.
LEMMA FlatSame ==
  ASSUME NEW s, NEW t, NEW n \in Nat, NEW m \in Nat, n <= m,
         \A i \in 1..n : s[i] = t[i],
         NEW f, FlatTo(f, s, n), NEW g, FlatTo(g, t, m)
  PROVE  \A i \in 1..n : f[i] = g[i]
<1> DEFINE S == {k \in Nat : k \in 1..n => f[k] = g[k]}
<1>1. 0 \in S
  OBVIOUS
<1>2. ASSUME NEW k \in Nat, k \in S PROVE k + 1 \in S
  <2> DEFINE j == k + 1
  <2> SUFFICES ASSUME j \in 1..n PROVE f[j] = g[j]
    OBVIOUS
  <2>1. j \in 1..m /\ j - 1 = k
    OBVIOUS
  <2> HIDE DEF j
  <2>2. /\ f[j] = IF j = 1 THEN s[j] ELSE f[j - 1] \o s[j]
        /\ g[j] = IF j = 1 THEN t[j] ELSE g[j - 1] \o t[j]
    BY <2>1 DEF FlatTo
  <2>3. j # 1 => f[k] = g[k]
    BY <1>2, <2>1 DEF j
  <2> QED
    BY <2>1, <2>2, <2>3
<1> HIDE DEF S
<1>3. Nat \subseteq S
  BY <1>1, <1>2, SetInduction
<1> QED
  BY <1>3 DEF S

LEMMA FlattenEmpty == \A s : Len(s) = 0 => FlattenSeq(s) = s
BY DEF FlattenSeq

\* FlattenSeq is the last value of a solution.
LEMMA FlattenIsFlat ==
  ASSUME NEW s, Len(s) \in Nat, Len(s) > 0
  PROVE  \E f : FlatTo(f, s, Len(s)) /\ FlattenSeq(s) = f[Len(s)]
<1> DEFINE c == CHOOSE f : FlatTo(f, s, Len(s))
<1>1. FlatTo(c, s, Len(s))
  BY FlatExists
<1>2. FlattenSeq(s) = c[Len(s)]
  BY DEF FlattenSeq, FlatTo
<1> QED
  BY <1>1, <1>2

\* The elements of what Append and \o return.
LEMMA AppendAt ==
  ASSUME NEW S, NEW s \in Seq(S), NEW q \in S
  PROVE  /\ Append(s, q) \in Seq(S) /\ Len(Append(s, q)) = Len(s) + 1
         /\ \A i \in 1..Len(s) : Append(s, q)[i] = s[i]
         /\ Append(s, q)[Len(s) + 1] = q
OBVIOUS

LEMMA EmptyConcat ==
  ASSUME NEW S, NEW q \in Seq(S)
  PROVE  <<>> \o q = q
OBVIOUS

LEMMA ConcatAt ==
  ASSUME NEW S, NEW s \in Seq(S), NEW q \in Seq(S)
  PROVE  /\ s \o q \in Seq(S) /\ Len(s \o q) = Len(s) + Len(q)
         /\ \A i \in 1..Len(s) : (s \o q)[i] = s[i]
         /\ \A i \in 1..Len(q) : (s \o q)[Len(s) + i] = q[i]
<1>1. s \o q \in Seq(S) /\ Len(s \o q) = Len(s) + Len(q)
  OBVIOUS
<1>2. \A i \in 1..Len(s) : (s \o q)[i] = s[i]
  OBVIOUS
<1>3. ASSUME NEW i \in 1..Len(q) PROVE (s \o q)[Len(s) + i] = q[i]
  <2> DEFINE j == Len(s) + i
  <2>1. j \in 1..(Len(s) + Len(q)) /\ ~(j <= Len(s)) /\ j - Len(s) = i
    OBVIOUS
  <2> HIDE DEF j
  <2>2. (s \o q)[j] = q[j - Len(s)]
    BY <2>1
  <2> QED
    BY <2>1, <2>2 DEF j
<1> QED
  BY <1>1, <1>2, <1>3

\* One more sequence to flatten comes behind the others.
LEMMA FlattenAppend ==
  ASSUME NEW S, NEW s \in Seq(Seq(S)), NEW q \in Seq(S)
  PROVE  FlattenSeq(Append(s, q)) = FlattenSeq(s) \o q
<1> DEFINE t == Append(s, q)
           n == Len(s)
<1>1. n \in Nat /\ Len(t) = n + 1 /\ t[n + 1] = q /\ \A i \in 1..n : s[i] = t[i]
  BY AppendAt
<1> HIDE DEF t, n
<1>2. PICK g : FlatTo(g, t, n + 1) /\ FlattenSeq(t) = g[n + 1]
  BY <1>1, FlattenIsFlat
<1>3. CASE n = 0
  <2>1. g[1] = q
    BY <1>1, <1>2, <1>3 DEF FlatTo
  <2>2. FlattenSeq(s) = <<>>
    BY <1>3, FlattenEmpty DEF n
  <2>3. <<>> \o q = q
    BY EmptyConcat
  <2> QED
    BY <1>2, <1>3, <2>1, <2>2, <2>3 DEF t
<1>4. CASE n > 0
  <2>1. PICK f : FlatTo(f, s, n) /\ FlattenSeq(s) = f[n]
    BY <1>1, <1>4, FlattenIsFlat DEF n
  <2>2. f[n] = g[n]
    <3> DEFINE m == n + 1
    <3>2. m \in Nat /\ n <= m /\ FlatTo(g, t, m)
      BY <1>1, <1>2
    <3> HIDE DEF m
    <3>1. \A i \in 1..n : f[i] = g[i]
      <4>1. /\ n \in Nat /\ m \in Nat /\ n <= m /\ \A i \in 1..n : s[i] = t[i]
            /\ FlatTo(f, s, n) /\ FlatTo(g, t, m)
        BY <1>1, <2>1, <3>2
      <4> QED
        BY <4>1, FlatSame
    <3> QED
      BY <1>1, <1>4, <3>1
  <2>3. g[n + 1] = g[n] \o t[n + 1]
    <3> DEFINE m == n + 1
    <3>1. m \in 1..m /\ m # 1 /\ m - 1 = n /\ FlatTo(g, t, m)
      BY <1>1, <1>2, <1>4
    <3> HIDE DEF m
    <3>2. g[m] = g[m - 1] \o t[m]
      BY <3>1 DEF FlatTo
    <3> QED
      BY <3>1, <3>2 DEF m
  <2> QED
    BY <1>1, <1>2, <2>1, <2>2, <2>3 DEF t
<1> QED
  BY <1>1, <1>3, <1>4

\* What comes last stays last.
LEMMA AppendBehind ==
  ASSUME NEW S, NEW s \in Seq(S), NEW t \in Seq(S), NEW x \in S
  PROVE  s \o Append(t, x) = Append(s \o t, x) /\ s \o t \in Seq(S)
<1>1. Append(t, x) = t \o <<x>> /\ Append(s \o t, x) = (s \o t) \o <<x>>
  BY AppendIsConcat, ConcatProperties
<1>2. <<x>> \in Seq(S)
  OBVIOUS
<1> QED
  BY <1>1, <1>2, ConcatAssociative, ConcatProperties

\* The first k elements of s.
Leading(s, k) == SubSeq(s, 1, k)

\* The sequences in front, one more of them, and all.
LEMMA FrontType ==
  ASSUME NEW S, NEW s \in Seq(S), NEW k \in 0..Len(s)
  PROVE  /\ Leading(s, k) \in Seq(S) /\ Len(Leading(s, k)) = k
         /\ \A i \in 1..k : Leading(s, k)[i] = s[i]
BY DEF Leading

LEMMA FrontNext ==
  ASSUME NEW S, NEW s \in Seq(S), NEW k \in 0..(Len(s) - 1)
  PROVE  Leading(s, k + 1) = Append(Leading(s, k), s[k + 1])
<1> DEFINE a == Leading(s, k + 1)
           b == Append(Leading(s, k), s[k + 1])
<1>1. a \in Seq(S) /\ Len(a) = k + 1 /\ \A i \in 1..(k + 1) : a[i] = s[i]
  BY FrontType
<1>2. b \in Seq(S) /\ Len(b) = k + 1 /\ (\A i \in 1..k : b[i] = s[i]) /\ b[k + 1] = s[k + 1]
  <2>1. s[k + 1] \in S /\ k \in 0..Len(s)
    OBVIOUS
  <2> QED
    BY <2>1, FrontType, AppendAt
<1> HIDE DEF a, b
<1>3. ASSUME NEW i \in 1..(k + 1) PROVE a[i] = b[i]
  <2>1. i \in 1..k \/ i = k + 1
    OBVIOUS
  <2> QED
    BY <1>1, <1>2, <2>1
<1>4. a = b
  BY <1>1, <1>2, <1>3
<1> QED
  BY <1>4 DEF a, b

LEMMA FrontEnds ==
  ASSUME NEW S, NEW s \in Seq(S)
  PROVE  Leading(s, 0) = <<>> /\ Leading(s, Len(s)) = s
BY DEF Leading


\* Flattening gives the elements of the sequences.
LEMMA FlattenType ==
  ASSUME NEW S, NEW s \in Seq(Seq(S))
  PROVE  FlattenSeq(s) \in Seq(S)
<1> DEFINE T == {k \in Nat : k <= Len(s) => FlattenSeq(Leading(s, k)) \in Seq(S)}
<1>1. 0 \in T
  <2>1. Leading(s, 0) = <<>> /\ FlattenSeq(<<>>) = <<>> /\ <<>> \in Seq(S)
    BY FrontEnds, FlattenEmpty
  <2> QED
    BY <2>1
<1>2. ASSUME NEW k \in Nat, k \in T PROVE k + 1 \in T
  <2> SUFFICES ASSUME k + 1 <= Len(s) PROVE FlattenSeq(Leading(s, k + 1)) \in Seq(S)
    OBVIOUS
  <2>1. k \in 0..Len(s) /\ k \in 0..(Len(s) - 1) /\ s[k + 1] \in Seq(S)
    OBVIOUS
  <2>2. FlattenSeq(Leading(s, k)) \in Seq(S) /\ Leading(s, k) \in Seq(Seq(S))
    BY <1>2, <2>1, FrontType
  <2>3. FlattenSeq(Leading(s, k + 1)) = FlattenSeq(Leading(s, k)) \o s[k + 1]
    <3>1. Leading(s, k + 1) = Append(Leading(s, k), s[k + 1])
      BY <2>1, FrontNext
    <3> QED
      BY <2>1, <2>2, <3>1, FlattenAppend
  <2> QED
    BY <2>1, <2>2, <2>3, ConcatAt
<1> HIDE DEF T
<1>3. Len(s) \in T
  <2>1. Len(s) \in Nat
    OBVIOUS
  <2> QED
    BY <1>1, <1>2, <2>1, SetInduction
<1> QED
  BY <1>3, FrontEnds DEF T

\* Flattening what was put together puts together what is flattened.
LEMMA FlattenConcat ==
  ASSUME NEW S, NEW s \in Seq(Seq(S)), NEW t \in Seq(Seq(S))
  PROVE  FlattenSeq(s \o t) = FlattenSeq(s) \o FlattenSeq(t)
<1> DEFINE T == {k \in Nat : k <= Len(t) =>
                   FlattenSeq(s \o Leading(t, k)) = FlattenSeq(s) \o FlattenSeq(Leading(t, k))}
<1>0. FlattenSeq(s) \in Seq(S)
  BY FlattenType
<1>1. 0 \in T
  <2>1. Leading(t, 0) = <<>> /\ FlattenSeq(<<>>) = <<>>
    BY FrontEnds, FlattenEmpty
  <2>2. s \o <<>> = s /\ FlattenSeq(s) \o <<>> = FlattenSeq(s)
    BY <1>0, ConcatEmptySeq
  <2> QED
    BY <2>1, <2>2
<1>2. ASSUME NEW k \in Nat, k \in T PROVE k + 1 \in T
  <2> DEFINE h == Leading(t, k)
             x == t[k + 1]
  <2> SUFFICES ASSUME k + 1 <= Len(t)
               PROVE  FlattenSeq(s \o Leading(t, k + 1)) = FlattenSeq(s) \o FlattenSeq(Leading(t, k + 1))
    OBVIOUS
  <2>1. k \in 0..Len(t) /\ k \in 0..(Len(t) - 1) /\ x \in Seq(S)
    OBVIOUS
  <2>2. h \in Seq(Seq(S)) /\ Leading(t, k + 1) = Append(h, x)
    BY <2>1, FrontType, FrontNext
  <2>3. FlattenSeq(s \o h) = FlattenSeq(s) \o FlattenSeq(h)
    BY <1>2, <2>1
  <2> HIDE DEF h, x
  <2>4. s \o Append(h, x) = Append(s \o h, x) /\ s \o h \in Seq(Seq(S))
    BY <2>1, <2>2, AppendBehind
  <2>5. FlattenSeq(Append(s \o h, x)) = FlattenSeq(s \o h) \o x /\ FlattenSeq(Append(h, x)) = FlattenSeq(h) \o x
    BY <2>1, <2>2, <2>4, FlattenAppend
  <2>6. FlattenSeq(h) \in Seq(S)
    BY <2>2, FlattenType
  <2>7. (FlattenSeq(s) \o FlattenSeq(h)) \o x = FlattenSeq(s) \o (FlattenSeq(h) \o x)
    BY <1>0, <2>1, <2>6, ConcatAssociative
  <2> QED
    BY <2>2, <2>3, <2>4, <2>5, <2>7
<1> HIDE DEF T
<1>3. Len(t) \in T
  <2>1. Len(t) \in Nat
    OBVIOUS
  <2> QED
    BY <1>1, <1>2, <2>1, SetInduction
<1>4. Leading(t, Len(t)) = t
  BY FrontEnds
<1> QED
  BY <1>3, <1>4 DEF T

\* The first sequence and the others.
LEMMA FlattenHead ==
  ASSUME NEW S, NEW s \in Seq(Seq(S)), s # <<>>
  PROVE  /\ Head(s) \in Seq(S) /\ Tail(s) \in Seq(Seq(S))
         /\ FlattenSeq(s) = Head(s) \o FlattenSeq(Tail(s))
<1>1. Head(s) \in Seq(S) /\ Tail(s) \in Seq(Seq(S)) /\ s = Append(<<>>, Head(s)) \o Tail(s)
  <2> DEFINE h == Head(s)
             a == Append(<<>>, h)
             b == a \o Tail(s)
  <2>1. h \in Seq(S) /\ Tail(s) \in Seq(Seq(S)) /\ Len(Tail(s)) = Len(s) - 1 /\ h = s[1]
        /\ \A i \in 1..(Len(s) - 1) : Tail(s)[i] = s[i + 1]
    BY HeadTailProperties
  <2> HIDE DEF h
  <2>2. a \in Seq(Seq(S)) /\ Len(a) = 1 /\ a[1] = h
    BY <2>1
  <2> HIDE DEF a
  <2>3. b \in Seq(Seq(S)) /\ Len(b) = Len(s) /\ b[1] = h /\ \A i \in 1..(Len(s) - 1) : b[1 + i] = Tail(s)[i]
    <3> DEFINE t == Tail(s)
    <3>1. t \in Seq(Seq(S)) /\ Len(t) = Len(s) - 1 /\ Len(s) \in Nat
      BY <2>1
    <3> HIDE DEF t
    <3> DEFINE n == Len(s) - 1
    <3>2. n \in Nat /\ Len(s) = 1 + n /\ Len(t) = n
      BY <3>1
    <3> HIDE DEF n
    <3>3. /\ a \o t \in Seq(Seq(S)) /\ Len(a \o t) = Len(a) + Len(t)
          /\ \A i \in 1..Len(a) : (a \o t)[i] = a[i]
          /\ \A i \in 1..Len(t) : (a \o t)[Len(a) + i] = t[i]
      <4>1. a \in Seq(Seq(S)) /\ t \in Seq(Seq(S))
        BY <2>2, <3>1
      <4> QED
        BY <4>1, ConcatAt
    <3>4. 1 \in 1..Len(a)
      BY <2>2
    <3>5. b = a \o t
      BY DEF t
    <3> HIDE DEF b
    <3>6. b \in Seq(Seq(S)) /\ Len(b) = Len(s) /\ b[1] = h
      BY <2>2, <3>2, <3>3, <3>4, <3>5
    <3>7. \A i \in 1..n : b[1 + i] = t[i]
      BY <2>2, <3>2, <3>3, <3>5
    <3> QED
      BY <3>6, <3>7 DEF t, n
  <2> HIDE DEF b
  <2>4. ASSUME NEW i \in 1..Len(s) PROVE b[i] = s[i]
    <3>1. CASE i = 1
      BY <2>1, <2>3, <3>1
    <3>2. CASE i # 1
      <4>1. i - 1 \in 1..(Len(s) - 1) /\ 1 + (i - 1) = i /\ (i - 1) + 1 = i
        BY <3>2
      <4> QED
        BY <2>1, <2>3, <4>1
    <3> QED
      BY <3>1, <3>2
  <2>5. b = s
    BY <2>3, <2>4, SeqEqual
  <2> QED
    BY <2>1, <2>5 DEF a, b, h
<1>2. FlattenSeq(Append(<<>>, Head(s))) = Head(s) /\ Append(<<>>, Head(s)) \in Seq(Seq(S))
  <2>1. <<>> \in Seq(Seq(S)) /\ FlattenSeq(<<>>) = <<>>
    BY FlattenEmpty
  <2> DEFINE h == Head(s)
  <2>2. h \in Seq(S)
    BY <1>1
  <2> HIDE DEF h
  <2>3. FlattenSeq(Append(<<>>, h)) = FlattenSeq(<<>>) \o h
    BY <2>1, <2>2, FlattenAppend
  <2>4. <<>> \o h = h /\ Append(<<>>, h) \in Seq(Seq(S))
    BY <2>2, EmptyConcat
  <2> QED
    BY <2>1, <2>3, <2>4 DEF h
<1> QED
  BY <1>1, <1>2, FlattenConcat

\* The first k sequences and the others.
LEMMA FlattenCut ==
  ASSUME NEW S, NEW s \in Seq(Seq(S)), NEW k \in 0..Len(s)
  PROVE  /\ SubSeq(s, 1, k) \in Seq(Seq(S)) /\ SubSeq(s, k + 1, Len(s)) \in Seq(Seq(S))
         /\ FlattenSeq(s) = FlattenSeq(SubSeq(s, 1, k)) \o FlattenSeq(SubSeq(s, k + 1, Len(s)))
<1> DEFINE a == SubSeq(s, 1, k)
           b == SubSeq(s, k + 1, Len(s))
           c == a \o b
<1>1. a \in Seq(Seq(S)) /\ Len(a) = k /\ \A i \in 1..k : a[i] = s[i]
  OBVIOUS
<1>2. b \in Seq(Seq(S)) /\ Len(b) = Len(s) - k /\ \A i \in 1..(Len(s) - k) : b[i] = s[k + i]
  OBVIOUS
<1> HIDE DEF a, b
<1>3. c \in Seq(Seq(S)) /\ Len(c) = Len(s) /\ (\A i \in 1..k : c[i] = s[i])
      /\ \A i \in 1..(Len(s) - k) : c[k + i] = s[k + i]
  BY <1>1, <1>2, ConcatAt
<1> HIDE DEF c
<1>4. ASSUME NEW i \in 1..Len(s) PROVE c[i] = s[i]
  <2>1. CASE i \in 1..k
    BY <1>3, <2>1
  <2>2. CASE i \notin 1..k
    <3>1. i - k \in 1..(Len(s) - k) /\ k + (i - k) = i
      BY <2>2
    <3> QED
      BY <1>3, <3>1
  <2> QED
    BY <2>1, <2>2
<1>5. c = s
  BY <1>3, <1>4
<1> QED
  BY <1>1, <1>2, <1>5, FlattenConcat DEF a, b, c

-----------------------------------------------------------------------------
(* The invariant.                                                            *)

TypeInv ==
  /\ file \in Seq(Nat) /\ currentBuffer \in Seq(Nat) /\ next \in Nat \ {0}
  /\ buffers \in Seq(Seq(Nat)) /\ batch \in Seq(Seq(Nat)) /\ flushBatch \in Seq(Seq(Nat))
  /\ calls \in [Loggers -> {"idle", "flush"}]
  /\ worker \in {"none", "check", "lock", "wait", "write", "ended"}
  /\ owner \in {"new", "using", "join", "stopped", "gone"}

(* Who may hold what, and what stop and the destructor find.                 *)
HoldInv ==
  /\ worker # "write" => batch = <<>>
  /\ mutex = Nobody => flushBatch = <<>>
  /\ owner = "new" => worker = "none"
  /\ owner = "stopped" => worker = "ended"
  /\ owner = "gone" => /\ worker \in {"none", "ended"} /\ buffers = <<>> /\ currentBuffer = <<>>
                       /\ \A t \in Loggers : calls[t] = "idle"
  /\ ~flushes => /\ mutex \in {Nobody, Destructor}
                 /\ \A t \in Loggers : calls[t] = "idle"
  /\ mutex = Destructor => owner = "gone"

(* No line is twice in a place, or in two of them.                           *)
Apart(F, A, B, C, D, gone, n) ==
  /\ IsInjective(F) /\ IsInjective(A) /\ IsInjective(B) /\ IsInjective(C) /\ IsInjective(D)
  /\ ToSet(F) \cap (ToSet(A) \cup ToSet(B) \cup ToSet(C) \cup ToSet(D) \cup gone) = {}
  /\ ToSet(A) \cap (ToSet(B) \cup ToSet(C) \cup ToSet(D) \cup gone) = {}
  /\ ToSet(B) \cap (ToSet(C) \cup ToSet(D) \cup gone) = {}
  /\ ToSet(C) \cap (ToSet(D) \cup gone) = {}
  /\ ToSet(D) \cap gone = {}
  /\ ToSet(F) \cup ToSet(A) \cup ToSet(B) \cup ToSet(C) \cup ToSet(D) \cup gone = 1..(n - 1)

PlaceInv == Apart(file, FlattenSeq(flushBatch), FlattenSeq(batch), FlattenSeq(buffers),
                  currentBuffer, dropped, next)

(* The lines in the order in which they get to the file.                     *)
Rising(s) == \A i, j \in DOMAIN s : i < j => s[i] < s[j]
RisingInv == ~flushes => Rising(file \o OnTheWay)


-----------------------------------------------------------------------------
(* What concatenation does to the lines of a place.                          *)

\* Two sequences together.
LEMMA Joined ==
  ASSUME NEW S, NEW s \in Seq(S), NEW t \in Seq(S)
  PROVE  /\ s \o t \in Seq(S) /\ ToSet(s \o t) = ToSet(s) \cup ToSet(t)
         /\ IsInjective(s \o t) <=>
              IsInjective(s) /\ IsInjective(t) /\ ToSet(s) \cap ToSet(t) = {}
<1> DEFINE q == s \o t
           m == Len(s)
           n == Len(t)
<1>1. /\ m \in Nat /\ n \in Nat /\ DOMAIN s = 1..m /\ DOMAIN t = 1..n
      /\ q \in Seq(S) /\ DOMAIN q = 1..(m + n)
      /\ (\A i \in 1..m : q[i] = s[i]) /\ (\A i \in 1..n : q[m + i] = t[i])
  <2>1. q \in Seq(S) /\ Len(q) = m + n
    BY ConcatAt
  <2>2. (\A i \in 1..m : q[i] = s[i]) /\ (\A i \in 1..n : q[m + i] = t[i])
    BY ConcatAt
  <2> HIDE DEF q
  <2>3. DOMAIN q = 1..Len(q)
    BY <2>1
  <2> QED
    BY <2>1, <2>2, <2>3
<1> HIDE DEF q, m, n
<1>2. \A i \in 1..(m + n) : i \in 1..m \/ \E k \in 1..n : i = m + k
  <2> SUFFICES ASSUME NEW i \in 1..(m + n), i \notin 1..m PROVE \E k \in 1..n : i = m + k
    OBVIOUS
  <2>1. i - m \in 1..n /\ i = m + (i - m)
    BY <1>1
  <2> QED
    BY <2>1
<1>3. \A i \in 1..m : i \in 1..(m + n)
  BY <1>1
<1>4. \A k \in 1..n : m + k \in 1..(m + n) /\ m + k \notin 1..m
  BY <1>1
<1>5. ToSet(q) = ToSet(s) \cup ToSet(t)
  <2>1. ASSUME NEW x \in ToSet(q) PROVE x \in ToSet(s) \cup ToSet(t)
    <3>1. PICK i \in 1..(m + n) : x = q[i]
      BY <1>1 DEF ToSet
    <3>2. i \in 1..m => x \in ToSet(s)
      BY <1>1, <3>1 DEF ToSet
    <3>3. (\E k \in 1..n : i = m + k) => x \in ToSet(t)
      BY <1>1, <3>1 DEF ToSet
    <3> QED
      BY <1>2, <3>2, <3>3
  <2>2. ToSet(s) \subseteq ToSet(q)
    BY <1>1, <1>3 DEF ToSet
  <2>3. ToSet(t) \subseteq ToSet(q)
    BY <1>1, <1>4 DEF ToSet
  <2> QED
    BY <2>1, <2>2, <2>3
<1>6. ASSUME IsInjective(q)
      PROVE  IsInjective(s) /\ IsInjective(t) /\ ToSet(s) \cap ToSet(t) = {}
  <2>1. IsInjective(s)
    BY <1>1, <1>3, <1>6 DEF IsInjective
  <2>2. IsInjective(t)
    <3> SUFFICES ASSUME NEW a \in 1..n, NEW b \in 1..n, t[a] = t[b] PROVE a = b
      BY <1>1 DEF IsInjective
    <3>1. m + a = m + b
      BY <1>1, <1>4, <1>6 DEF IsInjective
    <3> QED
      BY <1>1, <3>1
  <2>3. ASSUME NEW a \in 1..m, NEW b \in 1..n PROVE s[a] # t[b]
    BY <1>1, <1>3, <1>4, <1>6 DEF IsInjective
  <2>4. ToSet(s) \cap ToSet(t) = {}
    BY <1>1, <2>3 DEF ToSet
  <2> QED
    BY <2>1, <2>2, <2>4
<1>7. ASSUME IsInjective(s), IsInjective(t), ToSet(s) \cap ToSet(t) = {}
      PROVE  IsInjective(q)
  <2> SUFFICES ASSUME NEW i \in 1..(m + n), NEW j \in 1..(m + n), q[i] = q[j] PROVE i = j
    BY <1>1 DEF IsInjective
  <2>0. \A a \in 1..m, b \in 1..n : s[a] # t[b]
    BY <1>1, <1>7 DEF ToSet
  <2>1. CASE i \in 1..m /\ j \in 1..m
    BY <1>1, <1>7, <2>1 DEF IsInjective
  <2>2. CASE i \in 1..m /\ j \notin 1..m
    <3>1. PICK b \in 1..n : j = m + b
      BY <1>2, <2>2
    <3> QED
      BY <1>1, <2>0, <2>2, <3>1
  <2>3. CASE i \notin 1..m /\ j \in 1..m
    <3>1. PICK a \in 1..n : i = m + a
      BY <1>2, <2>3
    <3> QED
      BY <1>1, <2>0, <2>3, <3>1
  <2>4. CASE i \notin 1..m /\ j \notin 1..m
    <3>1. PICK a \in 1..n : i = m + a
      BY <1>2, <2>4
    <3>2. PICK b \in 1..n : j = m + b
      BY <1>2, <2>4
    <3>3. t[a] = t[b]
      BY <1>1, <3>1, <3>2
    <3> QED
      BY <1>1, <1>7, <3>1, <3>2, <3>3 DEF IsInjective
  <2> QED
    BY <2>1, <2>2, <2>3, <2>4
<1> QED
  BY <1>1, <1>5, <1>6, <1>7 DEF q

LEMMA EmptyIs == ToSet(<<>>) = {} /\ IsInjective(<<>>) /\ FlattenSeq(<<>>) = <<>>
<1>1. FlattenSeq(<<>>) = <<>>
  BY FlattenEmpty
<1> QED
  BY <1>1 DEF ToSet, IsInjective

\* One more line.
LEMMA Extended ==
  ASSUME NEW S, NEW s \in Seq(S), NEW x \in S
  PROVE  /\ Append(s, x) \in Seq(S) /\ ToSet(Append(s, x)) = ToSet(s) \cup {x}
         /\ IsInjective(s) /\ x \notin ToSet(s) => IsInjective(Append(s, x))
<1> DEFINE t == <<x>>
<1>1. t \in Seq(S) /\ Append(s, x) = s \o t /\ ToSet(t) = {x} /\ IsInjective(t)
  BY AppendIsConcat DEF ToSet, IsInjective
<1> HIDE DEF t
<1>2. ToSet(s) \cap ToSet(t) = {} <=> x \notin ToSet(s)
  BY <1>1
<1> QED
  BY <1>1, <1>2, Joined

-----------------------------------------------------------------------------
(* The places after each step.                                               *)

\* A line that is kept.
LEMMA KeptApart ==
  ASSUME NEW F, NEW A, NEW B, NEW C, NEW D \in Seq(Nat), NEW gone, NEW n \in Nat \ {0},
         Apart(F, A, B, C, D, gone, n)
  PROVE  Apart(F, A, B, C, Append(D, n), gone, n + 1)
<1>1. n \notin 1..(n - 1) /\ 1..((n + 1) - 1) = (1..(n - 1)) \cup {n}
  OBVIOUS
<1>2. n \notin ToSet(F) /\ n \notin ToSet(A) /\ n \notin ToSet(B) /\ n \notin ToSet(C)
      /\ n \notin ToSet(D) /\ n \notin gone
  BY <1>1 DEF Apart
<1>3. ToSet(Append(D, n)) = ToSet(D) \cup {n} /\ IsInjective(Append(D, n))
  BY <1>2, Extended DEF Apart
<1> QED
  BY <1>1, <1>2, <1>3 DEF Apart

\* The full buffers and the current one together.
LEMMA BothApart ==
  ASSUME NEW F, NEW A, NEW B, NEW C \in Seq(Nat), NEW D \in Seq(Nat), NEW gone, NEW n,
         Apart(F, A, B, C, D, gone, n)
  PROVE  ToSet(C \o D) = ToSet(C) \cup ToSet(D) /\ IsInjective(C \o D)
<1>1. IsInjective(C) /\ IsInjective(D) /\ ToSet(C) \cap ToSet(D) = {}
  BY DEF Apart
<1> QED
  BY <1>1, Joined

\* A line that hands the buffer over and is not kept.
LEMMA HandedApart ==
  ASSUME NEW F, NEW A, NEW B, NEW C \in Seq(Nat), NEW D \in Seq(Nat), NEW gone,
         NEW n \in Nat \ {0}, Apart(F, A, B, C, D, gone, n)
  PROVE  Apart(F, A, B, C \o D, <<>>, gone \cup {n}, n + 1)
<1>1. n \notin 1..(n - 1) /\ 1..((n + 1) - 1) = (1..(n - 1)) \cup {n}
  OBVIOUS
<1>2. n \notin ToSet(F) /\ n \notin ToSet(A) /\ n \notin ToSet(B) /\ n \notin ToSet(C)
      /\ n \notin ToSet(D) /\ n \notin gone
  BY <1>1 DEF Apart
<1>3. ToSet(C \o D) = ToSet(C) \cup ToSet(D) /\ IsInjective(C \o D)
  BY BothApart
<1> QED
  BY <1>1, <1>2, <1>3, EmptyIs DEF Apart

\* The writer takes b and throws c away.
LEMMA TakenApart ==
  ASSUME NEW F, NEW A, NEW C \in Seq(Nat), NEW D \in Seq(Nat), NEW gone, NEW n,
         NEW b \in Seq(Nat), NEW c \in Seq(Nat), C \o D = b \o c,
         Apart(F, A, <<>>, C, D, gone, n)
  PROVE  Apart(F, A, b, <<>>, <<>>, gone \cup ToSet(c), n)
<1>1. ToSet(C \o D) = ToSet(C) \cup ToSet(D) /\ IsInjective(C \o D)
  BY BothApart
<1>2. ToSet(C \o D) = ToSet(b) \cup ToSet(c) /\ IsInjective(b) /\ ToSet(b) \cap ToSet(c) = {}
  BY <1>1, Joined
<1> QED
  BY <1>1, <1>2, EmptyIs DEF Apart

\* flush takes everything.
LEMMA FlushApart ==
  ASSUME NEW F, NEW B, NEW C \in Seq(Nat), NEW D \in Seq(Nat), NEW gone, NEW n,
         Apart(F, <<>>, B, C, D, gone, n)
  PROVE  Apart(F, C \o D, B, <<>>, <<>>, gone, n)
<1>1. ToSet(C \o D) = ToSet(C) \cup ToSet(D) /\ IsInjective(C \o D)
  BY BothApart
<1> QED
  BY <1>1, EmptyIs DEF Apart

\* A buffer of the flush is written or lost.
LEMMA FlushedApart ==
  ASSUME NEW F \in Seq(Nat), NEW h \in Seq(Nat), NEW A \in Seq(Nat), NEW B, NEW C, NEW D,
         NEW gone, NEW n, Apart(F, h \o A, B, C, D, gone, n)
  PROVE  /\ Apart(F \o h, A, B, C, D, gone, n)
         /\ Apart(F, A, B, C, D, gone \cup ToSet(h), n)
<1>1. /\ ToSet(h \o A) = ToSet(h) \cup ToSet(A) /\ IsInjective(h) /\ IsInjective(A)
      /\ ToSet(h) \cap ToSet(A) = {}
  BY Joined DEF Apart
<1>2. ToSet(F) \cap ToSet(h) = {}
  BY <1>1 DEF Apart
<1>3. ToSet(F \o h) = ToSet(F) \cup ToSet(h) /\ IsInjective(F \o h)
  BY <1>1, <1>2, Joined DEF Apart
<1> QED
  BY <1>1, <1>2, <1>3 DEF Apart

\* A buffer of the batch is written or lost.
LEMMA WrittenApart ==
  ASSUME NEW F \in Seq(Nat), NEW h \in Seq(Nat), NEW A, NEW B \in Seq(Nat), NEW C, NEW D,
         NEW gone, NEW n, Apart(F, A, h \o B, C, D, gone, n)
  PROVE  /\ Apart(F \o h, A, B, C, D, gone, n)
         /\ Apart(F, A, B, C, D, gone \cup ToSet(h), n)
<1>1. /\ ToSet(h \o B) = ToSet(h) \cup ToSet(B) /\ IsInjective(h) /\ IsInjective(B)
      /\ ToSet(h) \cap ToSet(B) = {}
  BY Joined DEF Apart
<1>2. ToSet(F) \cap ToSet(h) = {}
  BY <1>1 DEF Apart
<1>3. ToSet(F \o h) = ToSet(F) \cup ToSet(h) /\ IsInjective(F \o h)
  BY <1>1, <1>2, Joined DEF Apart
<1> QED
  BY <1>1, <1>2, <1>3 DEF Apart

-----------------------------------------------------------------------------
(* The invariant is kept.                                                    *)

\* What the writer takes and what it throws away.
LEMMA TrimCut ==
  ASSUME NEW bufs \in Seq(Seq(Nat))
  PROVE  /\ Trim(bufs) \in Seq(Seq(Nat)) /\ Cut(bufs) \in Seq(Seq(Nat))
         /\ FlattenSeq(bufs) = FlattenSeq(Trim(bufs)) \o FlattenSeq(Cut(bufs))
<1>1. CASE Len(bufs) > MaxBatch
  <2>1. Kept \in 0..Len(bufs)
    BY <1>1, LogAssumption
  <2> QED
    BY <1>1, <2>1, FlattenCut DEF Trim, Cut
<1>2. CASE ~(Len(bufs) > MaxBatch)
  <2>1. FlattenSeq(bufs) \in Seq(Nat) /\ FlattenSeq(<<>>) = <<>> /\ <<>> \in Seq(Seq(Nat))
    BY FlattenType, EmptyIs
  <2>2. FlattenSeq(bufs) \o <<>> = FlattenSeq(bufs)
    BY <2>1, ConcatEmptySeq
  <2> QED
    BY <1>2, <2>1, <2>2 DEF Trim, Cut
<1> QED
  BY <1>1, <1>2

\* The full buffers with the current one.
LEMMA WithCurrent ==
  ASSUME TypeInv
  PROVE  /\ Append(buffers, currentBuffer) \in Seq(Seq(Nat))
         /\ FlattenSeq(Append(buffers, currentBuffer)) = FlattenSeq(buffers) \o currentBuffer
  BY FlattenAppend, AppendAt DEF TypeInv

\* Each place is a sequence of lines.
LEMMA PlaceType ==
  ASSUME TypeInv
  PROVE  /\ FlattenSeq(flushBatch) \in Seq(Nat) /\ FlattenSeq(batch) \in Seq(Nat)
         /\ FlattenSeq(buffers) \in Seq(Nat)
  BY FlattenType DEF TypeInv

LEMMA TakeType ==
  ASSUME TypeInv, TakeBuffers
  PROVE  /\ batch' \in Seq(Seq(Nat)) /\ buffers' \in Seq(Seq(Nat))
         /\ currentBuffer' \in Seq(Nat) /\ worker' = "write"
<1>1. Trim(Taken) \in Seq(Seq(Nat))
  BY WithCurrent, TrimCut DEF Taken
<1> QED
  BY <1>1 DEF TakeBuffers, Left

LEMMA LockType ==
  ASSUME TypeInv, NEW t, FlushLocks(t)
  PROVE  /\ flushBatch' \in Seq(Seq(Nat)) /\ buffers' \in Seq(Seq(Nat))
         /\ currentBuffer' \in Seq(Nat)
  BY WithCurrent DEF FlushLocks

\* What is written to the file are lines.
LEMMA WriteType ==
  ASSUME TypeInv, NEW b \in Seq(Seq(Nat)), b # <<>>, NEW other, WriteTo(Head(b), other)
  PROVE  file' \in Seq(Nat) /\ Tail(b) \in Seq(Seq(Nat))
<1>1. Head(b) \in Seq(Nat) /\ Tail(b) \in Seq(Seq(Nat))
  BY FlattenHead
<1>2. file \o Head(b) \in Seq(Nat)
  BY <1>1, ConcatProperties DEF TypeInv
<1> QED
  BY <1>1, <1>2 DEF WriteTo, TypeInv

LEMMA LogType ==
  ASSUME TypeInv, NEW size, AppendLine(size), next' = next + 1
  PROVE  buffers' \in Seq(Seq(Nat)) /\ currentBuffer' \in Seq(Nat) /\ next' \in Nat \ {0}
<1>1. next' \in Nat \ {0} /\ next \in Nat
  BY DEF TypeInv
<1>2. Append(currentBuffer, next) \in Seq(Nat)
  BY <1>1, AppendProperties DEF TypeInv
<1>3. CASE Fits(size)
  BY <1>1, <1>2, <1>3 DEF AppendLine, TypeInv
<1>4. CASE ~Fits(size)
  <2>1. Append(buffers, currentBuffer) \in Seq(Seq(Nat))
    BY WithCurrent
  <2>2. buffers' = Append(buffers, currentBuffer) /\ currentBuffer' = <<>>
    BY <1>4 DEF AppendLine
  <2>3. buffers' \in Seq(Seq(Nat))
    BY <2>1, <2>2, Zenon
  <2> QED
    BY <1>1, <2>2, <2>3
<1> QED
  BY <1>3, <1>4

LEMMA InitHolds == Init => TypeInv /\ HoldInv /\ PlaceInv /\ RisingInv
<1> SUFFICES ASSUME Init PROVE TypeInv /\ HoldInv /\ PlaceInv /\ RisingInv
  OBVIOUS
<1>1. TypeInv
  BY DEF Init, TypeInv
<1>2. HoldInv
  BY LogAssumption DEF Init, HoldInv, LogAssumption
<1>3. PlaceInv
  <2>1. 1..(1 - 1) = {}
    OBVIOUS
  <2> QED
    BY <2>1, EmptyIs DEF Init, PlaceInv, Apart
<1>4. RisingInv
  <2>1. <<>> \o <<>> = <<>>
    OBVIOUS
  <2>2. file \o OnTheWay = <<>>
    BY <2>1, EmptyIs DEF Init, OnTheWay
  <2> QED
    BY <2>2 DEF RisingInv, Rising
<1> QED
  BY <1>1, <1>2, <1>3, <1>4

\* The types and who holds what.
LEMMA HoldNext ==
  ASSUME TypeInv, HoldInv, [Next]_vars
  PROVE  TypeInv' /\ HoldInv'
<1> USE DEF bufferVars, workerVars, flushVars
<1>0. Nobody \notin Loggers /\ Destructor \notin Loggers /\ Nobody # Destructor
  BY LogAssumption
<1>1. ASSUME NEW t \in Loggers, NEW size \in Sizes, Log(t, size)
      PROVE  TypeInv' /\ HoldInv'
  <2>1. buffers' \in Seq(Seq(Nat)) /\ currentBuffer' \in Seq(Nat) /\ next' \in Nat \ {0}
    BY <1>1, LogType DEF Log
  <2>2. calls' \in [Loggers -> {"idle", "flush"}]
        /\ (~flushes => calls' = [calls EXCEPT ![t] = "idle"])
    BY <1>1 DEF Log, TypeInv
  <2>3. TypeInv'
    BY <1>1, <2>1, <2>2 DEF Log, TypeInv
  <2>4. ~flushes => \A u \in Loggers : calls'[u] = "idle"
    BY <2>2 DEF HoldInv, TypeInv
  <2> QED
    BY <1>1, <2>3, <2>4 DEF Log, HoldInv
<1>2. CASE CheckRunning
  BY <1>2 DEF CheckRunning, TypeInv, HoldInv
<1>3. CASE WaitOrTake
  <2>1. CASE buffers = <<>>
    BY <1>3, <2>1 DEF WaitOrTake, TypeInv, HoldInv
  <2>2. CASE buffers # <<>>
    <3>1. TakeBuffers
      BY <1>3, <2>2 DEF WaitOrTake
    <3>2. TypeInv'
      BY <1>3, <3>1, TakeType DEF WaitOrTake, TypeInv
    <3> QED
      BY <1>3, <3>1, <3>2 DEF WaitOrTake, TakeBuffers, HoldInv
  <2> QED
    BY <2>1, <2>2
<1>4. CASE WakeUp
  <2>1. TypeInv'
    BY <1>4, TakeType DEF WakeUp, TypeInv
  <2> QED
    BY <1>4, <2>1 DEF WakeUp, TakeBuffers, HoldInv
<1>5. CASE WriteBuffer
  <2>1. TypeInv'
    <3>1. file' \in Seq(Nat) /\ Tail(batch) \in Seq(Seq(Nat))
      BY <1>5, WriteType DEF WriteBuffer, TypeInv
    <3> QED
      BY <1>5, <3>1 DEF WriteBuffer, TypeInv
  <2> QED
    BY <1>5, <2>1 DEF WriteBuffer, HoldInv
<1>6. CASE BatchWritten
  BY <1>6 DEF BatchWritten, TypeInv, HoldInv
<1>7. CASE FlushBuffer
  <2>1. TypeInv'
    <3>1. file' \in Seq(Nat) /\ Tail(flushBatch) \in Seq(Seq(Nat))
      BY <1>7, WriteType DEF FlushBuffer, TypeInv
    <3> QED
      BY <1>7, <3>1 DEF FlushBuffer, TypeInv
  <2> QED
    BY <1>7, <2>1 DEF FlushBuffer, HoldInv
<1>8. CASE Destroyed
  BY <1>0, <1>8 DEF Destroyed, TypeInv, HoldInv
<1>9. ASSUME NEW t \in Loggers, Flush(t)
      PROVE  TypeInv' /\ HoldInv'
  <2>1. TypeInv'
    BY <1>9, LockType DEF Flush, TypeInv
  <2> QED
    BY <1>0, <1>9, <2>1 DEF Flush, FlushLocks, HoldInv
<1>10. ASSUME NEW t \in Loggers, FlushReturns(t)
       PROVE  TypeInv' /\ HoldInv'
  <2>1. TypeInv'
    BY <1>10 DEF FlushReturns, TypeInv
  <2>2. \A u \in Loggers : calls[u] = "idle" => calls'[u] = "idle"
    BY <1>10 DEF FlushReturns, TypeInv
  <2> QED
    BY <1>0, <1>10, <2>1, <2>2 DEF FlushReturns, HoldInv
<1>11. CASE Start
  BY <1>11 DEF Start, TypeInv, HoldInv
<1>12. CASE Stop
  BY <1>12 DEF Stop, TypeInv, HoldInv
<1>13. CASE Join
  BY <1>13 DEF Join, TypeInv, HoldInv
<1>14. CASE Destroy
  <2>1. TypeInv'
    BY <1>14, LockType DEF Destroy, TypeInv
  <2> QED
    BY <1>0, <1>14, <2>1 DEF Destroy, FlushLocks, HoldInv
<1>15. CASE UNCHANGED vars
  BY <1>15 DEF vars, TypeInv, HoldInv
<1> QED
  BY <1>1, <1>2, <1>3, <1>4, <1>5, <1>6, <1>7, <1>8, <1>9, <1>10, <1>11, <1>12, <1>13, <1>14,
     <1>15 DEF Next, Worker, Flushing

\* Flattened batches after their first buffer is written.
LEMMA HeadWritten ==
  ASSUME NEW b \in Seq(Seq(Nat)), b # <<>>
  PROVE  /\ Head(b) \in Seq(Nat) /\ FlattenSeq(Tail(b)) \in Seq(Nat)
         /\ FlattenSeq(b) = Head(b) \o FlattenSeq(Tail(b))
  BY FlattenHead, FlattenType

\* The full buffers, the current one and what was thrown away, after the
\* writer has taken them.
LEMMA TakePlaces ==
  ASSUME TypeInv, TakeBuffers
  PROVE  \E c \in Seq(Nat) :
           /\ FlattenSeq(batch') \in Seq(Nat)
           /\ FlattenSeq(buffers) \o currentBuffer = FlattenSeq(batch') \o c
           /\ FlattenSeq(buffers') = <<>> /\ currentBuffer' = <<>>
           /\ dropped' = dropped \cup ToSet(c)
<1> DEFINE c == FlattenSeq(Cut(Taken))
<1>1. /\ Taken \in Seq(Seq(Nat))
      /\ FlattenSeq(Taken) = FlattenSeq(buffers) \o currentBuffer
  BY WithCurrent DEF Taken
<1>2. /\ Trim(Taken) \in Seq(Seq(Nat)) /\ Cut(Taken) \in Seq(Seq(Nat))
      /\ FlattenSeq(Taken) = FlattenSeq(Trim(Taken)) \o c
  BY <1>1, TrimCut
<1>3. c \in Seq(Nat) /\ FlattenSeq(Trim(Taken)) \in Seq(Nat)
  BY <1>2, FlattenType
<1>4. /\ batch' = Trim(Taken) /\ dropped' = dropped \cup ToSet(c)
      /\ buffers' = <<>> /\ currentBuffer' = <<>>
  BY DEF TakeBuffers, LinesOf, Left
<1> HIDE DEF c
<1>5. FlattenSeq(buffers') = <<>>
  BY <1>4, EmptyIs
<1>6. FlattenSeq(buffers) \o currentBuffer = FlattenSeq(batch') \o c /\ FlattenSeq(batch') \in Seq(Nat)
  BY <1>1, <1>2, <1>3, <1>4
<1> QED
  BY <1>3, <1>4, <1>5, <1>6

\* The same after flush has taken them.
LEMMA LockPlaces ==
  ASSUME TypeInv, NEW t, FlushLocks(t)
  PROVE  /\ FlattenSeq(flushBatch') = FlattenSeq(buffers) \o currentBuffer
         /\ FlattenSeq(buffers') = <<>> /\ currentBuffer' = <<>>
  BY WithCurrent, EmptyIs DEF FlushLocks

\* A line that is in the buffer, or has handed it over.
LEMMA LogPlaces ==
  ASSUME TypeInv, NEW size, AppendLine(size)
  PROVE  \/ /\ currentBuffer' = Append(currentBuffer, next)
            /\ UNCHANGED <<buffers, dropped>>
         \/ /\ FlattenSeq(buffers') = FlattenSeq(buffers) \o currentBuffer
            /\ currentBuffer' = <<>> /\ dropped' = dropped \cup {next}
<1>1. CASE Fits(size)
  BY <1>1 DEF AppendLine
<1>2. CASE ~Fits(size)
  <2>1. /\ buffers' = Append(buffers, currentBuffer)
        /\ currentBuffer' = <<>> /\ dropped' = dropped \cup {next}
    BY <1>2 DEF AppendLine
  <2> QED
    BY <2>1, WithCurrent
<1> QED
  BY <1>1, <1>2

\* The lines stay apart.
LEMMA PlaceNext ==
  ASSUME TypeInv, HoldInv, PlaceInv, [Next]_vars
  PROVE  PlaceInv'
<1> DEFINE F == file
           A == FlattenSeq(flushBatch)
           B == FlattenSeq(batch)
           C == FlattenSeq(buffers)
           D == currentBuffer
<1> USE DEF bufferVars, workerVars, flushVars
<1>0. /\ F \in Seq(Nat) /\ A \in Seq(Nat) /\ B \in Seq(Nat) /\ C \in Seq(Nat) /\ D \in Seq(Nat)
      /\ next \in Nat \ {0} /\ Apart(F, A, B, C, D, dropped, next)
  BY PlaceType DEF TypeInv, PlaceInv
<1>1. ASSUME NEW t \in Loggers, NEW size \in Sizes, Log(t, size)
      PROVE  PlaceInv'
  <2>1. UNCHANGED <<file, flushBatch, batch>> /\ next' = next + 1 /\ AppendLine(size)
    BY <1>1 DEF Log
  <2>2. CASE currentBuffer' = Append(currentBuffer, next) /\ UNCHANGED <<buffers, dropped>>
    <3>1. Apart(F, A, B, C, Append(D, next), dropped, next + 1)
      BY <1>0, KeptApart
    <3> QED
      BY <2>1, <2>2, <3>1 DEF PlaceInv
  <2>3. CASE /\ FlattenSeq(buffers') = FlattenSeq(buffers) \o currentBuffer
             /\ currentBuffer' = <<>> /\ dropped' = dropped \cup {next}
    <3>1. Apart(F, A, B, C \o D, <<>>, dropped \cup {next}, next + 1)
      BY <1>0, HandedApart
    <3> QED
      BY <2>1, <2>3, <3>1 DEF PlaceInv
  <2> QED
    BY <2>1, <2>2, <2>3, LogPlaces
<1>2. ASSUME TakeBuffers, worker # "write", UNCHANGED <<file, flushBatch, next>>
      PROVE  PlaceInv'
  <2>1. B = <<>>
    BY <1>2, EmptyIs DEF HoldInv
  <2>2. PICK c \in Seq(Nat) :
           /\ FlattenSeq(batch') \in Seq(Nat)
           /\ C \o D = FlattenSeq(batch') \o c
           /\ FlattenSeq(buffers') = <<>> /\ currentBuffer' = <<>>
           /\ dropped' = dropped \cup ToSet(c)
    BY <1>2, TakePlaces
  <2>3. Apart(F, A, FlattenSeq(batch'), <<>>, <<>>, dropped \cup ToSet(c), next)
    <3> HIDE DEF F, A, B, C, D
    <3> QED
      BY <1>0, <2>1, <2>2, TakenApart
  <2> QED
    BY <1>2, <2>2, <2>3 DEF PlaceInv
<1>3. CASE WriteBuffer
  <2> DEFINE h == Head(batch)
             b == FlattenSeq(Tail(batch))
  <2>1. /\ h \in Seq(Nat) /\ b \in Seq(Nat) /\ B = h \o b
        /\ UNCHANGED <<flushBatch, buffers, currentBuffer, next>> /\ batch' = Tail(batch)
    BY <1>3, HeadWritten DEF WriteBuffer, TypeInv
  <2>2. \/ file' = file \o h /\ UNCHANGED dropped
        \/ UNCHANGED file /\ dropped' = dropped \cup ToSet(h)
    BY <1>3 DEF WriteBuffer, WriteTo
  <2>3. Apart(F \o h, A, b, C, D, dropped, next) /\ Apart(F, A, b, C, D, dropped \cup ToSet(h), next)
    <3> HIDE DEF F, A, B, C, D, h, b
    <3> QED
      BY <1>0, <2>1, WrittenApart
  <2> QED
    BY <2>1, <2>2, <2>3 DEF PlaceInv
<1>4. CASE FlushBuffer
  <2> DEFINE h == Head(flushBatch)
             a == FlattenSeq(Tail(flushBatch))
  <2>1. /\ h \in Seq(Nat) /\ a \in Seq(Nat) /\ A = h \o a
        /\ UNCHANGED <<batch, buffers, currentBuffer, next>> /\ flushBatch' = Tail(flushBatch)
    BY <1>4, HeadWritten DEF FlushBuffer, TypeInv
  <2>2. \/ file' = file \o h /\ UNCHANGED dropped
        \/ UNCHANGED file /\ dropped' = dropped \cup ToSet(h)
    BY <1>4 DEF FlushBuffer, WriteTo
  <2>3. Apart(F \o h, a, B, C, D, dropped, next) /\ Apart(F, a, B, C, D, dropped \cup ToSet(h), next)
    <3> HIDE DEF F, A, B, C, D, h, a
    <3> QED
      BY <1>0, <2>1, FlushedApart
  <2> QED
    BY <2>1, <2>2, <2>3 DEF PlaceInv
<1>5. ASSUME NEW t, FlushLocks(t), UNCHANGED <<file, batch, next, dropped>>
      PROVE  PlaceInv'
  <2>1. A = <<>>
    BY <1>5, EmptyIs DEF HoldInv, FlushLocks
  <2>2. /\ FlattenSeq(flushBatch') = C \o D
        /\ FlattenSeq(buffers') = <<>> /\ currentBuffer' = <<>>
    BY <1>5, LockPlaces
  <2>3. Apart(F, C \o D, B, <<>>, <<>>, dropped, next)
    <3> HIDE DEF F, A, B, C, D
    <3> QED
      BY <1>0, <2>1, FlushApart
  <2> QED
    BY <1>5, <2>2, <2>3 DEF PlaceInv
<1>6. ASSUME UNCHANGED <<file, flushBatch, batch, buffers, currentBuffer, dropped, next>>
      PROVE  PlaceInv'
  BY <1>6 DEF PlaceInv
<1>7. CASE WaitOrTake
  BY <1>2, <1>6, <1>7 DEF WaitOrTake
<1>8. CASE WakeUp
  BY <1>2, <1>8 DEF WakeUp
<1>9. CASE CheckRunning \/ BatchWritten \/ Destroyed \/ Start \/ Stop \/ Join \/ UNCHANGED vars
  BY <1>6, <1>9 DEF CheckRunning, BatchWritten, Destroyed, Start, Stop, Join, vars
<1>10. ASSUME NEW t \in Loggers, Flush(t) \/ FlushReturns(t)
       PROVE  PlaceInv'
  BY <1>5, <1>6, <1>10 DEF Flush, FlushReturns
<1>11. CASE Destroy
  BY <1>5, <1>11 DEF Destroy
<1> QED
  BY <1>1, <1>3, <1>4, <1>7, <1>8, <1>9, <1>10, <1>11 DEF Next, Worker, Flushing

-----------------------------------------------------------------------------
(* The order of the lines.                                                   *)

\* The file and what is on its way, from left to right.
InLine(F, A, B, C, D) == (((F \o A) \o B) \o C) \o D

LEMMA InLineType ==
  ASSUME NEW F \in Seq(Nat), NEW A \in Seq(Nat), NEW B \in Seq(Nat), NEW C \in Seq(Nat),
         NEW D \in Seq(Nat)
  PROVE  /\ InLine(F, A, B, C, D) \in Seq(Nat)
         /\ ToSet(InLine(F, A, B, C, D)) =
              ToSet(F) \cup ToSet(A) \cup ToSet(B) \cup ToSet(C) \cup ToSet(D)
<1>1. F \o A \in Seq(Nat) /\ ToSet(F \o A) = ToSet(F) \cup ToSet(A)
  BY Joined
<1> DEFINE FA == F \o A
<1> HIDE DEF FA
<1>2. FA \o B \in Seq(Nat) /\ ToSet(FA \o B) = ToSet(FA) \cup ToSet(B)
  BY <1>1, Joined DEF FA
<1> DEFINE FAB == FA \o B
<1> HIDE DEF FAB
<1>3. FAB \o C \in Seq(Nat) /\ ToSet(FAB \o C) = ToSet(FAB) \cup ToSet(C)
  BY <1>2, Joined DEF FAB
<1> DEFINE FABC == FAB \o C
<1> HIDE DEF FABC
<1>4. FABC \o D \in Seq(Nat) /\ ToSet(FABC \o D) = ToSet(FABC) \cup ToSet(D)
  BY <1>3, Joined DEF FABC
<1>5. InLine(F, A, B, C, D) = FABC \o D
  BY DEF InLine, FABC, FAB, FA
<1>6. ToSet(FABC) = ToSet(FAB) \cup ToSet(C) /\ ToSet(FAB) = ToSet(FA) \cup ToSet(B)
      /\ ToSet(FA) = ToSet(F) \cup ToSet(A)
  BY <1>1, <1>2, <1>3 DEF FABC, FAB, FA
<1> QED
  BY <1>4, <1>5, <1>6

\* Five sequences of lines.
Parts(F, A, B, C, D) ==
  F \in Seq(Nat) /\ A \in Seq(Nat) /\ B \in Seq(Nat) /\ C \in Seq(Nat) /\ D \in Seq(Nat)

\* The brackets do not matter.
LEMMA Regroup ==
  ASSUME NEW F \in Seq(Nat), NEW A \in Seq(Nat), NEW B \in Seq(Nat)
  PROVE  (F \o A) \o B = F \o (A \o B)
BY ConcatAssociative

LEMMA Both ==
  ASSUME NEW F \in Seq(Nat), NEW A \in Seq(Nat)
  PROVE  F \o A \in Seq(Nat)
BY ConcatProperties

LEMMA NoMore ==
  ASSUME NEW F \in Seq(Nat)
  PROVE  F \o <<>> = F
BY ConcatEmptySeq

LEMMA InLineIs ==
  ASSUME NEW F, NEW A, NEW B, NEW C, NEW D, Parts(F, A, B, C, D)
  PROVE  F \o (((A \o B) \o C) \o D) = InLine(F, A, B, C, D)
<1> DEFINE AB  == A \o B
           ABC == AB \o C
<1>0. /\ F \in Seq(Nat) /\ A \in Seq(Nat) /\ B \in Seq(Nat) /\ C \in Seq(Nat)
      /\ D \in Seq(Nat)
  BY DEF Parts
<1>1. AB \in Seq(Nat)
  BY <1>0, Both
<1>2. (F \o A) \o B = F \o AB
  BY <1>0, Regroup
<1> HIDE DEF AB
<1>3. ABC \in Seq(Nat)
  BY <1>0, <1>1, Both
<1>4. (F \o AB) \o C = F \o ABC
  <2>1. F \in Seq(Nat) /\ AB \in Seq(Nat) /\ C \in Seq(Nat)
    BY <1>0, <1>1
  <2> QED
    BY <2>1, Regroup
<1> HIDE DEF ABC
<1>5. (F \o ABC) \o D = F \o (ABC \o D)
  <2>1. F \in Seq(Nat) /\ ABC \in Seq(Nat) /\ D \in Seq(Nat)
    BY <1>0, <1>3
  <2> QED
    BY <2>1, Regroup
<1> QED
  BY <1>2, <1>4, <1>5 DEF InLine, AB, ABC

\* A line that is kept comes last.
LEMMA InLineKept ==
  ASSUME NEW F, NEW A, NEW B, NEW C, NEW D, Parts(F, A, B, C, D), NEW n \in Nat
  PROVE  InLine(F, A, B, C, Append(D, n)) = Append(InLine(F, A, B, C, D), n)
<1> USE DEF Parts
<1> DEFINE FA   == F \o A
           FAB  == FA \o B
           FABC == FAB \o C
<1>1. FA \in Seq(Nat)
  BY Both
<1> HIDE DEF FA
<1>2. FAB \in Seq(Nat)
  BY <1>1, Both
<1> HIDE DEF FAB
<1>3. FABC \in Seq(Nat)
  BY <1>2, Both
<1> HIDE DEF FABC
<1>4. FABC \o Append(D, n) = Append(FABC \o D, n)
  BY <1>3, AppendBehind
<1> QED
  BY <1>4 DEF InLine, FABC, FAB, FA

\* What is handed over stays where it was in the line.
LEMMA InLineHanded ==
  ASSUME NEW F, NEW A, NEW B, NEW C, NEW D, Parts(F, A, B, C, D)
  PROVE  /\ InLine(F, A, B, C \o D, <<>>) = InLine(F, A, B, C, D)
         /\ InLine(F, C \o D, <<>>, <<>>, <<>>) = InLine(F, <<>>, <<>>, C, D)
<1> USE DEF Parts
<1> DEFINE CD == C \o D
           FA  == F \o A
           FAB == FA \o B
<1>1. CD \in Seq(Nat) /\ FA \in Seq(Nat)
  BY Both
<1>2. F \o <<>> = F
  BY NoMore
<1>3. ASSUME NEW X \in Seq(Nat)
      PROVE  /\ (X \o CD) \o <<>> = (X \o C) \o D
             /\ X \o CD = (X \o C) \o D
  <2>1. (X \o C) \o D = X \o CD
    BY Regroup
  <2> HIDE DEF CD, FA, FAB
  <2>2. X \o CD \in Seq(Nat)
    BY <1>1, Both
  <2>3. (X \o CD) \o <<>> = X \o CD
    BY <2>2, NoMore
  <2> QED
    BY <2>1, <2>3
<1> HIDE DEF CD, FA
<1>4. FAB \in Seq(Nat)
  BY <1>1, Both
<1> HIDE DEF FAB
<1>5. (FAB \o CD) \o <<>> = (FAB \o C) \o D
  BY <1>3, <1>4
<1>6. /\ (F \o CD) \o <<>> = (F \o C) \o D
      /\ F \o CD = (F \o C) \o D
  BY <1>3
<1>7. InLine(F, A, B, CD, <<>>) = InLine(F, A, B, C, D)
  BY <1>5 DEF InLine, FAB, FA
<1>8. InLine(F, CD, <<>>, <<>>, <<>>) = InLine(F, <<>>, <<>>, C, D)
  BY <1>2, <1>6 DEF InLine
<1> QED
  BY <1>7, <1>8 DEF CD

\* A buffer that is written stays where it was.
LEMMA InLineWritten ==
  ASSUME NEW F, NEW h, NEW x, NEW B, NEW C, NEW D, Parts(F, h, x, C, D)
  PROVE  /\ InLine(F \o h, x, B, C, D) = InLine(F, h \o x, B, C, D)
         /\ InLine(F \o h, <<>>, x, C, D) = InLine(F, <<>>, h \o x, C, D)
<1> USE DEF Parts
<1> DEFINE Fh == F \o h
<1>1. Fh \o x = F \o (h \o x)
  BY Regroup
<1>2. Fh \in Seq(Nat)
  BY Both
<1> HIDE DEF Fh
<1>3. F \o <<>> = F /\ Fh \o <<>> = Fh
  BY <1>2, NoMore
<1> QED
  BY <1>1, <1>3 DEF InLine, Fh

\* What the writer throws away was at the end.
LEMMA InLineTaken ==
  ASSUME NEW F, NEW A, NEW b, NEW C, NEW D, Parts(F, A, b, C, D)
  PROVE  /\ InLine(F, A, <<>>, C, D) = (F \o A) \o (C \o D)
         /\ InLine(F, A, b, <<>>, <<>>) \o D = (F \o A) \o (b \o D)
<1> USE DEF Parts
<1> DEFINE X == F \o A
           Xb == X \o b
<1>1. X \in Seq(Nat)
  BY Both
<1> HIDE DEF X
<1>2. (X \o C) \o D = X \o (C \o D) /\ Xb \o D = X \o (b \o D)
  BY <1>1, Regroup
<1>3. Xb \in Seq(Nat)
  BY <1>1, Both
<1> HIDE DEF Xb
<1>4. X \o <<>> = X /\ Xb \o <<>> = Xb
  BY <1>1, <1>3, NoMore
<1> QED
  BY <1>2, <1>4 DEF InLine, Xb, X

\* A larger line may come last; what comes last may go.
LEMMA RisingMore ==
  ASSUME NEW s \in Seq(Nat), Rising(s), NEW n \in Nat, \A x \in ToSet(s) : x < n
  PROVE  Rising(Append(s, n))
<1> DEFINE t == Append(s, n)
<1>1. /\ Len(s) \in Nat /\ t \in Seq(Nat) /\ Len(t) = Len(s) + 1
      /\ (\A i \in 1..Len(s) : t[i] = s[i]) /\ t[Len(s) + 1] = n
  BY AppendAt
<1> HIDE DEF t
<1>2. ASSUME NEW i \in DOMAIN t, NEW j \in DOMAIN t, i < j PROVE t[i] < t[j]
  <2>1. i \in 1..Len(s) /\ (j \in 1..Len(s) \/ j = Len(s) + 1)
    BY <1>1, <1>2
  <2>2. t[i] = s[i] /\ s[i] \in ToSet(s)
    BY <1>1, <2>1 DEF ToSet
  <2>3. CASE j \in 1..Len(s)
    BY <1>1, <1>2, <2>1, <2>2, <2>3 DEF Rising
  <2>4. CASE j = Len(s) + 1
    BY <1>1, <2>2, <2>4
  <2> QED
    BY <2>1, <2>3, <2>4
<1> QED
  BY <1>2 DEF Rising, t

LEMMA RisingLess ==
  ASSUME NEW s \in Seq(Nat), NEW c \in Seq(Nat), Rising(s \o c)
  PROVE  Rising(s)
<1> DEFINE t == s \o c
<1>1. /\ t \in Seq(Nat) /\ Len(t) = Len(s) + Len(c) /\ Len(c) \in Nat /\ Len(s) \in Nat
      /\ \A i \in 1..Len(s) : t[i] = s[i]
  BY ConcatAt
<1>2. Rising(t)
  OBVIOUS
<1> HIDE DEF t
<1>3. ASSUME NEW i \in DOMAIN s, NEW j \in DOMAIN s, i < j PROVE s[i] < s[j]
  <2>1. i \in 1..Len(s) /\ j \in 1..Len(s) /\ DOMAIN t = 1..Len(t)
    BY <1>1
  <2>2. i \in DOMAIN t /\ j \in DOMAIN t /\ t[i] = s[i] /\ t[j] = s[j]
    BY <1>1, <2>1
  <2> QED
    BY <1>2, <1>3, <2>2 DEF Rising
<1> QED
  BY <1>3 DEF Rising

\* The lines of the state, and that they rise.
LEMMA RisingIs ==
  ASSUME TypeInv, RisingInv, ~flushes
  PROVE  /\ file \o OnTheWay =
              InLine(file, FlattenSeq(flushBatch), FlattenSeq(batch), FlattenSeq(buffers),
                     currentBuffer)
         /\ Rising(InLine(file, FlattenSeq(flushBatch), FlattenSeq(batch),
                          FlattenSeq(buffers), currentBuffer))
<1>1. file \o OnTheWay =
        InLine(file, FlattenSeq(flushBatch), FlattenSeq(batch), FlattenSeq(buffers),
               currentBuffer)
  <2> DEFINE F == file
             A == FlattenSeq(flushBatch)
             B == FlattenSeq(batch)
             C == FlattenSeq(buffers)
             D == currentBuffer
  <2>1. Parts(F, A, B, C, D)
    BY PlaceType DEF TypeInv, Parts
  <2>2. F \o OnTheWay = F \o (((A \o B) \o C) \o D)
    BY DEF OnTheWay
  <2> HIDE DEF F, A, B, C, D
  <2>3. F \o (((A \o B) \o C) \o D) = InLine(F, A, B, C, D)
    BY <2>1, InLineIs
  <2> QED
    BY <2>2, <2>3 DEF F, A, B, C, D
<1> QED
  BY <1>1 DEF RisingInv

LEMMA RisingIsNext ==
  ASSUME TypeInv',
         Rising(InLine(file', FlattenSeq(flushBatch'), FlattenSeq(batch'),
                       FlattenSeq(buffers'), currentBuffer'))
  PROVE  RisingInv'
<1>1. /\ file' \in Seq(Nat) /\ FlattenSeq(flushBatch') \in Seq(Nat)
      /\ FlattenSeq(batch') \in Seq(Nat) /\ FlattenSeq(buffers') \in Seq(Nat)
      /\ currentBuffer' \in Seq(Nat)
  BY FlattenType DEF TypeInv
<1>2. (file \o OnTheWay)' =
        InLine(file', FlattenSeq(flushBatch'), FlattenSeq(batch'), FlattenSeq(buffers'),
               currentBuffer')
  <2> DEFINE F == file'
             A == FlattenSeq(flushBatch')
             B == FlattenSeq(batch')
             C == FlattenSeq(buffers')
             D == currentBuffer'
  <2>1. Parts(F, A, B, C, D)
    BY <1>1 DEF Parts
  <2>2. (file \o OnTheWay)' = F \o (((A \o B) \o C) \o D)
    BY DEF OnTheWay
  <2> HIDE DEF F, A, B, C, D
  <2>3. F \o (((A \o B) \o C) \o D) = InLine(F, A, B, C, D)
    BY <2>1, InLineIs
  <2> QED
    BY <2>2, <2>3 DEF F, A, B, C, D
<1> QED
  BY <1>2 DEF RisingInv

\* The order is kept.
LEMMA RisingNext ==
  ASSUME TypeInv, TypeInv', HoldInv, PlaceInv, RisingInv, [Next]_vars
  PROVE  RisingInv'
<1> DEFINE F == file
           A == FlattenSeq(flushBatch)
           B == FlattenSeq(batch)
           C == FlattenSeq(buffers)
           D == currentBuffer
<1> USE DEF bufferVars, workerVars, flushVars
<1>0. SUFFICES ASSUME ~flushes PROVE RisingInv'
  <2>1. flushes' = flushes
    BY DEF Next, Worker, Flushing, Log, CheckRunning, WaitOrTake, WakeUp, WriteBuffer,
           BatchWritten, FlushBuffer, Destroyed, Flush, FlushReturns, Start, Stop, Join,
           Destroy, vars
  <2> QED
    BY <2>1 DEF RisingInv
<1>a. /\ F \in Seq(Nat) /\ A \in Seq(Nat) /\ B \in Seq(Nat) /\ C \in Seq(Nat) /\ D \in Seq(Nat)
      /\ next \in Nat \ {0} /\ Rising(InLine(F, A, B, C, D))
  BY <1>0, PlaceType, RisingIs DEF TypeInv
<1>b. Parts(F, A, B, C, D)
  BY <1>a DEF Parts
<1>c. /\ worker = "write" => mutex = Nobody /\ A = <<>>
      /\ mutex # Nobody => worker # "write" /\ B = <<>>
      /\ worker # "write" => B = <<>>
  BY <1>0, EmptyIs DEF HoldInv
<1>1. ASSUME NEW t \in Loggers, NEW size \in Sizes, Log(t, size)
      PROVE  RisingInv'
  <2>1. UNCHANGED <<file, flushBatch, batch>> /\ AppendLine(size)
    BY <1>1 DEF Log
  <2>2. CASE currentBuffer' = Append(currentBuffer, next) /\ UNCHANGED <<buffers, dropped>>
    <3> DEFINE s == InLine(F, A, B, C, D)
    <3>1. s \in Seq(Nat) /\ ToSet(s) = ToSet(F) \cup ToSet(A) \cup ToSet(B) \cup ToSet(C) \cup ToSet(D)
      <4> HIDE DEF F, A, B, C, D
      <4> QED
        BY <1>a, InLineType
    <3>0. next \in Nat
      BY <1>a
    <3>2. InLine(F, A, B, C, Append(D, next)) = Append(s, next)
      <4> HIDE DEF F, A, B, C, D
      <4> QED
        BY <1>b, <3>0, InLineKept
    <3>3. ToSet(s) \subseteq 1..(next - 1)
      BY <3>1 DEF PlaceInv, Apart
    <3> HIDE DEF s
    <3>4. Rising(Append(s, next))
      <4>1. \A x \in ToSet(s) : x < next
        BY <1>a, <3>3
      <4>2. Rising(s) /\ next \in Nat
        BY <1>a DEF s
      <4> QED
        BY <3>1, <4>1, <4>2, RisingMore
    <3> QED
      BY <2>1, <2>2, <3>2, <3>4, RisingIsNext
  <2>3. CASE /\ FlattenSeq(buffers') = FlattenSeq(buffers) \o currentBuffer
             /\ currentBuffer' = <<>> /\ dropped' = dropped \cup {next}
    <3>1. InLine(F, A, B, C \o D, <<>>) = InLine(F, A, B, C, D)
      <4> HIDE DEF F, A, B, C, D
      <4> QED
        BY <1>b, InLineHanded
    <3> QED
      BY <1>a, <2>1, <2>3, <3>1, RisingIsNext
  <2> QED
    BY <2>1, <2>2, <2>3, LogPlaces
<1>2. ASSUME TakeBuffers, worker # "write", UNCHANGED <<file, flushBatch>>
      PROVE  RisingInv'
  <2>1. B = <<>>
    BY <1>2, <1>c
  <2>2. PICK c :
           /\ c \in Seq(Nat) /\ FlattenSeq(batch') \in Seq(Nat)
           /\ C \o D = FlattenSeq(batch') \o c
           /\ FlattenSeq(buffers') = <<>> /\ currentBuffer' = <<>>
    BY <1>2, TakePlaces
  <2> DEFINE b == FlattenSeq(batch')
             s == InLine(F, A, b, <<>>, <<>>)
  <2>3. InLine(F, A, <<>>, C, D) = s \o c
    <3>1. Parts(F, A, b, C, D) /\ Parts(F, A, b, c, c)
      BY <1>a, <2>2 DEF Parts
    <3>2. C \o D = b \o c
      BY <2>2
    <3> HIDE DEF F, A, B, C, D, b
    <3>3. InLine(F, A, <<>>, C, D) = (F \o A) \o (C \o D)
      BY <3>1, InLineTaken
    <3>4. InLine(F, A, b, <<>>, <<>>) \o c = (F \o A) \o (b \o c)
      BY <3>1, InLineTaken
    <3> QED
      BY <3>2, <3>3, <3>4
  <2>4. s \in Seq(Nat)
    <3>1. b \in Seq(Nat) /\ <<>> \in Seq(Nat)
      BY <2>2
    <3> HIDE DEF F, A, B, C, D, b
    <3> QED
      BY <1>a, <3>1, InLineType
  <2>5. Rising(s \o c)
    BY <1>a, <2>1, <2>3
  <2>6. Rising(s)
    <3> HIDE DEF s
    <3> QED
      BY <2>2, <2>4, <2>5, RisingLess
  <2> QED
    BY <1>2, <2>2, <2>6, RisingIsNext
<1>3. CASE WriteBuffer
  <2> DEFINE h == Head(batch)
             b == FlattenSeq(Tail(batch))
  <2>1. /\ h \in Seq(Nat) /\ b \in Seq(Nat) /\ B = h \o b
        /\ UNCHANGED <<flushBatch, buffers, currentBuffer>> /\ batch' = Tail(batch)
    BY <1>3, HeadWritten DEF WriteBuffer, TypeInv
  <2>2. file' = file \o h /\ A = <<>>
    BY <1>3, <1>c DEF WriteBuffer, WriteTo, FlusherBusy
  <2>3. InLine(F \o h, <<>>, b, C, D) = InLine(F, <<>>, h \o b, C, D)
    <3>1. Parts(F, h, b, C, D)
      BY <1>a, <2>1 DEF Parts
    <3> HIDE DEF F, A, B, C, D, h, b
    <3> QED
      BY <3>1, InLineWritten
  <2> QED
    BY <1>a, <2>1, <2>2, <2>3, RisingIsNext
<1>4. CASE FlushBuffer
  <2> DEFINE h == Head(flushBatch)
             a == FlattenSeq(Tail(flushBatch))
  <2>1. /\ h \in Seq(Nat) /\ a \in Seq(Nat) /\ A = h \o a
        /\ UNCHANGED <<batch, buffers, currentBuffer>> /\ flushBatch' = Tail(flushBatch)
    BY <1>4, HeadWritten DEF FlushBuffer, TypeInv
  <2>2. file' = file \o h
    BY <1>4, <1>c DEF FlushBuffer, WriteTo, WriterBusy
  <2>3. InLine(F \o h, a, B, C, D) = InLine(F, h \o a, B, C, D)
    <3>1. Parts(F, h, a, C, D)
      BY <1>a, <2>1 DEF Parts
    <3> HIDE DEF F, A, B, C, D, h, a
    <3> QED
      BY <3>1, InLineWritten
  <2> QED
    BY <1>a, <2>1, <2>2, <2>3, RisingIsNext
<1>5. CASE Destroy
  <2>1. FlushLocks(Destructor) /\ UNCHANGED <<file, batch>> /\ owner \in {"new", "stopped"}
    BY <1>5 DEF Destroy
  <2>2. A = <<>> /\ B = <<>>
    BY <2>1, <1>c, EmptyIs DEF HoldInv, FlushLocks
  <2>3. /\ FlattenSeq(flushBatch') = C \o D
        /\ FlattenSeq(buffers') = <<>> /\ currentBuffer' = <<>>
    BY <2>1, LockPlaces
  <2>4. InLine(F, C \o D, <<>>, <<>>, <<>>) = InLine(F, <<>>, <<>>, C, D)
    <3> HIDE DEF F, A, B, C, D
    <3> QED
      BY <1>b, InLineHanded
  <2> QED
    BY <1>a, <2>1, <2>2, <2>3, <2>4, RisingIsNext
<1>6. ASSUME UNCHANGED <<file, flushBatch, batch, buffers, currentBuffer>>
      PROVE  RisingInv'
  BY <1>a, <1>6, RisingIsNext
<1>7. CASE WaitOrTake
  BY <1>2, <1>6, <1>7 DEF WaitOrTake
<1>8. CASE WakeUp
  BY <1>2, <1>8 DEF WakeUp
<1>9. CASE CheckRunning \/ BatchWritten \/ Destroyed \/ Start \/ Stop \/ Join \/ UNCHANGED vars
  BY <1>6, <1>9 DEF CheckRunning, BatchWritten, Destroyed, Start, Stop, Join, vars
<1>10. ASSUME NEW t \in Loggers, Flush(t) \/ FlushReturns(t)
       PROVE  RisingInv'
  <2>1. ~Flush(t)
    BY <1>0 DEF Flush, HoldInv
  <2> QED
    BY <1>6, <1>10, <2>1 DEF FlushReturns
<1> QED
  BY <1>1, <1>3, <1>4, <1>5, <1>7, <1>8, <1>9, <1>10 DEF Next, Worker, Flushing

-----------------------------------------------------------------------------
(* The theorems.                                                             *)

LEMMA Invariant == Spec => [](TypeInv /\ HoldInv /\ PlaceInv /\ RisingInv)
<1>1. TypeInv /\ HoldInv /\ PlaceInv /\ RisingInv /\ [Next]_vars
      => (TypeInv /\ HoldInv /\ PlaceInv /\ RisingInv)'
  BY HoldNext, PlaceNext, RisingNext
<1> QED
  BY <1>1, InitHolds, PTL DEF Spec

LEMMA PlacesAccounted ==
  ASSUME TypeInv, HoldInv, PlaceInv
  PROVE  LinesAccounted
<1> DEFINE A  == FlattenSeq(flushBatch)
           B  == FlattenSeq(batch)
           C  == FlattenSeq(buffers)
           D  == currentBuffer
           AB == A \o B
           ABC == AB \o C
           way == ABC \o D
<1>1. /\ file \in Seq(Nat) /\ A \in Seq(Nat) /\ B \in Seq(Nat) /\ C \in Seq(Nat)
      /\ D \in Seq(Nat) /\ Apart(file, A, B, C, D, dropped, next)
  BY PlaceType DEF TypeInv, PlaceInv
<1>2. owner = "gone" /\ mutex = Nobody => way = <<>>
  <2>1. <<>> \o <<>> = <<>>
    OBVIOUS
  <2> QED
    BY <2>1, EmptyIs DEF HoldInv
<1>3. OnTheWay = way
  BY DEF OnTheWay
<1> HIDE DEF A, B, C, D
<1>4. AB \in Seq(Nat) /\ ToSet(AB) = ToSet(A) \cup ToSet(B) /\ IsInjective(AB)
  BY <1>1, Joined DEF Apart
<1> HIDE DEF AB
<1>5. ABC \in Seq(Nat) /\ ToSet(ABC) = ToSet(AB) \cup ToSet(C) /\ IsInjective(ABC)
  <2>1. ToSet(AB) \cap ToSet(C) = {}
    BY <1>1, <1>4 DEF Apart
  <2> QED
    BY <1>1, <1>4, <2>1, Joined DEF Apart
<1> HIDE DEF ABC
<1>6. way \in Seq(Nat) /\ ToSet(way) = ToSet(ABC) \cup ToSet(D) /\ IsInjective(way)
  <2>1. ToSet(ABC) \cap ToSet(D) = {}
    BY <1>1, <1>4, <1>5 DEF Apart
  <2> QED
    BY <1>1, <1>5, <2>1, Joined DEF Apart
<1> HIDE DEF way
<1>7. ToSet(file \o way) = ToSet(file) \cup ToSet(way) /\ IsInjective(file \o way)
  <2>1. ToSet(file) \cap ToSet(way) = {}
    BY <1>1, <1>4, <1>5, <1>6 DEF Apart
  <2> QED
    BY <1>1, <1>6, <2>1, Joined DEF Apart
<1>8. /\ ToSet(file \o way) \cap dropped = {}
      /\ ToSet(file \o way) \cup dropped = 1..(next - 1)
  BY <1>1, <1>4, <1>5, <1>6, <1>7 DEF Apart
<1> QED
  BY <1>2, <1>3, <1>7, <1>8 DEF LinesAccounted

\* append() puts a line into the buffer or throws it away (AsyncLogging.cpp:
\* 40-59), workthreadfunc and flush move whole buffers to a batch of their own
\* and on to the file, or drop them (61-110, 111-124): no line is twice in a
\* place, in two places or in none, and ~AsyncLogging (18-25) leaves none behind.
THEOREM LinesAccountedHolds == Spec => []LinesAccounted
  BY Invariant, PlacesAccounted, PTL

\* While Logger does not call flush() after its lines, the writing thread and
\* the destructor write the buffers oldest first and never at the same time:
\* the lines in the file are in the order in which append() got the lock.
THEOREM WrittenInOrderHolds == Spec => []WrittenInOrder
<1>1. TypeInv /\ RisingInv => WrittenInOrder
  <2> SUFFICES ASSUME TypeInv, RisingInv, ~flushes PROVE Rising(file)
    BY DEF WrittenInOrder, Rising
  <2>1. Rising(file \o OnTheWay) /\ file \in Seq(Nat)
    BY DEF RisingInv, TypeInv
  <2>2. OnTheWay \in Seq(Nat)
    <3> DEFINE A == FlattenSeq(flushBatch)
               B == FlattenSeq(batch)
               C == FlattenSeq(buffers)
               AB == A \o B
               ABC == AB \o C
    <3>1. A \in Seq(Nat) /\ B \in Seq(Nat) /\ C \in Seq(Nat) /\ currentBuffer \in Seq(Nat)
      BY PlaceType DEF TypeInv
    <3>2. OnTheWay = ABC \o currentBuffer
      BY DEF OnTheWay
    <3> HIDE DEF A, B, C
    <3>3. AB \in Seq(Nat)
      BY <3>1, Both
    <3> HIDE DEF AB
    <3>4. ABC \in Seq(Nat)
      BY <3>1, <3>3, Both
    <3> HIDE DEF ABC
    <3> QED
      BY <3>1, <3>2, <3>4, Both
  <2> QED
    BY <2>1, <2>2, RisingLess
<1> QED
  BY <1>1, Invariant, PTL

=============================================================================
