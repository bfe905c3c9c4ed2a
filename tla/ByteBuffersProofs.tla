------------------------- MODULE ByteBuffersProofs -------------------------
(***************************************************************************)
(* What the operations of the two byte buffers of pty_broker.py do to what *)
(* the buffers hold, for any chunks and limits: EnqueueEffect,             *)
(* ConsumeEffect, TrimEffect and RememberEffect.  What a list of chunks    *)
(* holds, FlattenSeq, is defined by recursion over the list; its laws come *)
(* from the least counterexample (NatInd).                                 *)
(***************************************************************************)
EXTENDS ByteBuffers, SequenceTheorems, WellFoundedInduction, TLAPS

-----------------------------------------------------------------------------
(* What a list of chunks holds.                                            *)

\* A set of numbers that holds 0 and every successor holds all: the least
\* number outside would have a predecessor inside.
LEMMA NatInd ==
  ASSUME NEW S \in SUBSET Nat, 0 \in S, \A n \in S : n + 1 \in S
  PROVE  S = Nat
  <1> DEFINE R == {ss \in Nat \X Nat : ss[1] < ss[2]}
  <1>1. IsWellFoundedOn(R, Nat)
    BY NatLessThanWellFounded DEF OpToRel
  <1>2. SUFFICES ASSUME Nat \ S # {} PROVE FALSE
    OBVIOUS
  <1>3. PICK x \in Nat \ S : \A y \in Nat \ S : <<y, x>> \notin R
    <2> HIDE DEF R
    <2> QED
      BY <1>1, <1>2, WFMin
  <1>4. x - 1 \in Nat /\ x - 1 < x
    OBVIOUS
  <1>5. <<x - 1, x>> \in R
    BY <1>4
  <1>6. x - 1 \in S
    BY <1>3, <1>4, <1>5
  <1> QED
    BY <1>4, <1>6

\* The sequences f[i] of what the first i chunks hold exist.
LEMMA SumsExist ==
  ASSUME NEW S, NEW ss \in Seq(Seq(S))
  PROVE  \E f \in [0..Len(ss) -> Seq(S)] :
            /\ f[0] = <<>>
            /\ \A i \in 1..Len(ss) : f[i] = f[i - 1] \o ss[i]
  <1> DEFINE Sums(n, f) == /\ f[0] = <<>>
                           /\ \A i \in 1..n : f[i] = f[i - 1] \o ss[i]
             N == {n \in Nat : n <= Len(ss) => \E f \in [0..n -> Seq(S)] : Sums(n, f)}
  <1>0. Len(ss) \in Nat /\ \A i \in 1..Len(ss) : ss[i] \in Seq(S)
    OBVIOUS
  <1>1. 0 \in N
    <2> DEFINE f == [i \in 0..0 |-> <<>>]
    <2>1. f \in [0..0 -> Seq(S)] /\ Sums(0, f)
      OBVIOUS
    <2> QED
      BY <2>1
  <1>2. ASSUME NEW n \in N PROVE n + 1 \in N
    <2>0. n \in Nat /\ n + 1 \in Nat
      OBVIOUS
    <2>a. n <= Len(ss) => \E f \in [0..n -> Seq(S)] : Sums(n, f)
      BY Zenon
    <2> SUFFICES ASSUME n + 1 <= Len(ss)
                 PROVE  \E f \in [0..(n + 1) -> Seq(S)] : Sums(n + 1, f)
      BY <2>0, Zenon
    <2>1. PICK f \in [0..n -> Seq(S)] : Sums(n, f)
      <3>1. n <= Len(ss)
        BY <1>0, <2>0
      <3> HIDE DEF Sums
      <3> QED
        BY <2>a, <3>1
    <2> DEFINE g == [i \in 0..(n + 1) |-> IF i = n + 1 THEN f[n] \o ss[n + 1] ELSE f[i]]
    <2>2. f[n] \in Seq(S) /\ ss[n + 1] \in Seq(S)
      BY <1>0
    <2>3. f[n] \o ss[n + 1] \in Seq(S)
      BY <2>2
    <2>4. g \in [0..(n + 1) -> Seq(S)]
      BY <2>3
    <2>5. g[0] = <<>>
      BY <2>1
    <2>6. ASSUME NEW i \in 1..(n + 1) PROVE g[i] = g[i - 1] \o ss[i]
      <3>1. i - 1 \in 0..(n + 1) /\ i \in 0..(n + 1) /\ i - 1 # n + 1
        BY <2>0
      <3>2. g[i - 1] = f[i - 1]
        BY <3>1
      <3>3. CASE i = n + 1
        <4>1. i - 1 = n
          BY <2>0, <3>3
        <4> QED
          BY <3>1, <3>2, <3>3, <4>1
      <3>4. CASE i # n + 1
        <4>1. g[i] = f[i] /\ i \in 1..n
          BY <3>1, <3>4, <2>0
        <4>2. f[i] = f[i - 1] \o ss[i]
          BY <2>1, <4>1
        <4> QED
          BY <4>1, <4>2, <3>2
      <3> QED
        BY <3>3, <3>4
    <2> QED
      BY <2>4, <2>5, <2>6
  <1>3. N = Nat
    <2> HIDE DEF N
    <2>1. N \in SUBSET Nat
      BY DEF N
    <2> QED
      BY <1>1, <1>2, <2>1, NatInd
  <1>4. Len(ss) \in N
    <2> HIDE DEF N
    <2> QED
      BY <1>0, <1>3
  <1>5. Len(ss) <= Len(ss)
    BY <1>0
  <1> QED
    BY <1>4, <1>5, Zenon

\* FlattenSeq is the last of them.
LEMMA Flattened ==
  ASSUME NEW S, NEW ss \in Seq(Seq(S)),
         NEW f \in [0..Len(ss) -> Seq(S)],
         f[0] = <<>>, \A i \in 1..Len(ss) : f[i] = f[i - 1] \o ss[i]
  PROVE  FlattenSeq(ss) = f[Len(ss)]
  <1>0. Len(ss) \in Nat /\ \A i \in 1..Len(ss) : ss[i] \in Seq(S)
    OBVIOUS
  <1>1. CASE Len(ss) = 0
    BY <1>1 DEF FlattenSeq
  <1>2. CASE Len(ss) # 0
    <2> DEFINE Is(g) == g = [i \in 1..Len(ss) |-> IF i = 1 THEN ss[i] ELSE g[i - 1] \o ss[i]]
               h == CHOOSE g : Is(g)
               k == [i \in 1..Len(ss) |-> f[i]]
    <2>1. FlattenSeq(ss) = h[Len(ss)]
      BY <1>2 DEF FlattenSeq
    <2>2. Is(k)
      <3>1. ASSUME NEW i \in 1..Len(ss) PROVE k[i] = IF i = 1 THEN ss[i] ELSE k[i - 1] \o ss[i]
        <4>1. CASE i = 1
          <5>0. f[i] = f[i - 1] \o ss[i] /\ ss[i] \in Seq(S)
            BY <1>0
          <5>1. i - 1 = 0
            BY <4>1
          <5>2. f[i] = <<>> \o ss[i]
            BY <5>0, <5>1
          <5>3. f[i] = ss[i]
            BY <5>0, <5>2
          <5> QED BY <5>3, <4>1, <1>0
        <4>2. CASE i # 1
          <5>0. f[i] = f[i - 1] \o ss[i]
            OBVIOUS
          <5>1. i - 1 \in 1..Len(ss)
            BY <4>2, <1>0
          <5>2. k[i - 1] = f[i - 1] /\ k[i] = f[i]
            BY <5>1
          <5> QED BY <5>0, <5>2, <4>2
        <4> QED BY <4>1, <4>2
      <3> QED BY <3>1
    <2>3. Is(h)
      <3> HIDE DEF Is
      <3> QED BY <2>2
    <2> HIDE DEF h
    <2> DEFINE N == {n \in Nat : n + 1 \in 1..Len(ss) => h[n + 1] = f[n + 1]}
    <2>4. 0 \in N
      <3>0. 1 \in 1..Len(ss) /\ 1 - 1 = 0 /\ ss[1] \in Seq(S)
        BY <1>2, <1>0
      <3>1. f[1] = f[0] \o ss[1]
        BY <3>0
      <3>2. f[1] = ss[1]
        BY <3>1, <3>0
      <3>3. h[1] = ss[1]
        BY <2>3, <3>0
      <3> QED BY <3>2, <3>3
    <2>5. ASSUME NEW n \in N PROVE n + 1 \in N
      <3> SUFFICES ASSUME n + 2 \in 1..Len(ss) PROVE h[n + 2] = f[n + 2]
        OBVIOUS
      <3>0. n \in Nat /\ n + 1 \in 1..Len(ss) /\ (n + 2) - 1 = n + 1 /\ n + 2 # 1
        BY <1>0
      <3>1. h[n + 1] = f[n + 1]
        BY <3>0
      <3>2. h[n + 2] = h[n + 1] \o ss[n + 2]
        BY <2>3, <3>0
      <3>3. f[n + 2] = f[n + 1] \o ss[n + 2]
        <4>1. f[n + 2] = f[(n + 2) - 1] \o ss[n + 2]
          OBVIOUS
        <4> QED BY <4>1, <3>0
      <3> QED BY <3>1, <3>2, <3>3
    <2>6. N = Nat
      <3> HIDE DEF N
      <3>1. N \in SUBSET Nat
        BY DEF N
      <3> QED BY <2>4, <2>5, <3>1, NatInd
    <2>7. Len(ss) - 1 \in N
      <3>1. Len(ss) - 1 \in Nat
        BY <1>0, <1>2
      <3> HIDE DEF N
      <3> QED BY <2>6, <3>1
    <2>8. (Len(ss) - 1) + 1 = Len(ss) /\ Len(ss) \in 1..Len(ss)
      BY <1>0, <1>2
    <2>9. h[Len(ss)] = f[Len(ss)]
      BY <2>7, <2>8, Zenon
    <2> QED BY <2>1, <2>9
  <1> QED BY <1>1, <1>2

\* Concatenation is associative.
LEMMA Assoc == \A S : \A a, b, c \in Seq(S) : (a \o b) \o c = a \o (b \o c)
  BY SMT

\* What two lists of chunks hold, one after the other.
LEMMA FlattenConcat ==
  ASSUME NEW S, NEW ss \in Seq(Seq(S)), NEW tt \in Seq(Seq(S))
  PROVE  /\ FlattenSeq(ss) \in Seq(S)
         /\ FlattenSeq(ss \o tt) = FlattenSeq(ss) \o FlattenSeq(tt)
  <1>1. PICK f \in [0..Len(ss) -> Seq(S)] :
          f[0] = <<>> /\ \A i \in 1..Len(ss) : f[i] = f[i - 1] \o ss[i]
    BY SumsExist
  <1>2. PICK g \in [0..Len(tt) -> Seq(S)] :
          g[0] = <<>> /\ \A i \in 1..Len(tt) : g[i] = g[i - 1] \o tt[i]
    BY SumsExist
  <1>3. FlattenSeq(ss) = f[Len(ss)] /\ FlattenSeq(tt) = g[Len(tt)]
    BY <1>1, <1>2, Flattened
  <1>4. Len(ss) \in Nat /\ Len(tt) \in Nat
    OBVIOUS
  <1>t. /\ \A i \in 0..Len(ss) : f[i] \in Seq(S)
        /\ \A i \in 0..Len(tt) : g[i] \in Seq(S)
        /\ \A i \in 1..Len(tt) : tt[i] \in Seq(S)
        /\ f[Len(ss)] \in Seq(S) /\ g[Len(tt)] \in Seq(S)
    <2>1. Len(ss) \in 0..Len(ss) /\ Len(tt) \in 0..Len(tt)
      BY <1>4
    <2>2. \A i \in 1..Len(tt) : tt[i] \in Seq(S)
      OBVIOUS
    <2>3. \A i \in 0..Len(ss) : f[i] \in Seq(S)
      OBVIOUS
    <2>4. \A i \in 0..Len(tt) : g[i] \in Seq(S)
      OBVIOUS
    <2> QED
      BY ONLY <2>1, <2>2, <2>3, <2>4
  <1> DEFINE st == ss \o tt
             h == [i \in 0..(Len(ss) + Len(tt)) |->
                     IF i <= Len(ss) THEN f[i] ELSE f[Len(ss)] \o g[i - Len(ss)]]
  <1>5. /\ st \in Seq(Seq(S)) /\ Len(st) = Len(ss) + Len(tt)
        /\ \A i \in 1..Len(ss) + Len(tt) :
             st[i] = IF i <= Len(ss) THEN ss[i] ELSE tt[i - Len(ss)]
    <2> USE ConcatProperties
    <2> QED
      OBVIOUS
  <1>6. ASSUME NEW i \in 0..(Len(ss) + Len(tt)) PROVE h[i] \in Seq(S)
    <2>1. f[Len(ss)] \in Seq(S)
      BY <1>t
    <2>2. CASE i <= Len(ss)
      <3>1. i \in 0..Len(ss) /\ h[i] = f[i]
        BY <1>4, <2>2
      <3> QED
        BY <3>1, <1>t
    <2>3. CASE i > Len(ss)
      <3>0. i - Len(ss) \in 0..Len(tt)
        BY <1>4, <2>3
      <3>1. g[i - Len(ss)] \in Seq(S)
        BY <1>t, <3>0
      <3>2. f[Len(ss)] \o g[i - Len(ss)] \in Seq(S)
        BY <2>1, <3>1
      <3> QED
        BY <3>2, <2>3, <1>4
    <2> QED
      BY <2>2, <2>3, <1>4
  <1>7. h \in [0..Len(st) -> Seq(S)]
    BY <1>5, <1>6
  <1>8. h[0] = <<>>
    BY <1>1, <1>4
  <1>9. ASSUME NEW i \in 1..Len(st) PROVE h[i] = h[i - 1] \o st[i]
    <2>0. i \in 1..(Len(ss) + Len(tt)) /\ i \in 0..(Len(ss) + Len(tt))
          /\ i - 1 \in 0..(Len(ss) + Len(tt))
      BY <1>4, <1>5
    <2>1. CASE i <= Len(ss)
      <3>1. i \in 1..Len(ss) /\ i - 1 <= Len(ss)
        BY <2>0, <2>1, <1>4
      <3>2. f[i] = f[i - 1] \o ss[i]
        BY <3>1, <1>1
      <3>3. h[i] = f[i] /\ h[i - 1] = f[i - 1] /\ st[i] = ss[i]
        BY <2>0, <2>1, <3>1, <1>5
      <3> QED
        BY <3>2, <3>3
    <2>2. CASE i > Len(ss)
      <3> DEFINE j == i - Len(ss)
      <3>1. j \in 1..Len(tt) /\ j - 1 \in 0..Len(tt) /\ j - 1 = (i - 1) - Len(ss)
            /\ ~(i <= Len(ss))
        BY <2>0, <2>2, <1>4
      <3>2. g[j] = g[j - 1] \o tt[j]
        BY <3>1, <1>2
      <3>3. h[i] = f[Len(ss)] \o g[j] /\ st[i] = tt[j]
        BY <2>0, <3>1, <1>5
      <3>4. h[i - 1] = f[Len(ss)] \o g[j - 1]
        <4>1. CASE i - 1 <= Len(ss)
          <5>1. j - 1 = 0 /\ i - 1 = Len(ss)
            BY <4>1, <3>1, <1>4, <2>0
          <5>2. f[Len(ss)] \o <<>> = f[Len(ss)]
            BY <1>4
          <5> QED
            BY <5>1, <5>2, <1>2, <2>0, <4>1
        <4>2. CASE ~(i - 1 <= Len(ss))
          BY <4>2, <2>0, <3>1
        <4> QED
          BY <4>1, <4>2
      <3>5. f[Len(ss)] \in Seq(S) /\ g[j - 1] \in Seq(S) /\ tt[j] \in Seq(S)
        <4> HIDE DEF j
        <4> QED
          BY <3>1, <1>t
      <3>6. f[Len(ss)] \o (g[j - 1] \o tt[j]) = (f[Len(ss)] \o g[j - 1]) \o tt[j]
        <4> HIDE DEF j, h, st
        <4>1. PICK a \in Seq(S), b \in Seq(S), c \in Seq(S) :
                a = f[Len(ss)] /\ b = g[j - 1] /\ c = tt[j]
          BY <3>5, Zenon
        <4>2. (a \o b) \o c = a \o (b \o c)
          BY ONLY SMTT(60)
        <4> QED
          BY <4>1, <4>2, Zenon
      <3> QED
        BY <3>2, <3>3, <3>4, <3>6
    <2>3. i <= Len(ss) \/ i > Len(ss)
      BY <2>0, <1>4
    <2> HIDE DEF h, st
    <2> QED
      BY <2>1, <2>2, <2>3
  <1>10. FlattenSeq(st) = h[Len(st)]
    <2> HIDE DEF st, h
    <2> QED
      BY <1>5, <1>7, <1>8, <1>9, Flattened
  <1>11. h[Len(st)] = f[Len(ss)] \o g[Len(tt)]
    <2>1. CASE Len(tt) = 0
      <3>1. f[Len(ss)] \o <<>> = f[Len(ss)]
        BY <1>4
      <3> QED
        BY <1>4, <1>5, <2>1, <1>2, <3>1
    <2>2. CASE Len(tt) # 0
      BY <1>4, <1>5, <2>2
    <2> QED
      BY <2>1, <2>2
  <1> QED
    BY ONLY <1>3, <1>t, <1>10, <1>11

\* One chunk holds itself.
LEMMA FlattenOne ==
  ASSUME NEW S, NEW s \in Seq(S)
  PROVE  FlattenSeq(<<s>>) = s
  <1> DEFINE ss == <<s>>
             f == [i \in 0..1 |-> IF i = 0 THEN <<>> ELSE s]
  <1>1. ss \in Seq(Seq(S)) /\ Len(ss) = 1 /\ ss[1] = s
    OBVIOUS
  <1>2. f \in [0..1 -> Seq(S)] /\ f[0] = <<>> /\ f[1] = s
    OBVIOUS
  <1>3. <<>> \o s = s
    OBVIOUS
  <1>4. \A i \in 1..1 : f[i] = f[i - 1] \o ss[i]
    <2> HIDE DEF f, ss
    <2>1. 1 - 1 = 0
      OBVIOUS
    <2>2. f[1] = f[0] \o ss[1]
      BY <1>1, <1>2, <1>3
    <2>3. \A i \in 1..1 : i = 1
      OBVIOUS
    <2> QED
      BY <2>1, <2>2, <2>3
  <1>5. FlattenSeq(ss) = f[Len(ss)]
    <2> HIDE DEF f, ss
    <2> QED
      BY <1>1, <1>2, <1>4, Flattened
  <1> QED
    BY <1>1, <1>2, <1>5

\* No chunk holds nothing.
LEMMA FlattenEmpty == FlattenSeq(<<>>) = <<>>
  BY DEF FlattenSeq

\* One more chunk at the end.
LEMMA FlattenAppend ==
  ASSUME NEW S, NEW ss \in Seq(Seq(S)), NEW s \in Seq(S)
  PROVE  FlattenSeq(Append(ss, s)) = FlattenSeq(ss) \o s
  <1>1. Append(ss, s) = ss \o <<s>> /\ <<s>> \in Seq(Seq(S))
    BY AppendIsConcat
  <1>2. FlattenSeq(ss \o <<s>>) = FlattenSeq(ss) \o FlattenSeq(<<s>>)
    BY <1>1, FlattenConcat
  <1>3. FlattenSeq(<<s>>) = s
    BY FlattenOne
  <1> QED
    BY ONLY <1>1, <1>2, <1>3

\* The first chunk and the others.
LEMMA FlattenHead ==
  ASSUME NEW S, NEW ss \in Seq(Seq(S)), ss # <<>>
  PROVE  FlattenSeq(ss) = Head(ss) \o FlattenSeq(Tail(ss))
  <1>1. Head(ss) \in Seq(S) /\ Tail(ss) \in Seq(Seq(S)) /\ <<Head(ss)>> \in Seq(Seq(S))
    OBVIOUS
  <1>2. ss = <<Head(ss)>> \o Tail(ss)
    <2>1. Len(<<Head(ss)>> \o Tail(ss)) = Len(ss)
      BY <1>1
    <2>2. ASSUME NEW i \in 1..Len(ss) PROVE (<<Head(ss)>> \o Tail(ss))[i] = ss[i]
      BY <1>1
    <2>3. <<Head(ss)>> \o Tail(ss) \in Seq(Seq(S))
      BY <1>1
    <2> QED
      BY <2>1, <2>2, <2>3, SeqEqual
  <1>3. FlattenSeq(<<Head(ss)>> \o Tail(ss)) = FlattenSeq(<<Head(ss)>>) \o FlattenSeq(Tail(ss))
    BY <1>1, FlattenConcat
  <1> QED
    BY <1>1, <1>2, <1>3, FlattenOne

-----------------------------------------------------------------------------
(* Sequences of bytes.                                                     *)

\* Headers, bytes of the shell and parts of the notice, as AttachClient has them.
Bytes == Seq(Int)
\* The values of a ChunkQueue.
Queues == [chunks : Seq(Bytes), offset : Nat, size : Nat]

\* The two parts that a cut after n bytes makes.
LEMMA Rest ==
  ASSUME NEW s \in Bytes, NEW n \in 0..Len(s)
  PROVE  /\ SubSeq(s, n + 1, Len(s)) \in Bytes
         /\ Len(SubSeq(s, n + 1, Len(s))) = Len(s) - n
         /\ \A i \in 1..(Len(s) - n) : SubSeq(s, n + 1, Len(s))[i] = s[n + i]
         /\ SubSeq(s, 1, n) \in Bytes
         /\ Len(SubSeq(s, 1, n)) = n
         /\ \A i \in 1..n : SubSeq(s, 1, n)[i] = s[i]
  BY DEF Bytes

\* The bytes of a concatenation are those of its parts.
LEMMA Concat ==
  ASSUME NEW s \in Bytes, NEW t \in Bytes
  PROVE  /\ s \o t \in Bytes
         /\ Len(s \o t) = Len(s) + Len(t)
         /\ \A i \in 1..Len(s) : (s \o t)[i] = s[i]
         /\ \A i \in 1..Len(t) : (s \o t)[Len(s) + i] = t[i]
  BY DEF Bytes

\* A sequence of bytes has a length, and only the empty one has length 0.
LEMMA Lengths == \A s \in Bytes : Len(s) \in Nat /\ (Len(s) = 0 <=> s = <<>>)
  BY DEF Bytes

\* Sequences with the same bytes are equal.
LEMMA Same ==
  ASSUME NEW s \in Bytes, NEW t \in Bytes, Len(s) = Len(t),
         \A i \in 1..Len(s) : s[i] = t[i]
  PROVE  s = t
  BY DEF Bytes

\* Two parts make the whole.
LEMMA Split ==
  ASSUME NEW s \in Bytes, NEW n \in 0..Len(s)
  PROVE  s = SubSeq(s, 1, n) \o SubSeq(s, n + 1, Len(s))
  <1> DEFINE a == SubSeq(s, 1, n)
             b == SubSeq(s, n + 1, Len(s))
  <1>1. /\ a \in Bytes /\ Len(a) = n /\ \A i \in 1..n : a[i] = s[i]
        /\ b \in Bytes /\ Len(b) = Len(s) - n /\ \A i \in 1..(Len(s) - n) : b[i] = s[n + i]
    BY Rest
  <1> HIDE DEF a, b
  <1>2. /\ a \o b \in Bytes /\ Len(a \o b) = Len(a) + Len(b)
        /\ \A i \in 1..Len(a) : (a \o b)[i] = a[i]
        /\ \A i \in 1..Len(b) : (a \o b)[Len(a) + i] = b[i]
    BY <1>1, Concat
  <1>3. ASSUME NEW i \in 1..Len(s) PROVE s[i] = (a \o b)[i]
    <2>1. CASE i <= n
      BY <1>1, <1>2, <2>1, Lengths
    <2>2. CASE i > n
      <3> DEFINE j == i - n
      <3>1. j \in 1..(Len(s) - n) /\ i = n + j
        BY <2>2, Lengths
      <3> HIDE DEF j
      <3>2. b[j] = s[n + j] /\ (a \o b)[Len(a) + j] = b[j]
        BY <1>1, <1>2, <3>1
      <3> QED
        BY <1>1, <3>1, <3>2
    <2>3. i <= n \/ i > n
      OBVIOUS
    <2> QED
      BY <2>1, <2>2, <2>3
  <1>4. Len(s) = Len(a \o b)
    BY <1>1, <1>2, Lengths
  <1>5. s = a \o b
    BY ONLY <1>2, <1>3, <1>4, Same
  <1> QED
    BY <1>5 DEF a, b

\* A cut in the first of two parts leaves the second whole.
LEMMA RestOfConcat ==
  ASSUME NEW s \in Bytes, NEW t \in Bytes, NEW n \in 0..Len(s)
  PROVE  SubSeq(s \o t, n + 1, Len(s \o t)) = SubSeq(s, n + 1, Len(s)) \o t
  <1> DEFINE st == s \o t
             r == SubSeq(s, n + 1, Len(s))
             x == SubSeq(st, n + 1, Len(st))
  <1>0. Len(s) \in Nat /\ Len(t) \in Nat
    BY Lengths
  <1>1. /\ st \in Bytes /\ Len(st) = Len(s) + Len(t)
        /\ \A i \in 1..Len(s) : st[i] = s[i]
        /\ \A i \in 1..Len(t) : st[Len(s) + i] = t[i]
    BY Concat
  <1>2. /\ r \in Bytes /\ Len(r) = Len(s) - n /\ \A i \in 1..(Len(s) - n) : r[i] = s[n + i]
    BY Rest
  <1> HIDE DEF st, r
  <1>3. /\ x \in Bytes /\ Len(x) = Len(st) - n /\ \A i \in 1..(Len(st) - n) : x[i] = st[n + i]
    <2>1. n \in 0..Len(st)
      BY <1>0, <1>1
    <2> QED
      BY <1>1, <2>1, Rest
  <1>4. /\ r \o t \in Bytes /\ Len(r \o t) = Len(r) + Len(t)
        /\ \A i \in 1..Len(r) : (r \o t)[i] = r[i]
        /\ \A i \in 1..Len(t) : (r \o t)[Len(r) + i] = t[i]
    BY <1>2, Concat
  <1> HIDE DEF x
  <1>5. ASSUME NEW i \in 1..Len(x) PROVE x[i] = (r \o t)[i]
    <2>1. CASE i <= Len(s) - n
      BY <1>0, <1>1, <1>2, <1>3, <1>4, <2>1
    <2>2. CASE i > Len(s) - n
      <3> DEFINE j == i - (Len(s) - n)
      <3>1. j \in 1..Len(t) /\ n + i = Len(s) + j /\ i = Len(r) + j /\ i \in 1..(Len(st) - n)
        BY <1>0, <1>1, <1>2, <1>3, <2>2
      <3> HIDE DEF j
      <3>2. x[i] = st[Len(s) + j]
        BY <1>3, <3>1
      <3>3. (r \o t)[Len(r) + j] = t[j] /\ st[Len(s) + j] = t[j]
        BY <1>1, <1>4, <3>1
      <3> QED
        BY <3>1, <3>2, <3>3
    <2>3. i <= Len(s) - n \/ i > Len(s) - n
      BY <1>0
    <2> QED
      BY <2>1, <2>2, <2>3
  <1>6. Len(x) = Len(r \o t)
    BY <1>0, <1>1, <1>2, <1>3, <1>4
  <1>7. x = r \o t
    BY ONLY <1>3, <1>4, <1>5, <1>6, Same
  <1> QED
    BY <1>7 DEF x, r, st

\* Concatenation.
Cat(s, t) == s \o t

\* The same law in a form that does not call for its own instances.
LEMMA CatAssoc ==
  \A a, b, c \in Bytes : Cat(a, b) \in Bytes /\ Cat(Cat(a, b), c) = Cat(a, Cat(b, c))
  BY SMT DEF Bytes, Cat

\* A short write moves the middle of four parts over.
LEMMA Regroup ==
  \A a, b, c, d \in Bytes : Cat(Cat(a, Cat(b, c)), d) = Cat(Cat(a, b), Cat(c, d))
  BY CatAssoc

-----------------------------------------------------------------------------
(* ChunkQueue.                                                             *)

\* The empty queue is well formed.
LEMMA EmptyQueueFine ==
  ASSUME NEW limit \in Nat
  PROVE  EmptyQueue \in Queues /\ QueueWellFormed(EmptyQueue, limit)
         /\ Content(EmptyQueue) = <<>>
  <1>1. EmptyQueue \in Queues
    BY DEF EmptyQueue, Queues
  <1>2. Content(EmptyQueue) = <<>>
    BY FlattenEmpty DEF EmptyQueue, Content
  <1>3. Range(<<>>) = {}
    BY DEF Range
  <1> QED
    BY <1>1, <1>2, <1>3 DEF QueueWellFormed, EmptyQueue

\* Of a well-formed queue, Peek is a part of the content that is not empty
\* while there is any; the rest is in the other chunks.
LEMMA ContentIs ==
  ASSUME NEW q \in Queues, NEW limit \in Nat, QueueWellFormed(q, limit)
  PROVE  /\ Content(q) \in Bytes
         /\ Len(Content(q)) = q.size
         /\ q.size \in 0..limit
         /\ q.chunks = <<>> => Content(q) = <<>> /\ q.size = 0
         /\ q.chunks # <<>> =>
              /\ Peek(q) \in Bytes
              /\ Len(Peek(q)) \in 1..q.size
              /\ Len(Peek(q)) = Len(Head(q.chunks)) - q.offset
              /\ FlattenSeq(Tail(q.chunks)) \in Bytes
              /\ Content(q) = Peek(q) \o FlattenSeq(Tail(q.chunks))
  <1>1. /\ q.chunks \in Seq(Bytes) /\ q.offset \in Nat /\ q.size \in Nat
        /\ q.size = Len(Content(q)) /\ q.size <= limit
    BY DEF Queues, QueueWellFormed
  <1>2. CASE q.chunks = <<>>
    <2>1. Content(q) = <<>>
      BY <1>2, FlattenEmpty DEF QueueWellFormed, Content
    <2> QED
      BY <1>1, <1>2, <2>1 DEF Bytes
  <1>3. CASE q.chunks # <<>>
    <2> DEFINE h == Head(q.chunks)
               t == FlattenSeq(Tail(q.chunks))
    <2>1. h \in Bytes /\ Tail(q.chunks) \in Seq(Bytes)
      BY <1>1, <1>3
    <2>2. t \in Bytes /\ FlattenSeq(q.chunks) = h \o t
      BY <1>1, <1>3, <2>1, FlattenConcat, FlattenHead DEF Bytes
    <2>3. q.offset < Len(h)
      BY <1>3 DEF QueueWellFormed
    <2>4. q.offset \in 0..Len(h) /\ Len(h) \in Nat
      BY <1>1, <2>1, <2>3, Lengths
    <2>5. Peek(q) = SubSeq(h, q.offset + 1, Len(h))
      BY <1>3 DEF Peek
    <2> HIDE DEF h, t
    <2>6. Content(q) = Peek(q) \o t
      BY <2>1, <2>2, <2>4, <2>5, RestOfConcat DEF Content
    <2>7. Peek(q) \in Bytes /\ Len(Peek(q)) = Len(h) - q.offset
      BY <2>1, <2>4, <2>5, Rest
    <2>8. Peek(q) \o t \in Bytes /\ Len(Peek(q) \o t) = Len(Peek(q)) + Len(t)
      BY <2>2, <2>7, Concat
    <2>9. Len(t) \in Nat
      BY <2>2, Lengths
    <2>10. Len(Peek(q)) \in 1..q.size
      BY <1>1, <2>3, <2>4, <2>6, <2>7, <2>8, <2>9
    <2> QED
      BY <1>1, <1>3, <2>2, <2>6, <2>7, <2>8, <2>10 DEF h, t
  <1> QED
    BY <1>2, <1>3

\* ChunkQueue.append: what fits goes behind what is there, and the queue
\* stays well formed.
LEMMA EnqueueEffect ==
  ASSUME NEW q \in Queues, NEW limit \in Nat, QueueWellFormed(q, limit),
         NEW data \in Bytes, Fits(q, data, limit)
  PROVE  /\ Enqueue(q, data) \in Queues
         /\ QueueWellFormed(Enqueue(q, data), limit)
         /\ Content(Enqueue(q, data)) = Content(q) \o data
  <1> DEFINE r == Enqueue(q, data)
             cs == q.chunks
  <1>1. /\ cs \in Seq(Bytes) /\ q.offset \in Nat /\ q.size \in Nat
        /\ q.size = Len(Content(q)) /\ q.size <= limit /\ <<>> \notin Range(cs)
        /\ IF cs = <<>> THEN q.offset = 0 ELSE q.offset < Len(Head(cs))
    BY DEF Queues, QueueWellFormed
  <1>2. Content(q) \in Bytes /\ (cs = <<>> => Content(q) = <<>>)
    BY ContentIs
  <1>3. CASE data = <<>>
    <2>1. Content(q) \o <<>> = Content(q)
      BY <1>2 DEF Bytes
    <2> QED
      BY <1>3, <2>1 DEF Enqueue
  <1>4. CASE data # <<>>
    <2>1. /\ r.chunks = Append(cs, data) /\ r.offset = q.offset
          /\ r.size = q.size + Len(data)
          /\ r = [chunks |-> Append(cs, data), offset |-> q.offset,
                  size |-> q.size + Len(data)]
      BY <1>4 DEF Enqueue, Queues
    <2>2. Len(data) \in Nat /\ Len(data) > 0
      BY <1>4, Lengths
    <2>3. Append(cs, data) \in Seq(Bytes) /\ Append(cs, data) # <<>>
      BY <1>1, AppendProperties
    <2>4. r \in Queues
      BY <1>1, <2>1, <2>2, <2>3 DEF Queues
    <2>5. FlattenSeq(Append(cs, data)) = FlattenSeq(cs) \o data /\ FlattenSeq(cs) \in Bytes
      BY <1>1, FlattenAppend, FlattenConcat DEF Bytes
    <2>6. Content(r) = Content(q) \o data /\ q.offset \in 0..Len(FlattenSeq(cs))
      <3>1. CASE cs = <<>>
        <4>1. FlattenSeq(cs) = <<>> /\ q.offset = 0 /\ Content(q) = <<>>
          BY <1>1, <1>2, <3>1, FlattenEmpty
        <4>2. <<>> \o data = data /\ SubSeq(data, 1, Len(data)) = data
          BY DEF Bytes
        <4>3. Content(r) = data
          BY <2>1, <2>5, <4>1, <4>2 DEF Content
        <4> QED
          BY <4>1, <4>2, <4>3
      <3>2. CASE cs # <<>>
        <4>1. /\ Head(cs) \in Bytes /\ FlattenSeq(Tail(cs)) \in Bytes
              /\ FlattenSeq(cs) = Head(cs) \o FlattenSeq(Tail(cs))
          <5>1. Head(cs) \in Seq(Int) /\ Tail(cs) \in Seq(Seq(Int)) /\ cs \in Seq(Seq(Int))
            BY <1>1, <3>2 DEF Bytes
          <5> HIDE DEF cs
          <5>2. FlattenSeq(Tail(cs)) \in Seq(Int)
            BY <5>1, FlattenConcat
          <5>3. FlattenSeq(cs) = Head(cs) \o FlattenSeq(Tail(cs))
            BY <3>2, <5>1, FlattenHead
          <5> QED
            BY <5>1, <5>2, <5>3 DEF Bytes
        <4>2. Len(FlattenSeq(cs)) = Len(Head(cs)) + Len(FlattenSeq(Tail(cs)))
          BY <4>1, Concat
        <4>3. q.offset \in 0..Len(FlattenSeq(cs))
          <5>1. Len(Head(cs)) \in Nat /\ Len(FlattenSeq(Tail(cs))) \in Nat
            BY <4>1, Lengths
          <5>2. q.offset < Len(Head(cs))
            BY <1>1, <3>2
          <5> QED
            <6>1. q.offset \in Nat
              BY <1>1
            <6> HIDE DEF cs
            <6> QED
              BY ONLY <4>2, <5>1, <5>2, <6>1
        <4>4. Content(r) = SubSeq(FlattenSeq(cs) \o data, q.offset + 1, Len(FlattenSeq(cs) \o data))
          BY <2>1, <2>5 DEF Content
        <4>5. SubSeq(FlattenSeq(cs) \o data, q.offset + 1, Len(FlattenSeq(cs) \o data))
                = SubSeq(FlattenSeq(cs), q.offset + 1, Len(FlattenSeq(cs))) \o data
          <5> HIDE DEF cs
          <5> QED
            BY <2>5, <4>3, RestOfConcat
        <4> QED
          BY <4>3, <4>4, <4>5 DEF Content
      <3> QED
        BY <3>1, <3>2
    <2>7. Len(Content(q) \o data) = q.size + Len(data)
      BY <1>1, <1>2, Concat
    <2>8. <<>> \notin Range(Append(cs, data))
      <3>1. DOMAIN cs = 1..Len(cs) /\ DOMAIN Append(cs, data) = 1..(Len(cs) + 1)
        BY <1>1
      <3>2. \A i \in 1..Len(cs) : cs[i] # <<>>
        BY <1>1, <3>1 DEF Range
      <3>3. \A i \in 1..(Len(cs) + 1) : Append(cs, data)[i] # <<>>
        BY <1>1, <1>4, <3>2
      <3> QED
        BY <3>1, <3>3 DEF Range
    <2>9. r.offset < Len(Head(Append(cs, data)))
      <3>1. CASE cs = <<>>
        BY <1>1, <2>1, <2>2, <3>1
      <3>2. CASE cs # <<>>
        <4>1. Head(Append(cs, data)) = Head(cs)
          BY <1>1, <3>2
        <4> QED
          BY <1>1, <2>1, <3>2, <4>1
      <3> QED
        BY <3>1, <3>2
    <2>10. q.size + Len(data) <= limit
      BY DEF Fits
    <2>11. QueueWellFormed(r, limit)
      <3> HIDE DEF r
      <3> QED
        BY <2>1, <2>3, <2>6, <2>7, <2>8, <2>9, <2>10 DEF QueueWellFormed
    <2> QED
      BY <2>4, <2>6, <2>11
  <1> QED
    BY <1>3, <1>4

\* ChunkQueue.consume: what was written is gone from the front, nothing else.
LEMMA ConsumeEffect ==
  ASSUME NEW q \in Queues, NEW limit \in Nat, QueueWellFormed(q, limit),
         NEW n \in Nat \ {0}, n <= Len(Peek(q))
  PROVE  /\ Consume(q, n) \in Queues
         /\ QueueWellFormed(Consume(q, n), limit)
         /\ SubSeq(Peek(q), 1, n) \in Bytes
         /\ Len(SubSeq(Peek(q), 1, n)) = n
         /\ Content(q) = SubSeq(Peek(q), 1, n) \o Content(Consume(q, n))
  <1> DEFINE r == Consume(q, n)
             cs == q.chunks
             p == Peek(q)
             t == FlattenSeq(Tail(cs))
  <1>1. /\ cs \in Seq(Bytes) /\ q.offset \in Nat /\ q.size \in Nat
        /\ q.size = Len(Content(q)) /\ q.size <= limit /\ <<>> \notin Range(cs)
    BY DEF Queues, QueueWellFormed
  <1>2. cs # <<>>
    BY DEF Peek
  <1>3. /\ p \in Bytes /\ Len(p) \in 1..q.size /\ t \in Bytes /\ Content(q) = p \o t
        /\ Len(p) = Len(Head(cs)) - q.offset
    BY <1>2, ContentIs
  <1>4. /\ Head(cs) \in Bytes /\ Tail(cs) \in Seq(Bytes)
        /\ FlattenSeq(cs) = Head(cs) \o t /\ p = SubSeq(Head(cs), q.offset + 1, Len(Head(cs)))
    <2>1. p = SubSeq(Head(cs), q.offset + 1, Len(Head(cs)))
      BY <1>2 DEF Peek
    <2>2. Head(cs) \in Bytes /\ Tail(cs) \in Seq(Bytes)
      BY <1>1, <1>2
    <2> HIDE DEF cs, p
    <2>3. FlattenSeq(cs) = Head(cs) \o t
      BY <1>1, <1>2, FlattenHead DEF Bytes
    <2> QED
      BY <2>1, <2>2, <2>3
  <1>5. Len(Content(q)) = Len(p) + Len(t) /\ Len(t) \in Nat
    <2> HIDE DEF p, t, cs
    <2>1. Len(p \o t) = Len(p) + Len(t)
      BY <1>3, Concat
    <2> QED
      BY <1>3, <2>1, Lengths
  <1>n. q.size = Len(p) + Len(t) /\ Len(t) \in Nat /\ Len(p) \in 1..q.size
        /\ q.size \in Nat /\ q.size <= limit
    BY ONLY <1>1, <1>3, <1>5
  <1>6. n \in 0..Len(p)
    BY <1>3
  <1>7. SubSeq(p, 1, n) \in Bytes /\ Len(SubSeq(p, 1, n)) = n
    BY <1>3, <1>6, Rest
  <1> HIDE DEF p, t, cs
  <1>8. CASE n = Len(p)
    <2>1. r = [chunks |-> Tail(cs), offset |-> 0, size |-> q.size - n]
      BY <1>8 DEF Consume, p, cs
    <2>2. r \in Queues
      <3>1. q.size - n \in Nat
        BY ONLY <1>1, <1>3, <1>8
      <3> HIDE DEF r
      <3> QED
        BY <1>4, <2>1, <3>1 DEF Queues
    <2>3. Content(r) = t
      <3>1. SubSeq(t, 0 + 1, Len(t)) = t
        BY <1>3 DEF Bytes
      <3> QED
        BY <2>1, <3>1 DEF Content, t
    <2>4. SubSeq(p, 1, n) = p
      BY <1>3, <1>8 DEF Bytes
    <2>5. Len(t) = q.size - n /\ q.size - n <= limit
      BY ONLY <1>n, <1>8, limit \in Nat, n \in Nat \ {0}
    <2>6. <<>> \notin Range(Tail(cs))
      <3>1. DOMAIN cs = 1..Len(cs) /\ DOMAIN Tail(cs) = 1..(Len(cs) - 1)
        BY <1>1, <1>2 DEF cs
      <3>2. \A i \in 1..Len(cs) : cs[i] # <<>>
        BY <1>1, <3>1 DEF Range
      <3>3. \A i \in 1..(Len(cs) - 1) : Tail(cs)[i] = cs[i + 1] /\ i + 1 \in 1..Len(cs)
        BY <1>1, <1>2 DEF cs
      <3> QED
        BY <3>1, <3>2, <3>3 DEF Range
    <2>7. IF Tail(cs) = <<>> THEN TRUE ELSE 0 < Len(Head(Tail(cs)))
      <3> SUFFICES ASSUME Tail(cs) # <<>> PROVE 0 < Len(Head(Tail(cs)))
        OBVIOUS
      <3>0. 1 \in DOMAIN Tail(cs) /\ Head(Tail(cs)) = Tail(cs)[1]
        BY <1>4
      <3>1. Head(Tail(cs)) \in Bytes /\ Head(Tail(cs)) \in Range(Tail(cs))
        <4> DEFINE tl == Tail(cs)
        <4>1. tl \in Seq(Bytes) /\ 1 \in DOMAIN tl /\ Head(tl) = tl[1]
          BY <1>4, <3>0
        <4> HIDE DEF tl
        <4>2. tl[1] \in Bytes
          BY <4>1
        <4>3. tl[1] \in Range(tl)
          BY <4>1 DEF Range
        <4> QED
          BY <4>1, <4>2, <4>3 DEF tl
      <3> QED
        BY <2>6, <3>1, Lengths
    <2>8. QueueWellFormed(r, limit)
      <3> HIDE DEF r
      <3> QED
        BY <2>1, <2>3, <2>5, <2>6, <2>7 DEF QueueWellFormed
    <2> QED
      BY <1>3, <1>7, <2>2, <2>3, <2>4, <2>8 DEF p
  <1>9. CASE n # Len(p)
    <2>0. n < Len(p) /\ Len(p) \in Nat
      BY <1>3, <1>6, <1>9
    <2>1. r = [chunks |-> cs, offset |-> q.offset + n, size |-> q.size - n]
      BY <1>9 DEF Consume, p, cs, Queues
    <2>2. r \in Queues
      BY <1>1, <1>3, <2>0, <2>1 DEF Queues
    <2> DEFINE h == Head(cs)
               b == SubSeq(p, n + 1, Len(p))
    <2>3. Len(h) \in Nat /\ q.offset \in 0..Len(h) /\ q.offset + n \in 0..Len(h) /\ q.offset + n < Len(h)
      <3>1. Len(h) \in Nat /\ Len(p) = Len(h) - q.offset
        BY <1>3, <1>4, Lengths
      <3> HIDE DEF h
      <3> QED
        BY ONLY <1>1, <2>0, <3>1, n \in Nat \ {0}
    <2>4. SubSeq(h, (q.offset + n) + 1, Len(h)) = b
      <3>1. /\ SubSeq(h, (q.offset + n) + 1, Len(h)) \in Bytes
            /\ Len(SubSeq(h, (q.offset + n) + 1, Len(h))) = Len(h) - (q.offset + n)
            /\ \A i \in 1..(Len(h) - (q.offset + n)) :
                 SubSeq(h, (q.offset + n) + 1, Len(h))[i] = h[(q.offset + n) + i]
        BY <1>4, <2>3, Rest
      <3>2. b \in Bytes /\ Len(b) = Len(p) - n /\ \A i \in 1..(Len(p) - n) : b[i] = p[n + i]
        BY <1>3, <1>6, Rest
      <3>3. \A i \in 1..(Len(h) - q.offset) : p[i] = h[q.offset + i]
        BY <1>4, <2>3, Rest
      <3> HIDE DEF h, b
      <3>4. ASSUME NEW i \in 1..(Len(p) - n) PROVE h[(q.offset + n) + i] = b[i]
        <4>1. n + i \in 1..(Len(h) - q.offset) /\ q.offset + (n + i) = (q.offset + n) + i
          <5>1. Len(p) = Len(h) - q.offset /\ q.offset \in Nat
            BY <1>1, <1>3 DEF h
          <5> QED
            BY ONLY <2>0, <2>3, <5>1, n \in Nat \ {0}, i \in 1..(Len(p) - n)
        <4> QED
          BY <3>2, <3>3, <4>1
      <3>5. Len(h) - (q.offset + n) = Len(p) - n
        BY <1>1, <1>3, <2>0, <2>3 DEF h
      <3> QED
        BY <3>1, <3>2, <3>4, <3>5, Same
    <2>5. Content(r) = b \o t
      <3>1. Content(r) = SubSeq(h \o t, (q.offset + n) + 1, Len(h \o t))
        <4> HIDE DEF r, b
        <4>1. r.chunks = cs /\ r.offset = q.offset + n
          BY <2>1
        <4> QED
          BY <1>4, <4>1 DEF Content
      <3>2. h \in Bytes
        BY <1>4
      <3> HIDE DEF h, r, b
      <3>3. SubSeq(h \o t, (q.offset + n) + 1, Len(h \o t))
              = SubSeq(h, (q.offset + n) + 1, Len(h)) \o t
        BY <1>3, <2>3, <3>2, RestOfConcat
      <3> QED
        BY <2>4, <3>1, <3>3
    <2>6. b \in Bytes /\ Len(b) = Len(p) - n /\ p = SubSeq(p, 1, n) \o b
      BY <1>3, <1>6, Rest, Split
    <2>7. (SubSeq(p, 1, n) \o b) \o t = SubSeq(p, 1, n) \o (b \o t)
      <3> HIDE DEF b
      <3> QED
        <4> DEFINE a == SubSeq(p, 1, n)
        <4>1. a \in Seq(Int) /\ b \in Seq(Int) /\ t \in Seq(Int)
          BY <1>3, <1>7, <2>6 DEF Bytes
        <4> HIDE DEF a
        <4>2. (a \o b) \o t = a \o (b \o t)
          BY ONLY <4>1, Assoc
        <4> QED
          BY <4>2 DEF a
    <2>8. Content(q) = SubSeq(p, 1, n) \o Content(r)
      <3> HIDE DEF b, r
      <3> QED
        BY <1>3, <2>5, <2>6, <2>7
    <2>9. Len(b \o t) = q.size - n /\ q.size - n <= limit
      <3>1. Len(b \o t) = Len(b) + Len(t)
        BY <1>3, <2>6, Concat
      <3> QED
        <4>1. Len(b) = Len(p) - n
          BY <2>6
        <4> QED
          BY ONLY <1>n, <2>0, <4>1, <3>1, limit \in Nat, n \in Nat \ {0}
    <2>10. QueueWellFormed(r, limit)
      <3> HIDE DEF r, b
      <3> QED
        BY <1>1, <1>2, <2>1, <2>3, <2>5, <2>9 DEF QueueWellFormed
    <2> QED
      BY <1>7, <2>2, <2>8, <2>10 DEF p
  <1> QED
    BY <1>8, <1>9 DEF p

-----------------------------------------------------------------------------
(* ReplayBuffer.                                                           *)

\* A cut beyond the first of two parts.
LEMMA RestBeyond ==
  ASSUME NEW s \in Bytes, NEW t \in Bytes, NEW n \in 0..Len(t)
  PROVE  SubSeq(s \o t, Len(s) + n + 1, Len(s \o t)) = SubSeq(t, n + 1, Len(t))
  <1> DEFINE st == s \o t
             m == Len(s) + n
             x == SubSeq(st, m + 1, Len(st))
             y == SubSeq(t, n + 1, Len(t))
  <1>0. Len(s) \in Nat /\ Len(t) \in Nat
    BY Lengths
  <1>1. /\ st \in Bytes /\ Len(st) = Len(s) + Len(t)
        /\ \A i \in 1..Len(t) : st[Len(s) + i] = t[i]
    BY Concat
  <1>2. /\ y \in Bytes /\ Len(y) = Len(t) - n /\ \A i \in 1..(Len(t) - n) : y[i] = t[n + i]
    BY Rest
  <1>3. m \in 0..Len(st) /\ Len(st) - m = Len(t) - n
    BY <1>0, <1>1
  <1> HIDE DEF st, y
  <1>4. /\ x \in Bytes /\ Len(x) = Len(st) - m /\ \A i \in 1..(Len(st) - m) : x[i] = st[m + i]
    <2> HIDE DEF m
    <2> QED
      BY <1>1, <1>3, Rest
  <1> HIDE DEF x
  <1>5. ASSUME NEW i \in 1..(Len(t) - n) PROVE x[i] = y[i]
    <2>1. n + i \in 1..Len(t) /\ m + i = Len(s) + (n + i)
      BY <1>0
    <2> HIDE DEF m
    <2>2. x[i] = st[m + i] /\ st[Len(s) + (n + i)] = t[n + i]
      BY <1>1, <1>3, <1>4, <2>1
    <2> QED
      BY <1>2, <2>1, <2>2
  <1>6. x = y
    <2> HIDE DEF m
    <2> QED
      BY <1>2, <1>3, <1>4, <1>5, Same
  <1> QED
    BY <1>6 DEF x, y, st, m

\* A cut between two chunks.
LEMMA SplitChunks ==
  ASSUME NEW S, NEW ss \in Seq(S), NEW k \in 0..Len(ss)
  PROVE  /\ SubSeq(ss, 1, k) \in Seq(S) /\ SubSeq(ss, k + 1, Len(ss)) \in Seq(S)
         /\ SubSeq(ss, 1, k) \o SubSeq(ss, k + 1, Len(ss)) = ss
         /\ Len(SubSeq(ss, k + 1, Len(ss))) = Len(ss) - k
  <1>1. 1 \in 1..(Len(ss) + 1) /\ k \in (1 - 1)..Len(ss) /\ Len(ss) \in k..Len(ss)
    OBVIOUS
  <1>2. SubSeq(ss, 1, k) \o SubSeq(ss, k + 1, Len(ss)) = SubSeq(ss, 1, Len(ss))
    BY <1>1, ConcatAdjacentSubSeq
  <1>3. SubSeq(ss, 1, Len(ss)) = ss
    BY SubSeqFull
  <1>4. SubSeq(ss, 1, k) \in Seq(S) /\ SubSeq(ss, k + 1, Len(ss)) \in Seq(S)
        /\ Len(SubSeq(ss, k + 1, Len(ss))) = Len(ss) - k
    OBVIOUS
  <1> QED
    BY <1>2, <1>3, <1>4

\* A set of numbers has a least one.
LEMMA NatMin ==
  ASSUME NEW S \in SUBSET Nat, S # {}
  PROVE  \E x \in S : \A y \in S : x <= y
  <1> DEFINE R == {ss \in Nat \X Nat : ss[1] < ss[2]}
  <1>1. IsWellFoundedOn(R, Nat)
    BY NatLessThanWellFounded DEF OpToRel
  <1>2. PICK x \in S : \A y \in S : <<y, x>> \notin R
    <2> HIDE DEF R
    <2> QED
      BY <1>1, WFMin
  <1>3. ASSUME NEW y \in S PROVE x <= y
    <2>1. <<y, x>> \notin R
      BY <1>2
    <2> QED
      BY <2>1
  <1> QED
    BY <1>3

\* The trimming loop of ReplayBuffer.append drops exactly the overflow from
\* the front, wherever the chunk boundaries are.
THEOREM TrimEffect ==
  ASSUME NEW ss \in Seq(Bytes), NEW overflow \in 0..Len(FlattenSeq(ss))
  PROVE  /\ Trim(ss, overflow) \in Seq(Bytes)
         /\ FlattenSeq(Trim(ss, overflow)) =
              SubSeq(FlattenSeq(ss), overflow + 1, Len(FlattenSeq(ss)))
  <1> DEFINE dropped(k) == Len(FlattenSeq(SubSeq(ss, 1, k)))
             Is(k) == /\ dropped(k) <= overflow
                      /\ \A j \in 0..Len(ss) : dropped(j) <= overflow => j <= k
             whole == CHOOSE k \in 0..Len(ss) : Is(k)
             first == SubSeq(ss, 1, whole)
             rest == SubSeq(ss, whole + 1, Len(ss))
             cut == overflow - dropped(whole)
             fs == FlattenSeq(ss)
             A == FlattenSeq(first)
             B == FlattenSeq(rest)
  <1>0. Len(ss) \in Nat /\ overflow \in Nat
    OBVIOUS
  <1>1. \A ts \in Seq(Bytes) : FlattenSeq(ts) \in Bytes /\ Len(FlattenSeq(ts)) \in Nat
    BY FlattenConcat, Lengths DEF Bytes
  <1>2. \A k \in 0..Len(ss) : SubSeq(ss, 1, k) \in Seq(Bytes) /\ dropped(k) \in Nat
    BY <1>1, SplitChunks
  <1>3. \E k \in 0..Len(ss) : Is(k)
    <2> DEFINE M == {m \in 0..Len(ss) : dropped(Len(ss) - m) <= overflow}
    <2>1. Len(ss) \in M
      <3>1. SubSeq(ss, 1, 0) = <<>>
        OBVIOUS
      <3>2. dropped(0) = 0
        <4>1. dropped(0) = Len(FlattenSeq(<<>>))
          BY <3>1
        <4> QED
          BY ONLY <4>1, FlattenEmpty
      <3> QED
        BY <1>0, <3>2
    <2>2. PICK m \in M : \A n \in M : m <= n
      <3>1. M \in SUBSET Nat /\ M # {}
        BY <2>1
      <3> HIDE DEF M
      <3> QED
        BY <3>1, NatMin
    <2> DEFINE k == Len(ss) - m
    <2>3. k \in 0..Len(ss) /\ dropped(k) <= overflow
      BY <1>0
    <2>4. ASSUME NEW j \in 0..Len(ss), dropped(j) <= overflow PROVE j <= k
      <3>1. Len(ss) - j \in 0..Len(ss) /\ Len(ss) - (Len(ss) - j) = j
        BY <1>0
      <3>2. Len(ss) - j \in M
        BY <2>4, <3>1
      <3>3. m <= Len(ss) - j
        BY <2>2, <3>2
      <3> QED
        BY <1>0, <3>3
    <2> HIDE DEF dropped, k, M
    <2> QED
      BY <2>3, <2>4
  <1>4. whole \in 0..Len(ss) /\ Is(whole)
    <2> HIDE DEF Is
    <2> QED
      BY <1>3
  <1>5. Trim(ss, overflow) = IF rest = <<>> \/ cut = 0 THEN rest
                             ELSE <<SubSeq(Head(rest), cut + 1, Len(Head(rest)))>> \o Tail(rest)
    BY DEF Trim
  <1> HIDE DEF whole
  <1>6. first \in Seq(Bytes) /\ rest \in Seq(Bytes) /\ first \o rest = ss
        /\ Len(rest) = Len(ss) - whole
    BY <1>4, SplitChunks
  <1>7. fs = A \o B /\ A \in Bytes /\ B \in Bytes
    <2> HIDE DEF first, rest
    <2> QED
      BY <1>6, FlattenConcat DEF Bytes
  <1>8. Len(fs) = Len(A) + Len(B) /\ Len(A) \in Nat /\ Len(B) \in Nat /\ fs \in Bytes
        /\ Len(A) = dropped(whole)
    <2> HIDE DEF A, B, fs, dropped
    <2>1. Len(A) = dropped(whole)
      BY DEF A, dropped, first
    <2> QED
      BY <1>7, <2>1, Concat, Lengths
  <1>9. cut \in 0..Len(B) /\ overflow = Len(A) + cut
    <2>1. overflow \in 0..Len(fs)
      OBVIOUS
    <2>2. dropped(whole) <= overflow
      BY <1>4
    <2> HIDE DEF A, B, fs, dropped
    <2> QED
      BY <1>8, <2>1, <2>2
  <1>10. SubSeq(fs, overflow + 1, Len(fs)) = SubSeq(B, cut + 1, Len(B))
    <2> HIDE DEF A, B, fs, cut
    <2> QED
      BY <1>7, <1>9, RestBeyond
  <1>11. CASE rest = <<>> \/ cut = 0
    <2>1. Trim(ss, overflow) = rest
      BY <1>5, <1>11
    <2>2. cut = 0
      <3>1. rest = <<>> => B = <<>>
        BY FlattenEmpty
      <3> HIDE DEF A, B, cut, rest
      <3> QED
        BY <1>9, <1>11, <3>1
    <2>3. SubSeq(B, 0 + 1, Len(B)) = B
      <3> HIDE DEF B
      <3> QED
        BY <1>7 DEF Bytes
    <2> HIDE DEF cut
    <2> QED
      BY <1>6, <1>10, <2>1, <2>2, <2>3
  <1>12. CASE rest # <<>> /\ cut # 0
    <2> DEFINE h == Head(rest)
               t == Tail(rest)
               c == SubSeq(h, cut + 1, Len(h))
    <2>1. Trim(ss, overflow) = <<c>> \o t
      BY <1>5, <1>12
    <2> HIDE DEF first, rest, cut
    <2>2. h \in Bytes /\ t \in Seq(Bytes) /\ B = h \o FlattenSeq(t) /\ FlattenSeq(t) \in Bytes
      <3>1. h \in Bytes /\ t \in Seq(Bytes)
        BY <1>6, <1>12
      <3>2. FlattenSeq(t) \in Bytes
        BY <1>1, <3>1
      <3>3. B = h \o FlattenSeq(t)
        BY <1>6, <1>12, FlattenHead DEF Bytes
      <3> QED
        BY ONLY <3>1, <3>2, <3>3
    <2>3. cut < Len(h)
      <3>1. whole + 1 \in 0..Len(ss) /\ whole \in Nat
        <4>1. Len(rest) # 0
          BY <1>6, <1>12
        <4> QED
          BY <1>0, <1>4, <1>6, <4>1
      <3>2. dropped(whole + 1) > overflow
        <4>1. ~(whole + 1 <= whole)
          BY <3>1
        <4>2. dropped(whole + 1) \in Nat
          BY <1>2, <3>1
        <4> HIDE DEF dropped
        <4> QED
          BY <1>0, <1>4, <3>1, <4>1, <4>2
      <3>3. SubSeq(ss, 1, whole + 1) = Append(first, h)
        <4>1. h = ss[whole + 1]
          BY <1>4, <1>6, <1>12, <3>1 DEF rest
        <4> QED
          BY <1>4, <3>1, <4>1 DEF first
      <3>4. FlattenSeq(Append(first, h)) = A \o h
        <4> HIDE DEF h
        <4> QED
          BY <1>6, <2>2, FlattenAppend DEF Bytes
      <3>5. dropped(whole + 1) = Len(A) + Len(h) /\ Len(h) \in Nat
        <4>1. Len(A \o h) = Len(A) + Len(h)
          BY <1>7, <2>2, Concat
        <4> QED
          BY <2>2, <3>3, <3>4, <4>1, Lengths
      <3> HIDE DEF A, h, dropped
      <3> QED
        BY <1>0, <1>8, <1>9, <3>2, <3>5
    <2>4. cut \in 0..Len(h)
      <3> HIDE DEF h, B, A
      <3> QED
        BY <1>9, <2>2, <2>3, Lengths
    <2>5. c \in Bytes
      <3> HIDE DEF h
      <3> QED
        BY <2>2, <2>4, Rest
    <2>6. SubSeq(h \o FlattenSeq(t), cut + 1, Len(h \o FlattenSeq(t))) = c \o FlattenSeq(t)
      <3> HIDE DEF h, t
      <3> QED
        BY <2>2, <2>4, RestOfConcat
    <2> HIDE DEF c, t, h
    <2>7. <<c>> \o t \in Seq(Bytes) /\ FlattenSeq(<<c>> \o t) = c \o FlattenSeq(t)
      <3>1. <<c>> \in Seq(Bytes)
        BY <2>5
      <3>2. FlattenSeq(<<c>> \o t) = FlattenSeq(<<c>>) \o FlattenSeq(t)
        BY <2>2, <3>1, FlattenConcat DEF Bytes
      <3>3. FlattenSeq(<<c>>) = c
        BY <2>5, FlattenOne DEF Bytes
      <3> QED
        BY <2>2, <3>1, <3>2, <3>3, ConcatProperties
    <2> QED
      BY <1>10, <2>1, <2>2, <2>6, <2>7
  <1> QED
    BY <1>11, <1>12

\* The values of a ReplayBuffer.
Replays == [chunks : Seq(Bytes), size : Nat]
\* The latest `limit' bytes of s.
Ending(s, limit) == IF Len(s) <= limit THEN s ELSE Latest(s, limit)

\* ReplayBuffer.append keeps the latest `limit' bytes of all that was said,
\* and size stays their number.
THEOREM RememberEffect ==
  ASSUME NEW r \in Replays, NEW limit \in Nat, NEW data \in Bytes,
         r.size = Len(Snapshot(r)), r.size <= limit
  PROVE  /\ Remember(r, data, limit) \in Replays
         /\ Remember(r, data, limit).size = Len(Snapshot(Remember(r, data, limit)))
         /\ Snapshot(r) \in Bytes
         /\ Snapshot(Remember(r, data, limit)) = Ending(Snapshot(r) \o data, limit)
  <1> DEFINE s == Snapshot(r)
             new == Remember(r, data, limit)
             size == r.size + Len(data)
             over == IF size > limit THEN size - limit ELSE 0
             all == s \o data
  <1>1. r.chunks \in Seq(Bytes) /\ r.size \in Nat
    BY DEF Replays
  <1>2. s \in Bytes
    BY <1>1, FlattenConcat DEF Bytes, Snapshot
  <1>3. Len(data) \in Nat /\ Len(s) = r.size
    BY Lengths
  <1>4. all \in Bytes /\ Len(all) = size
    <2> HIDE DEF s
    <2>1. s \o data \in Bytes /\ Len(s \o data) = Len(s) + Len(data)
      BY <1>2, Concat
    <2> QED
      BY ONLY <1>3, <2>1
  <1>5. CASE limit = 0
    <2>1. r.size = 0 /\ s = <<>>
      <3> HIDE DEF s
      <3> QED
        BY <1>1, <1>2, <1>3, <1>5, Lengths
    <2>2. new = r
      BY <1>5 DEF Remember
    <2>3. Ending(all, limit) = <<>>
      <3>1. CASE Len(all) <= 0
        <4> HIDE DEF all
        <4> QED
          BY <1>4, <1>5, <3>1, Lengths DEF Ending
      <3>2. CASE ~(Len(all) <= 0)
        <4> HIDE DEF all
        <4> QED
          BY <1>4, <1>5, <3>2, Lengths, SubSeqEmpty DEF Ending, Latest
      <3> QED
        BY <3>1, <3>2
    <2> QED
      BY <1>2, <2>1, <2>2, <2>3
  <1>6. CASE limit # 0 /\ data = <<>>
    <2>1. new = r
      BY <1>6 DEF Remember
    <2>2. all = s
      <3> HIDE DEF s
      <3> QED
        BY <1>2, <1>6 DEF Bytes
    <2> QED
      BY <1>2, <1>3, <2>1, <2>2 DEF Ending
  <1>7. CASE limit # 0 /\ data # <<>> /\ Len(data) >= limit
    <2> DEFINE tail == Latest(data, limit)
    <2>1. new = [chunks |-> <<tail>>, size |-> limit]
      BY <1>7 DEF Remember
    <2>2. tail \in Bytes /\ Len(tail) = limit
      <3>1. Len(data) - limit \in 0..Len(data) /\ Len(data) - (Len(data) - limit) = limit
        BY <1>3, <1>7
      <3> QED
        BY <3>1, Rest DEF Latest
    <2>3. Latest(all, limit) = tail
      <3>1. Len(all) - limit = Len(s) + (Len(data) - limit) /\ Len(data) - limit \in 0..Len(data)
        BY <1>3, <1>4, <1>7
      <3> HIDE DEF s
      <3>2. SubSeq(s \o data, Len(s) + (Len(data) - limit) + 1, Len(s \o data))
              = SubSeq(data, (Len(data) - limit) + 1, Len(data))
        BY <1>2, <3>1, RestBeyond
      <3> QED
        BY <3>1, <3>2 DEF Latest
    <2>4. Ending(all, limit) = tail
      <3>1. CASE Len(all) <= limit
        <4>1. Len(s) = 0 /\ Len(data) = limit
          BY <1>1, <1>3, <1>4, <1>7, <3>1
        <4>2. s = <<>>
          BY <1>2, <4>1, Lengths
        <4>3. all = data
          BY <4>2 DEF Bytes
        <4>4. Len(data) - limit + 1 = 1
          BY <1>3, <4>1
        <4>5. tail = data
          BY <4>1, <4>4 DEF Latest, Bytes
        <4> QED
          BY <3>1, <4>3, <4>5 DEF Ending
      <3>2. CASE ~(Len(all) <= limit)
        BY <2>3, <3>2 DEF Ending
      <3> QED
        BY <3>1, <3>2
    <2> HIDE DEF tail, new
    <2>5. FlattenSeq(<<tail>>) = tail
      BY <2>2, FlattenOne DEF Bytes
    <2>6. new \in Replays
      <3>1. <<tail>> \in Seq(Bytes)
        BY <2>2
      <3> QED
        BY <2>1, <3>1 DEF Replays
    <2>7. Snapshot(new) = tail /\ new.size = limit
      BY <2>1, <2>5 DEF Snapshot
    <2> HIDE DEF all, s
    <2> QED
      BY <1>2, <2>2, <2>4, <2>6, <2>7 DEF new, all, s
  <1>8. CASE limit # 0 /\ data # <<>> /\ ~(Len(data) >= limit)
    <2> DEFINE cs == Append(r.chunks, data)
    <2>1. new = [chunks |-> Trim(cs, over), size |-> size - over]
      BY <1>8 DEF Remember
    <2>2. cs \in Seq(Bytes) /\ FlattenSeq(cs) = all
      BY <1>1, FlattenAppend, AppendProperties DEF Snapshot, Bytes
    <2>3. size \in Nat /\ over \in 0..size /\ size - over = IF size <= limit THEN size ELSE limit
      <3> HIDE DEF s
      <3>1. size \in Nat
        BY <1>1, <1>3
      <3> HIDE DEF size
      <3> QED
        BY <3>1
    <2> HIDE DEF cs, all, new, over, size, s
    <2>4. Trim(cs, over) \in Seq(Bytes) /\ FlattenSeq(Trim(cs, over)) = SubSeq(all, over + 1, Len(all))
      BY <1>4, <2>2, <2>3, TrimEffect
    <2>5. SubSeq(all, over + 1, Len(all)) = Ending(all, limit)
      <3>1. CASE size <= limit
        <4>1. over = 0
          BY <2>3, <3>1
        <4> QED
          BY <1>4, <3>1, <4>1 DEF Ending, Bytes
      <3>2. CASE ~(size <= limit)
        <4>1. over = size - limit
          BY <2>3, <3>2 DEF over
        <4> QED
          BY <1>4, <3>2, <4>1 DEF Ending, Latest
      <3> QED
        BY <3>1, <3>2
    <2>6. Len(SubSeq(all, over + 1, Len(all))) = size - over /\ size - over \in Nat
      BY <1>4, <2>3, Rest
    <2>7. new \in Replays
      BY <2>1, <2>4, <2>6 DEF Replays
    <2>8. Snapshot(new) = Ending(all, limit) /\ new.size = Len(Snapshot(new))
      BY <2>1, <2>4, <2>5, <2>6 DEF Snapshot
    <2> QED
      BY <1>2, <2>7, <2>8 DEF s, all, new
  <1> HIDE DEF all, new, s
  <1> QED
    BY <1>5, <1>6, <1>7, <1>8 DEF all, new, s
=============================================================================
