------------------------ MODULE AttachClientProofs -------------------------
(***************************************************************************)
(* Nothing the shell prints is lost, repeated or reordered on its way to   *)
(* the tab without a word (NoSilentGap), the end of it is never lost while *)
(* the client is attached (LatestIsKept), and every buffer keeps count     *)
(* (BuffersExact): for any limits that main() accepts, any sizes of        *)
(* chunks, reads and writes, and any amount of output.                     *)
(*                                                                         *)
(* The invariant looks at the whole way of a byte as two sequences: what   *)
(* the client has taken out of its frames (Written) and the frames that    *)
(* still come (Coming).  A short write, a read and a short receive move    *)
(* the boundaries between the buffers but change neither.                  *)
(***************************************************************************)
EXTENDS AttachClient, ByteBuffersProofs

-----------------------------------------------------------------------------
(* The shape of the stream.                                                *)

\* P, what is written, ends with a byte of the shell and has no header; its bytes
\* are in their order, none after a gap without the notice in front of it.
Ordered(P, m) ==
  /\ P # <<>> => P[Len(P)] > 0
  /\ \A i \in 1..Len(P) : ~IsHeader(P[i]) /\ P[i] <= m
  /\ \A j \in 2..Len(P) : P[j] > 0 =>
       \/ P[j - 1] = P[j] - 1
       \/ j > 2 /\ P[j - 2] = -1 /\ P[j - 1] = -2
  /\ \A j \in 1..Len(P) : P[j] > 0 => \A i \in 1..(j - 1) : P[i] < P[j]

\* T, what comes, is a sequence of frames, the last of which may not be whole yet.
Framed(T) ==
  /\ T # <<>> => IsHeader(T[1])
  /\ \A i \in 1..Len(T) : IsHeader(T[i]) =>
       /\ Length(T[i]) \in 1..MaxFrame
       /\ \A k \in 1..Length(T[i]) : i + k <= Len(T) => T[i + k] > 0
       /\ i + Length(T[i]) + 1 <= Len(T) => IsHeader(T[i + Length(T[i]) + 1])

\* The bytes in T follow each other without a gap, over the headers as well.
Consecutive(T, m) ==
  /\ \A i \in 1..Len(T) : (T[i] > 0 \/ IsHeader(T[i])) /\ T[i] <= m
  /\ \A i \in 2..Len(T) : T[i] > 0 /\ T[i - 1] > 0 => T[i] = T[i - 1] + 1
  /\ \A i \in 3..Len(T) : IsHeader(T[i - 1]) => T[i] = T[i - 2] + 1
  /\ \A j \in 1..Len(T) : T[j] > 0 => \A i \in 1..(j - 1) : T[i] < T[j]

\* What comes carries on where the written ends.
Joined(P, T) ==
  /\ P # <<>> /\ Len(T) >= 2 => T[2] = P[Len(P)] + 1
  /\ \A j \in 1..Len(T) : T[j] > 0 => \A i \in 1..Len(P) : P[i] < T[j]

\* The last frame of T is whole.
Whole(T) == \A i \in 1..Len(T) : IsHeader(T[i]) => i + Length(T[i]) <= Len(T)

\* Nothing is missing at the end: byte m is the last that is written or comes.
UpTo(P, T, m) ==
  /\ Whole(T)
  /\ T # <<>> => T[Len(T)] = m
  /\ T = <<>> /\ P # <<>> => P[Len(P)] = m

-----------------------------------------------------------------------------
(* Frames and rows of bytes.                                               *)

\* Bytes are numbers.
LEMMA Elements == \A s \in Bytes : \A i \in 1..Len(s) : s[i] \in Int
  BY DEF Bytes

\* What holds of a stream holds of its beginning: what CloseClient leaves.
LEMMA Cut ==
  ASSUME NEW A \in Bytes, NEW B \in Bytes, NEW P \in Bytes, NEW m \in Nat,
         Framed(A \o B), Consecutive(A \o B, m), Joined(P, A \o B)
  PROVE  Framed(A) /\ Consecutive(A, m) /\ Joined(P, A)
  <1> DEFINE T == A \o B
  <1>1. /\ T \in Bytes /\ Len(T) = Len(A) + Len(B)
        /\ \A i \in 1..Len(A) : T[i] = A[i]
    BY Concat
  <1>2. Len(A) \in Nat /\ Len(B) \in Nat /\ (A # <<>> => Len(A) > 0) /\ (Len(A) > 0 => T # <<>>)
    BY <1>1, Lengths
  <1>3. Framed(T) /\ Consecutive(T, m) /\ Joined(P, T)
    OBVIOUS
  <1> HIDE DEF T
  <1>4. \A i \in 1..Len(A) : i \in 1..Len(T)
    BY <1>1, <1>2
  <1>5. Framed(A)
    <2>1. A # <<>> => IsHeader(A[1])
      BY <1>1, <1>2, <1>3 DEF Framed
    <2>2. ASSUME NEW i \in 1..Len(A), IsHeader(A[i])
          PROVE  /\ Length(A[i]) \in 1..MaxFrame
                 /\ \A k \in 1..Length(A[i]) : i + k <= Len(A) => A[i + k] > 0
                 /\ i + Length(A[i]) + 1 <= Len(A) => IsHeader(A[i + Length(A[i]) + 1])
      <3> DEFINE n == Length(A[i])
      <3>1. /\ n \in 1..MaxFrame
            /\ \A k \in 1..n : i + k <= Len(T) => T[i + k] > 0
            /\ i + n + 1 <= Len(T) => IsHeader(T[i + n + 1])
        BY <1>1, <1>3, <1>4, <2>2 DEF Framed
      <3> HIDE DEF n
      <3>2. ASSUME NEW k \in 1..n, i + k <= Len(A) PROVE A[i + k] > 0
        <4>1. i + k \in 1..Len(A) /\ i + k <= Len(T)
          BY <1>1, <1>2, <3>1, <3>2
        <4> QED
          BY <1>1, <3>1, <4>1
      <3>3. ASSUME i + n + 1 <= Len(A) PROVE IsHeader(A[i + n + 1])
        <4>1. i + n + 1 \in 1..Len(A) /\ i + n + 1 <= Len(T)
          BY <1>1, <1>2, <3>1, <3>3
        <4> QED
          BY <1>1, <3>1, <4>1
      <3> QED
        BY <3>1, <3>2, <3>3 DEF n
    <2> QED
      BY <2>1, <2>2 DEF Framed
  <1>6. Consecutive(A, m)
    <2>1. \A i \in 1..Len(A) : (A[i] > 0 \/ IsHeader(A[i])) /\ A[i] <= m
      BY <1>1, <1>3, <1>4 DEF Consecutive
    <2>2. \A i \in 2..Len(A) : A[i] > 0 /\ A[i - 1] > 0 => A[i] = A[i - 1] + 1
      BY <1>1, <1>2, <1>3 DEF Consecutive
    <2>3. \A i \in 3..Len(A) : IsHeader(A[i - 1]) => A[i] = A[i - 2] + 1
      <3> SUFFICES ASSUME NEW i \in 3..Len(A), IsHeader(A[i - 1]) PROVE A[i] = A[i - 2] + 1
        OBVIOUS
      <3>1. i \in 3..Len(T) /\ i \in 1..Len(A) /\ i - 1 \in 1..Len(A) /\ i - 2 \in 1..Len(A)
        BY <1>1, <1>2
      <3>2. T[i] = A[i] /\ T[i - 1] = A[i - 1] /\ T[i - 2] = A[i - 2]
        BY <1>1, <3>1
      <3> QED
        BY <1>3, <3>1, <3>2 DEF Consecutive
    <2>4. \A j \in 1..Len(A) : A[j] > 0 => \A i \in 1..(j - 1) : A[i] < A[j]
      BY <1>1, <1>2, <1>3 DEF Consecutive
    <2> QED
      BY <2>1, <2>2, <2>3, <2>4 DEF Consecutive
  <1>7. Joined(P, A)
    BY <1>1, <1>2, <1>3, <1>4 DEF Joined
  <1> QED
    BY <1>5, <1>6, <1>7

\* A frame that carries on where everything before it ends (_queue).
LEMMA FrameAdded ==
  ASSUME NEW T \in Bytes, NEW P \in Bytes, NEW m \in Nat, NEW D \in Bytes,
         Len(D) \in 1..MaxFrame, MaxFrame \in Nat,
         \A k \in 1..Len(D) : D[k] = m + k,
         Framed(T), Consecutive(T, m), Joined(P, T), Ordered(P, m), UpTo(P, T, m)
  PROVE  /\ Framed(T \o Frame(D)) /\ Consecutive(T \o Frame(D), m + Len(D))
         /\ Joined(P, T \o Frame(D)) /\ Ordered(P, m + Len(D))
         /\ UpTo(P, T \o Frame(D), m + Len(D))
  <1> DEFINE n == Len(D)
             U == T \o Frame(D)
             t == Len(T)
  <1>1. n \in Nat /\ n > 0 /\ t \in Nat /\ (T = <<>> <=> t = 0) /\ n <= MaxFrame
    BY Lengths
  <1>2. /\ Frame(D) \in Bytes /\ Len(Frame(D)) = n + 1
        /\ Frame(D)[1] = -(10 + n)
        /\ \A k \in 1..n : Frame(D)[k + 1] = D[k]
    BY <1>1 DEF Frame, Header, Bytes
  <1>3. /\ U \in Bytes /\ Len(U) = t + n + 1
        /\ \A i \in 1..t : U[i] = T[i]
        /\ U[t + 1] = -(10 + n)
        /\ \A k \in 1..n : U[t + 1 + k] = m + k
    <2> HIDE DEF n
    <2>1. /\ U \in Bytes /\ Len(U) = Len(T) + Len(Frame(D))
          /\ \A i \in 1..Len(T) : U[i] = T[i]
          /\ \A i \in 1..Len(Frame(D)) : U[Len(T) + i] = Frame(D)[i]
      BY <1>2, Concat
    <2> HIDE DEF U
    <2>2. ASSUME NEW k \in 1..n PROVE U[t + 1 + k] = m + k
      <3>1. k + 1 \in 1..Len(Frame(D)) /\ t + 1 + k = Len(T) + (k + 1)
        BY <1>1, <1>2
      <3>2. U[Len(T) + (k + 1)] = Frame(D)[k + 1]
        BY <2>1, <3>1
      <3> QED
        BY <1>2, <3>1, <3>2 DEF n
    <2>3. 1 \in 1..Len(Frame(D))
      BY <1>1, <1>2
    <2> QED
      BY <1>1, <1>2, <2>1, <2>2, <2>3
  <1>4. \A k \in 1..n : D[k] = m + k
    OBVIOUS
  <1>5. \A i \in 1..t : T[i] \in Int
    BY Elements
  <1> HIDE DEF n, U, t
  <1>6. \A i \in 1..(t + n + 1) : i \in 1..t \/ i = t + 1 \/ \E k \in 1..n : i = t + 1 + k
    <2> SUFFICES ASSUME NEW i \in 1..(t + n + 1), i > t + 1 PROVE \E k \in 1..n : i = t + 1 + k
      BY <1>1
    <2>1. i - (t + 1) \in 1..n /\ i = t + 1 + (i - (t + 1))
      BY <1>1
    <2> QED
      BY <2>1
  <1>7. Framed(U)
    <2>1. IsHeader(U[1])
      <3>1. CASE t = 0
        BY <1>1, <1>3, <3>1 DEF IsHeader, Header
      <3>2. CASE t # 0
        BY <1>1, <1>3, <3>2 DEF Framed
      <3> QED
        BY <3>1, <3>2
    <2>2. ASSUME NEW i \in 1..(t + n + 1), IsHeader(U[i])
          PROVE  /\ Length(U[i]) \in 1..MaxFrame
                 /\ \A k \in 1..Length(U[i]) : i + k <= Len(U) => U[i + k] > 0
                 /\ i + Length(U[i]) + 1 <= Len(U) => IsHeader(U[i + Length(U[i]) + 1])
      <3>1. CASE i \in 1..t
        <4> DEFINE l == Length(T[i])
        <4>1. /\ l \in 1..MaxFrame
              /\ \A k \in 1..l : i + k <= t => T[i + k] > 0
              /\ i + l + 1 <= t => IsHeader(T[i + l + 1])
              /\ i + l <= t
          BY <1>3, <2>2, <3>1 DEF Framed, UpTo, Whole, t
        <4>2. U[i] = T[i]
          BY <1>3, <3>1
        <4> HIDE DEF l
        <4>3. ASSUME NEW k \in 1..l PROVE U[i + k] > 0
          <5>1. i + k \in 1..t /\ i + k <= t
            BY <1>1, <3>1, <4>1
          <5>2. T[i + k] > 0
            BY <4>1, <5>1
          <5> QED
            BY <1>3, <5>1, <5>2
        <4>4. IsHeader(U[i + l + 1])
          <5>1. CASE i + l + 1 <= t
            <6>1. i + l + 1 \in 1..t
              BY <1>1, <3>1, <4>1, <5>1
            <6> QED
              BY <1>3, <4>1, <5>1, <6>1
          <5>2. CASE ~(i + l + 1 <= t)
            <6>1. i + l + 1 = t + 1
              BY <1>1, <3>1, <4>1, <5>2
            <6> QED
              BY <1>1, <1>3, <6>1 DEF IsHeader, Header
          <5> QED
            BY <5>1, <5>2
        <4> QED
          BY <4>1, <4>2, <4>3, <4>4 DEF l
      <3>2. CASE i = t + 1
        <4>1. Length(U[i]) = n
          BY <1>1, <1>3, <3>2 DEF Length
        <4>2. \A k \in 1..n : U[i + k] > 0
          <5> SUFFICES ASSUME NEW k \in 1..n PROVE U[i + k] > 0
            OBVIOUS
          <5>1. U[t + 1 + k] = m + k
            BY <1>3
          <5>2. i + k = t + 1 + k /\ m + k > 0
            BY <1>1, <3>2
          <5> QED
            BY <5>1, <5>2
        <4>3. ~(i + n + 1 <= Len(U))
          BY <1>1, <1>3, <3>2
        <4>4. n \in 1..MaxFrame
          BY <1>1
        <4> QED
          BY ONLY <4>1, <4>2, <4>3, <4>4
      <3>3. CASE \E k \in 1..n : i = t + 1 + k
        BY <1>3, <2>2, <3>3 DEF IsHeader, Header
      <3> QED
        BY <1>6, <3>1, <3>2, <3>3
    <2> QED
      BY <1>3, <2>1, <2>2 DEF Framed
  <1>8. Consecutive(U, m + n)
    <2>1. ASSUME NEW i \in 1..(t + n + 1) PROVE (U[i] > 0 \/ IsHeader(U[i])) /\ U[i] <= m + n
      <3>1. CASE i \in 1..t
        <4>1. (T[i] > 0 \/ IsHeader(T[i])) /\ T[i] <= m /\ U[i] = T[i] /\ T[i] \in Int
          BY <1>3, <1>5, <3>1 DEF Consecutive, t
        <4> QED
          BY <1>1, <4>1
      <3>2. CASE i = t + 1
        BY <1>1, <1>3, <3>2 DEF IsHeader, Header
      <3>3. CASE \E k \in 1..n : i = t + 1 + k
        <4>1. PICK k \in 1..n : i = t + 1 + k
          BY <3>3
        <4>2. U[i] = m + k
          BY <1>3, <4>1
        <4> QED
          BY <1>1, <4>2
      <3> QED
        BY <1>6, <3>1, <3>2, <3>3
    <2>2. ASSUME NEW i \in 2..(t + n + 1), U[i] > 0, U[i - 1] > 0 PROVE U[i] = U[i - 1] + 1
      <3>1. CASE i \in 1..t
        <4>1. i \in 2..t /\ i - 1 \in 1..t
          BY <1>1, <3>1
        <4> QED
          BY <1>3, <2>2, <3>1, <4>1 DEF Consecutive, t
      <3>2. CASE i = t + 1
        BY <1>1, <1>3, <2>2, <3>2
      <3>3. CASE \E k \in 1..n : i = t + 1 + k
        <4>1. PICK k \in 1..n : i = t + 1 + k
          BY <3>3
        <4>2. CASE k = 1
          <5>1. i - 1 = t + 1
            BY <1>1, <4>1, <4>2
          <5> QED
            BY <1>1, <1>3, <2>2, <5>1
        <4>3. CASE k # 1
          <5>1. k - 1 \in 1..n /\ i - 1 = t + 1 + (k - 1)
            BY <1>1, <4>1, <4>3
          <5>2. U[i - 1] = m + (k - 1) /\ U[i] = m + k
            BY <1>3, <4>1, <5>1
          <5> QED
            BY <5>2
        <4> QED
          BY <4>2, <4>3
      <3> QED
        BY <1>6, <3>1, <3>2, <3>3
    <2>3. ASSUME NEW i \in 3..(t + n + 1), IsHeader(U[i - 1]) PROVE U[i] = U[i - 2] + 1
      <3>1. CASE i \in 1..t
        <4>1. i \in 3..t /\ i - 1 \in 1..t /\ i - 2 \in 1..t
          BY <1>1, <3>1
        <4> QED
          BY <1>3, <2>3, <3>1, <4>1 DEF Consecutive, t
      <3>2. CASE i = t + 1
        <4>1. t \in 1..t /\ i - 1 = t
          BY <1>1, <3>2
        <4>2. U[i - 1] = T[t] /\ T[t] = m
          BY <1>1, <1>3, <4>1 DEF UpTo, t
        <4> QED
          BY <2>3, <4>2 DEF IsHeader, Header
      <3>3. CASE \E k \in 1..n : i = t + 1 + k
        <4>1. PICK k \in 1..n : i = t + 1 + k
          BY <3>3
        <4>2. CASE k = 1
          <5>1. i - 2 = t /\ t \in 1..t
            BY <1>1, <4>1, <4>2
          <5>2. U[i - 2] = m
            <6>1. T[t] = m
              BY <1>1, <5>1 DEF UpTo, t
            <6> QED
              BY <1>3, <5>1, <6>1
          <5> QED
            BY <1>3, <4>1, <4>2, <5>2
        <4>3. CASE k # 1
          <5>1. k - 1 \in 1..n /\ i - 1 = t + 1 + (k - 1)
            BY <1>1, <4>1, <4>3
          <5>2. U[i - 1] = m + (k - 1)
            BY <1>3, <5>1
          <5> QED
            BY <2>3, <5>1, <5>2 DEF IsHeader, Header
        <4> QED
          BY <4>2, <4>3
      <3> QED
        BY <1>6, <3>1, <3>2, <3>3
    <2>4. ASSUME NEW j \in 1..(t + n + 1), U[j] > 0, NEW i \in 1..(j - 1) PROVE U[i] < U[j]
      <3>0. i \in 1..(t + n + 1)
        BY <1>1
      <3>1. CASE j \in 1..t
        <4>1. i \in 1..t
          BY <1>1, <3>1
        <4> QED
          BY <1>3, <2>4, <3>1, <4>1 DEF Consecutive, t
      <3>2. CASE j = t + 1
        BY <1>1, <1>3, <2>4, <3>2
      <3>3. CASE \E k \in 1..n : j = t + 1 + k
        <4>1. PICK k \in 1..n : j = t + 1 + k
          BY <3>3
        <4>2. U[j] = m + k
          BY <1>3, <4>1
        <4>3. CASE i \in 1..t
          <5>1. U[i] = T[i] /\ T[i] <= m /\ T[i] \in Int
            BY <1>3, <1>5, <4>3 DEF Consecutive, t
          <5> QED
            BY <4>2, <5>1
        <4>4. CASE i = t + 1
          BY <1>1, <1>3, <4>2, <4>4
        <4>5. CASE \E l \in 1..n : i = t + 1 + l
          <5>1. PICK l \in 1..n : i = t + 1 + l
            BY <4>5
          <5>2. U[i] = m + l
            BY <1>3, <5>1
          <5>3. l < k
            BY <1>1, <4>1, <5>1
          <5> QED
            BY <4>2, <5>2, <5>3
        <4> QED
          BY <1>6, <3>0, <4>3, <4>4, <4>5
      <3> QED
        BY <1>6, <3>1, <3>2, <3>3
    <2> QED
      BY <1>3, <2>1, <2>2, <2>3, <2>4 DEF Consecutive
  <1>9. Len(P) \in Nat /\ (P # <<>> => Len(P) > 0) /\ \A i \in 1..Len(P) : P[i] \in Int
    BY Lengths, Elements
  <1>10. Joined(P, U)
    <2>1. ASSUME P # <<>> PROVE U[2] = P[Len(P)] + 1
      <3>1. CASE t = 0
        BY <1>1, <1>3, <2>1, <3>1 DEF UpTo
      <3>2. CASE t = 1
        <4>1. IsHeader(T[1]) /\ Length(T[1]) \in 1..MaxFrame /\ 1 + Length(T[1]) <= 1
          BY <1>1, <3>2 DEF Framed, UpTo, Whole, t
        <4> QED
          BY <4>1
      <3>3. CASE t >= 2
        BY <1>1, <1>3, <2>1, <3>3 DEF Joined, t
      <3> QED
        BY <1>1, <3>1, <3>2, <3>3
    <2>2. ASSUME NEW j \in 1..(t + n + 1), U[j] > 0, NEW i \in 1..Len(P) PROVE P[i] < U[j]
      <3>1. CASE j \in 1..t
        BY <1>3, <2>2, <3>1 DEF Joined, t
      <3>2. CASE j = t + 1
        BY <1>1, <1>3, <2>2, <3>2
      <3>3. CASE \E k \in 1..n : j = t + 1 + k
        <4>1. P[i] <= m /\ P[i] \in Int
          BY <1>9 DEF Ordered
        <4> QED
          BY <1>3, <3>3, <4>1
      <3> QED
        BY <1>6, <3>1, <3>2, <3>3
    <2> QED
      BY <1>3, <2>1, <2>2 DEF Joined
  <1>11. Ordered(P, m + n)
    <2>1. \A i \in 1..Len(P) : ~IsHeader(P[i]) /\ P[i] <= m + n
      BY <1>1, <1>9 DEF Ordered
    <2> QED
      BY <2>1 DEF Ordered
  <1>12. UpTo(P, U, m + n)
    <2>1. ASSUME NEW i \in 1..(t + n + 1), IsHeader(U[i]) PROVE i + Length(U[i]) <= Len(U)
      <3>1. CASE i \in 1..t
        <4>1. i + Length(T[i]) <= t /\ U[i] = T[i] /\ T[i] \in Int
          BY <1>3, <1>5, <2>1, <3>1 DEF UpTo, Whole, t
        <4> QED
          BY <1>1, <1>3, <4>1 DEF Length
      <3>2. CASE i = t + 1
        BY <1>1, <1>3, <3>2 DEF Length
      <3>3. CASE \E k \in 1..n : i = t + 1 + k
        BY <1>3, <2>1, <3>3 DEF IsHeader, Header
      <3> QED
        BY <1>6, <3>1, <3>2, <3>3
    <2>2. U[Len(U)] = m + n
      <3>1. n \in 1..n /\ Len(U) = t + 1 + n
        BY <1>1, <1>3
      <3> QED
        BY <1>3, <3>1
    <2>3. U # <<>>
      BY <1>1, <1>3
    <2> QED
      BY <1>3, <2>1, <2>2, <2>3 DEF UpTo, Whole
  <1> QED
    BY <1>7, <1>8, <1>10, <1>11, <1>12 DEF n, U

\* D is bytes of the shell in a row, none beyond the m-th.
Run(D, m) ==
  /\ \A k \in 1..Len(D) : D[k] > 0 /\ D[k] <= m
  /\ \A k \in 2..Len(D) : D[k] = D[k - 1] + 1
  /\ \A k \in 1..Len(D) : \A i \in 1..(k - 1) : D[i] < D[k]

\* A frame that has come whole holds bytes of the shell in a row.
LEMMA FirstFrame ==
  ASSUME NEW T \in Bytes, NEW m \in Nat, MaxFrame \in Nat, T # <<>>,
         Framed(T), Consecutive(T, m),
         NEW n \in 1..MaxFrame, Length(T[1]) = n, n < Len(T),
         NEW D \in Bytes, Len(D) = n, \A k \in 1..n : D[k] = T[k + 1]
  PROVE  Run(D, m)
  <1>1. Len(T) \in Nat /\ Len(T) > 0
    BY Lengths
  <1>2. n \in 1..MaxFrame /\ n + 1 <= Len(T)
    BY <1>1
  <1>3. Len(D) = n /\ \A k \in 1..n : D[k] = T[k + 1]
    OBVIOUS
  <1>5. \A k \in 1..n : k + 1 \in 1..Len(T) /\ k + 1 \in 2..Len(T)
    BY <1>1, <1>2
  <1>6. Run(D, m)
    <2>1. ASSUME NEW k \in 1..n PROVE D[k] > 0 /\ D[k] <= m
      <3>1. T[1 + k] > 0 /\ 1 + k = k + 1
        <4>1. IsHeader(T[1]) /\ 1 \in 1..Len(T) /\ 1 + k <= Len(T)
          BY <1>1, <1>2 DEF Framed
        <4>2. Length(T[1]) = n
          OBVIOUS
        <4>3. \A l \in 1..Length(T[1]) : 1 + l <= Len(T) => T[1 + l] > 0
          BY <4>1 DEF Framed
        <4>4. 1 + k = k + 1
          BY <1>2
        <4> QED
          BY ONLY <4>1, <4>2, <4>3, <4>4, k \in 1..n
      <3>2. T[k + 1] <= m
        BY <1>5 DEF Consecutive
      <3> QED
        BY <1>3, <3>1, <3>2
    <2>2. ASSUME NEW k \in 2..n PROVE D[k] = D[k - 1] + 1
      <3>1. k - 1 \in 1..n /\ k \in 1..n /\ (k - 1) + 1 = k /\ (k + 1) - 1 = k
        BY <1>2
      <3>2. D[k] = T[k + 1] /\ D[k - 1] = T[k] /\ T[k + 1] > 0 /\ T[k] > 0
        <4>1. D[k] = T[k + 1]
          BY <1>3, <3>1
        <4>2. D[k - 1] = T[(k - 1) + 1]
          BY <1>3, <3>1
        <4>3. D[k] > 0 /\ D[k - 1] > 0
          BY <2>1, <3>1
        <4> QED
          BY <3>1, <4>1, <4>2, <4>3
      <3>3. k + 1 \in 2..Len(T)
        BY <1>5, <3>1
      <3> QED
        BY <3>1, <3>2, <3>3 DEF Consecutive
    <2>3. ASSUME NEW k \in 1..n, NEW i \in 1..(k - 1) PROVE D[i] < D[k]
      <3>1. i \in 1..n /\ i + 1 \in 1..((k + 1) - 1) /\ k + 1 \in 1..Len(T)
        BY <1>1, <1>2
      <3>2. D[i] = T[i + 1] /\ D[k] = T[k + 1] /\ D[k] > 0
        BY <1>3, <2>1, <3>1
      <3> QED
        BY <3>1, <3>2 DEF Consecutive
    <2> QED
      BY <1>3, <2>1, <2>2, <2>3 DEF Run
  <1> QED
    BY <1>6

\* What is behind the first frame is a stream of frames again.
LEMMA FrameBehind ==
  ASSUME NEW T \in Bytes, NEW m \in Nat, MaxFrame \in Nat, T # <<>>,
         Framed(T), Consecutive(T, m),
         NEW n \in 1..MaxFrame, n = Length(T[1]), n < Len(T),
         NEW R \in Bytes, Len(R) = Len(T) - n - 1,
         \A k \in 1..Len(R) : R[k] = T[n + 1 + k]
  PROVE  /\ Framed(R) /\ Consecutive(R, m)
         /\ (Whole(T) => Whole(R))
  <1> DEFINE t == Len(T)
             r == Len(R)
  <1>a. n \in Nat /\ n > 0
    OBVIOUS
  <1>b. t \in Nat /\ r \in Nat /\ (R # <<>> => r > 0)
    BY Lengths
  <1>c. r = t - n - 1 /\ \A k \in 1..r : R[k] = T[n + 1 + k]
    OBVIOUS
  <1>d. n = Length(T[1]) /\ n < t /\ n \in 1..MaxFrame
    OBVIOUS
  <1> HIDE DEF t, r
  <1>e. t = r + n + 1
    BY ONLY <1>a, <1>b, <1>c
  <1>1. /\ n \in Nat /\ n > 0 /\ t \in Nat /\ r \in Nat /\ (R # <<>> => r > 0)
        /\ t = r + n + 1
    BY ONLY <1>a, <1>b, <1>e
  <1>2. \A k \in 1..r : n + 1 + k \in 1..t
    BY ONLY <1>1
  <1>3. Framed(R)
    <2>1. ASSUME R # <<>> PROVE IsHeader(R[1])
      <3>1. 1 \in 1..r /\ 1 + n + 1 <= t /\ 1 \in 1..t /\ 1 + n + 1 = n + 1 + 1
        BY ONLY <1>1, <2>1
      <3>a. IsHeader(T[1])
        BY DEF Framed
      <3>2. IsHeader(T[1 + n + 1])
        BY <1>d, <3>1, <3>a DEF Framed, t, r
      <3>3. R[1] = T[n + 1 + 1]
        BY ONLY <1>c, <3>1
      <3> QED
        BY <3>2, <3>3
    <2>2. ASSUME NEW i \in 1..r, IsHeader(R[i])
          PROVE  /\ Length(R[i]) \in 1..MaxFrame
                 /\ \A k \in 1..Length(R[i]) : i + k <= r => R[i + k] > 0
                 /\ i + Length(R[i]) + 1 <= r => IsHeader(R[i + Length(R[i]) + 1])
      <3> DEFINE l == Length(R[i])
                 j == n + 1 + i
      <3>1. /\ R[i] = T[j] /\ l \in 1..MaxFrame
            /\ \A k \in 1..l : j + k <= t => T[j + k] > 0
            /\ j + l + 1 <= t => IsHeader(T[j + l + 1])
        BY <1>2, <2>2 DEF Framed, t, r
      <3> HIDE DEF l
      <3>2. ASSUME NEW k \in 1..l, i + k <= r PROVE R[i + k] > 0
        <4>1. i + k \in 1..r /\ j + k <= t /\ j + k = n + 1 + (i + k)
          <5>1. l \in 1..MaxFrame
            BY <3>1
          <5> QED
            BY ONLY <1>1, <5>1, <3>2, MaxFrame \in Nat, i \in 1..r, k \in 1..l
        <4>2. R[i + k] = T[n + 1 + (i + k)] /\ T[j + k] > 0
          <5>1. R[i + k] = T[n + 1 + (i + k)]
            BY ONLY <1>c, <4>1
          <5>2. T[j + k] > 0
            BY <3>1, <4>1
          <5> QED
            BY <5>1, <5>2
        <4> QED
          BY <4>1, <4>2
      <3>3. ASSUME i + l + 1 <= r PROVE IsHeader(R[i + l + 1])
        <4>1. i + l + 1 \in 1..r /\ j + l + 1 <= t /\ j + l + 1 = n + 1 + (i + l + 1)
          <5>1. l \in 1..MaxFrame
            BY <3>1
          <5> QED
            BY ONLY <1>1, <5>1, <3>3, MaxFrame \in Nat, i \in 1..r
        <4>2. R[i + l + 1] = T[n + 1 + (i + l + 1)] /\ IsHeader(T[j + l + 1])
          <5>1. R[i + l + 1] = T[n + 1 + (i + l + 1)]
            BY ONLY <1>c, <4>1
          <5>2. IsHeader(T[j + l + 1])
            BY <3>1, <4>1
          <5> QED
            BY <5>1, <5>2
        <4> QED
          BY <4>1, <4>2
      <3> QED
        BY <3>1, <3>2, <3>3 DEF l
    <2> QED
      BY <2>1, <2>2 DEF Framed, t, r
  <1>4. Consecutive(R, m)
    <2>1. \A i \in 1..r : (R[i] > 0 \/ IsHeader(R[i])) /\ R[i] <= m
      BY <1>2 DEF Consecutive, t, r
    <2>2. ASSUME NEW i \in 2..r, R[i] > 0, R[i - 1] > 0 PROVE R[i] = R[i - 1] + 1
      <3>1. i \in 1..r /\ i - 1 \in 1..r /\ n + 1 + i \in 2..t
            /\ (n + 1 + i) - 1 = n + 1 + (i - 1)
        BY ONLY <1>1, i \in 2..r
      <3>2. R[i] = T[n + 1 + i] /\ R[i - 1] = T[(n + 1 + i) - 1]
        BY ONLY <1>c, <3>1
      <3> QED
        BY <2>2, <3>1, <3>2 DEF Consecutive, t, r
    <2>3. ASSUME NEW i \in 3..r, IsHeader(R[i - 1]) PROVE R[i] = R[i - 2] + 1
      <3>1. i \in 1..r /\ i - 1 \in 1..r /\ i - 2 \in 1..r /\ n + 1 + i \in 3..t
            /\ (n + 1 + i) - 1 = n + 1 + (i - 1) /\ (n + 1 + i) - 2 = n + 1 + (i - 2)
        BY ONLY <1>1, i \in 3..r
      <3>2. R[i] = T[n + 1 + i] /\ R[i - 1] = T[(n + 1 + i) - 1] /\ R[i - 2] = T[(n + 1 + i) - 2]
        BY ONLY <1>c, <3>1
      <3> QED
        BY <2>3, <3>1, <3>2 DEF Consecutive, t, r
    <2>4. ASSUME NEW j \in 1..r, R[j] > 0, NEW i \in 1..(j - 1) PROVE R[i] < R[j]
      <3>1. i \in 1..r /\ n + 1 + j \in 1..t /\ n + 1 + i \in 1..((n + 1 + j) - 1)
        BY ONLY <1>1, j \in 1..r, i \in 1..(j - 1)
      <3>2. R[i] = T[n + 1 + i] /\ R[j] = T[n + 1 + j]
        BY ONLY <1>c, <3>1
      <3> QED
        BY <2>4, <3>1, <3>2 DEF Consecutive, t, r
    <2> QED
      BY <2>1, <2>2, <2>3, <2>4 DEF Consecutive, t, r
  <1>5. ASSUME Whole(T) PROVE Whole(R)
    <2> SUFFICES ASSUME NEW i \in 1..r, IsHeader(R[i]) PROVE i + Length(R[i]) <= r
      BY DEF Whole, t, r
    <2>1. R[i] = T[n + 1 + i] /\ n + 1 + i + Length(T[n + 1 + i]) <= t
      BY <1>2, <1>5 DEF Whole, t, r
    <2>2. Length(R[i]) \in 1..MaxFrame
      BY <1>3 DEF Framed, t, r
    <2> DEFINE l == Length(R[i])
    <2>3. n + 1 + i + l <= t /\ l \in Nat
      BY <2>1, <2>2
    <2> HIDE DEF l
    <2>4. i + l <= r
      BY ONLY <1>1, <2>3, i \in 1..r
    <2> QED
      BY <2>4 DEF l
  <1> QED
    BY <1>3, <1>4, <1>5

\* Bytes in a row that carry on where the written ones end.
LEMMA RunAppended ==
  ASSUME NEW P \in Bytes, NEW m \in Nat, NEW D \in Bytes, Ordered(P, m), Run(D, m), D # <<>>,
         P # <<>> => D[1] = P[Len(P)] + 1,
         \A k \in 1..Len(D) : \A i \in 1..Len(P) : P[i] < D[k]
  PROVE  Ordered(P \o D, m)
  <1> DEFINE Q == P \o D
             p == Len(P)
             n == Len(D)
  <1>1. /\ Q \in Bytes /\ Len(Q) = p + n
        /\ \A i \in 1..p : Q[i] = P[i]
        /\ \A k \in 1..n : Q[p + k] = D[k]
    BY Concat
  <1>2. p \in Nat /\ n \in Nat /\ n > 0 /\ (P # <<>> <=> p > 0)
    BY Lengths
  <1>3. /\ \A i \in 1..p : P[i] \in Int
        /\ \A k \in 1..n : D[k] \in Int
    BY Elements
  <1>4. \A j \in 1..(p + n) : j \in 1..p \/ \E k \in 1..n : j = p + k
    <2> SUFFICES ASSUME NEW j \in 1..(p + n), j > p PROVE \E k \in 1..n : j = p + k
      BY <1>2
    <2>1. j - p \in 1..n /\ j = p + (j - p)
      BY <1>2
    <2> QED
      BY <2>1
  <1> HIDE DEF Q, p, n
  <1>5. Q[Len(Q)] > 0
    <2>1. n \in 1..n
      BY <1>2
    <2>2. D[n] > 0
      BY <2>1 DEF Run, n
    <2> QED
      BY <1>1, <2>1, <2>2
  <1>6. ASSUME NEW j \in 1..(p + n) PROVE ~IsHeader(Q[j]) /\ Q[j] <= m
    <2>1. CASE j \in 1..p
      BY <1>1, <2>1 DEF Ordered, p
    <2>2. CASE \E k \in 1..n : j = p + k
      <3>1. PICK k \in 1..n : j = p + k
        BY <2>2
      <3>2. D[k] > 0 /\ D[k] <= m /\ D[k] \in Int
        BY <1>3 DEF Run, n
      <3> QED
        BY <1>1, <3>1, <3>2 DEF IsHeader, Header
    <2> QED
      BY <1>4, <2>1, <2>2
  <1>7. ASSUME NEW j \in 2..(p + n), Q[j] > 0
        PROVE  \/ Q[j - 1] = Q[j] - 1
               \/ j > 2 /\ Q[j - 2] = -1 /\ Q[j - 1] = -2
    <2>0. j \in 1..(p + n)
      BY <1>2
    <2>1. CASE j \in 1..p
      <3>1. j \in 2..p /\ j - 1 \in 1..p /\ (j > 2 => j - 2 \in 1..p)
        BY <1>2, <2>1
      <3>2. Q[j] = P[j] /\ Q[j - 1] = P[j - 1] /\ (j > 2 => Q[j - 2] = P[j - 2])
        BY <1>1, <2>1, <3>1
      <3>3. \/ P[j - 1] = P[j] - 1
            \/ j > 2 /\ P[j - 2] = -1 /\ P[j - 1] = -2
        BY <1>7, <3>1, <3>2 DEF Ordered, p
      <3> QED
        BY <3>2, <3>3
    <2>2. CASE \E k \in 1..n : j = p + k
      <3>1. PICK k \in 1..n : j = p + k
        BY <2>2
      <3>2. CASE k = 1
        <4>1. p \in 1..p /\ j - 1 = p
          BY <1>2, <3>1, <3>2
        <4>2. Q[j - 1] = P[p] /\ Q[j] = D[1] /\ D[1] = P[p] + 1
          BY <1>1, <1>2, <3>1, <3>2, <4>1 DEF p
        <4> QED
          BY <1>3, <4>1, <4>2
      <3>3. CASE k # 1
        <4>1. k - 1 \in 1..n /\ k \in 2..n /\ j - 1 = p + (k - 1)
          BY <1>2, <3>1, <3>3
        <4>2. Q[j - 1] = D[k - 1] /\ Q[j] = D[k] /\ D[k] = D[k - 1] + 1
          BY <1>1, <3>1, <4>1 DEF Run, n
        <4> QED
          BY <1>3, <4>1, <4>2
      <3> QED
        BY <3>2, <3>3
    <2> QED
      BY <1>4, <2>0, <2>1, <2>2
  <1>8. ASSUME NEW j \in 1..(p + n), Q[j] > 0, NEW i \in 1..(j - 1) PROVE Q[i] < Q[j]
    <2>0. i \in 1..(p + n)
      BY <1>2
    <2>1. CASE j \in 1..p
      <3>1. i \in 1..p
        BY <1>2, <2>1
      <3> QED
        BY <1>1, <1>8, <2>1, <3>1 DEF Ordered, p
    <2>2. CASE \E k \in 1..n : j = p + k
      <3>1. PICK k \in 1..n : j = p + k
        BY <2>2
      <3>2. Q[j] = D[k]
        BY <1>1, <3>1
      <3>3. CASE i \in 1..p
        <4>1. P[i] < D[k]
          BY <3>3 DEF p, n
        <4> QED
          BY <1>1, <3>2, <3>3, <4>1
      <3>4. CASE \E l \in 1..n : i = p + l
        <4>1. PICK l \in 1..n : i = p + l
          BY <3>4
        <4>2. l \in 1..(k - 1)
          BY <1>2, <3>1, <4>1
        <4>3. D[l] < D[k]
          BY <4>2 DEF Run, n
        <4> QED
          BY <1>1, <3>2, <4>1, <4>3
      <3> QED
        BY <1>4, <2>0, <3>3, <3>4
    <2> QED
      BY <1>4, <2>1, <2>2
  <1> QED
    BY <1>1, <1>5, <1>6, <1>7, <1>8 DEF Ordered, Q

\* Bytes in a row behind a truncation notice may leave a gap.
LEMMA ToldAppended ==
  ASSUME NEW S \in Bytes, NEW C \in Bytes, NEW m \in Nat, NEW D \in Bytes,
         Ordered(S \o C, m), Run(D, m), D # <<>>,
         \A k \in 1..Len(D) : \A i \in 1..Len(S) : S[i] < D[k]
  PROVE  Ordered(S \o (Notice \o D), m)
  <1> DEFINE N == Notice \o D
             Q == S \o N
             p == Len(S)
             n == Len(D)
             P == S \o C
  <1>0. p \in Nat /\ n \in Nat /\ n > 0
    BY Lengths
  <1>1. Notice \in Bytes /\ Len(Notice) = 2 /\ Notice[1] = -1 /\ Notice[2] = -2
    BY DEF Notice, Bytes
  <1>2. /\ N \in Bytes /\ Len(N) = n + 2
        /\ N[1] = -1 /\ N[2] = -2
        /\ \A k \in 1..n : N[2 + k] = D[k]
    <2>1. /\ N \in Bytes /\ Len(N) = Len(Notice) + Len(D)
          /\ \A i \in 1..Len(Notice) : N[i] = Notice[i]
          /\ \A k \in 1..Len(D) : N[Len(Notice) + k] = D[k]
      BY <1>1, Concat
    <2> HIDE DEF N
    <2> QED
      BY <1>0, <1>1, <2>1
  <1> HIDE DEF N
  <1>3. /\ Q \in Bytes /\ Len(Q) = p + n + 2
        /\ \A i \in 1..p : Q[i] = S[i]
        /\ Q[p + 1] = -1 /\ Q[p + 2] = -2
        /\ \A k \in 1..n : Q[p + 2 + k] = D[k]
    <2>1. /\ Q \in Bytes /\ Len(Q) = Len(S) + Len(N)
          /\ \A i \in 1..Len(S) : Q[i] = S[i]
          /\ \A k \in 1..Len(N) : Q[Len(S) + k] = N[k]
      BY <1>2, Concat
    <2> HIDE DEF Q, n
    <2>2. /\ 1 \in 1..Len(N) /\ 2 \in 1..Len(N)
          /\ \A k \in 1..n : 2 + k \in 1..Len(N) /\ p + 2 + k = Len(S) + (2 + k)
      BY <1>0, <1>2
    <2>3. ASSUME NEW k \in 1..n PROVE Q[p + 2 + k] = D[k]
      BY <1>2, <2>1, <2>2
    <2> QED
      BY <1>0, <1>2, <2>1, <2>2, <2>3
  <1>4. /\ P \in Bytes /\ Len(P) = p + Len(C) /\ Len(C) \in Nat
        /\ \A i \in 1..p : P[i] = S[i]
    BY Concat, Lengths
  <1>5. Ordered(P, m)
    OBVIOUS
  <1>6. /\ \A i \in 1..p : S[i] \in Int
        /\ \A k \in 1..n : D[k] \in Int
    BY Elements
  <1>7. \A k \in 1..n : \A i \in 1..p : S[i] < D[k]
    OBVIOUS
  <1> HIDE DEF Q, p, n, P
  <1>8. \A j \in 1..(p + n + 2) :
          j \in 1..p \/ j = p + 1 \/ j = p + 2 \/ \E k \in 1..n : j = p + 2 + k
    <2> SUFFICES ASSUME NEW j \in 1..(p + n + 2), j > p + 2 PROVE \E k \in 1..n : j = p + 2 + k
      BY <1>0
    <2>1. j - (p + 2) \in 1..n /\ j = p + 2 + (j - (p + 2))
      BY <1>0
    <2> QED
      BY <2>1
  <1>9. \A i \in 1..p : i \in 1..Len(P)
    BY <1>0, <1>4
  <1>10. Q[Len(Q)] > 0
    <2>1. n \in 1..n /\ Len(Q) = p + 2 + n
      BY <1>0, <1>3
    <2>2. D[n] > 0
      BY <2>1 DEF Run, n
    <2> QED
      BY <1>3, <2>1, <2>2
  <1>11. ASSUME NEW j \in 1..(p + n + 2) PROVE ~IsHeader(Q[j]) /\ Q[j] <= m
    <2>1. CASE j \in 1..p
      BY <1>3, <1>4, <1>5, <1>9, <2>1 DEF Ordered
    <2>2. CASE j = p + 1 \/ j = p + 2
      BY <1>3, <2>2 DEF IsHeader, Header
    <2>3. CASE \E k \in 1..n : j = p + 2 + k
      <3>1. PICK k \in 1..n : j = p + 2 + k
        BY <2>3
      <3>2. D[k] > 0 /\ D[k] <= m /\ D[k] \in Int
        BY <1>6 DEF Run, n
      <3> QED
        BY <1>3, <3>1, <3>2 DEF IsHeader, Header
    <2> QED
      BY <1>8, <2>1, <2>2, <2>3
  <1>12. ASSUME NEW j \in 2..(p + n + 2), Q[j] > 0
         PROVE  \/ Q[j - 1] = Q[j] - 1
                \/ j > 2 /\ Q[j - 2] = -1 /\ Q[j - 1] = -2
    <2>0. j \in 1..(p + n + 2)
      BY <1>0
    <2>1. CASE j \in 1..p
      <3>1. j \in 2..Len(P) /\ j - 1 \in 1..p /\ (j > 2 => j - 2 \in 1..p)
        BY <1>0, <1>4, <2>1
      <3>2. Q[j] = P[j] /\ Q[j - 1] = P[j - 1] /\ (j > 2 => Q[j - 2] = P[j - 2])
        BY <1>3, <1>4, <2>1, <3>1
      <3>3. \/ P[j - 1] = P[j] - 1
            \/ j > 2 /\ P[j - 2] = -1 /\ P[j - 1] = -2
        BY <1>5, <1>12, <3>1, <3>2 DEF Ordered
      <3> QED
        BY <3>2, <3>3
    <2>2. CASE j = p + 1 \/ j = p + 2
      BY <1>3, <1>12, <2>2
    <2>3. CASE \E k \in 1..n : j = p + 2 + k
      <3>1. PICK k \in 1..n : j = p + 2 + k
        BY <2>3
      <3>2. CASE k = 1
        <4>1. j - 1 = p + 2 /\ j - 2 = p + 1 /\ j > 2
          BY <1>0, <3>1, <3>2
        <4> QED
          BY <1>3, <4>1
      <3>3. CASE k # 1
        <4>1. k - 1 \in 1..n /\ k \in 2..n /\ j - 1 = p + 2 + (k - 1)
          BY <1>0, <3>1, <3>3
        <4>2. D[k] = D[k - 1] + 1
          BY <4>1 DEF Run, n
        <4>3. Q[j - 1] = D[k - 1] /\ Q[j] = D[k]
          BY <1>3, <3>1, <4>1
        <4> QED
          BY <1>6, <4>1, <4>2, <4>3
      <3> QED
        BY <3>2, <3>3
    <2> QED
      BY <1>8, <2>0, <2>1, <2>2, <2>3
  <1>13. ASSUME NEW j \in 1..(p + n + 2), Q[j] > 0, NEW i \in 1..(j - 1) PROVE Q[i] < Q[j]
    <2>0. i \in 1..(p + n + 2)
      BY <1>0
    <2>1. CASE j \in 1..p
      <3>1. i \in 1..p /\ j \in 1..Len(P)
        BY <1>0, <1>9, <2>1
      <3>2. Q[i] = P[i] /\ Q[j] = P[j]
        BY <1>3, <1>4, <2>1, <3>1
      <3> QED
        BY <1>5, <1>13, <3>1, <3>2 DEF Ordered
    <2>2. CASE j = p + 1 \/ j = p + 2
      BY <1>3, <1>13, <2>2
    <2>3. CASE \E k \in 1..n : j = p + 2 + k
      <3>1. PICK k \in 1..n : j = p + 2 + k
        BY <2>3
      <3>2. Q[j] = D[k] /\ D[k] > 0 /\ D[k] \in Int
        BY <1>3, <1>6, <3>1 DEF Run, n
      <3>3. CASE i \in 1..p
        BY <1>3, <1>7, <3>2, <3>3
      <3>4. CASE i = p + 1 \/ i = p + 2
        BY <1>3, <3>2, <3>4
      <3>5. CASE \E l \in 1..n : i = p + 2 + l
        <4>1. PICK l \in 1..n : i = p + 2 + l
          BY <3>5
        <4>2. l \in 1..(k - 1)
          BY <1>0, <3>1, <4>1
        <4>3. D[l] < D[k]
          BY <4>2 DEF Run, n
        <4> QED
          BY <1>3, <3>2, <4>1, <4>3
      <3> QED
        BY <1>8, <2>0, <3>3, <3>4, <3>5
    <2> QED
      BY <1>8, <2>1, <2>2, <2>3
  <1>14. Ordered(Q, m)
    BY <1>3, <1>10, <1>11, <1>12, <1>13 DEF Ordered
  <1> QED
    BY <1>14 DEF Q, N

\* D is what is in the first frame of T, R what is behind it.
FirstIs(T, n, D, R) ==
  /\ T # <<>> /\ Length(T[1]) = n /\ n \in 1..MaxFrame /\ n < Len(T)
  /\ D \in Bytes /\ Len(D) = n /\ \A k \in 1..n : D[k] = T[k + 1]
  /\ R \in Bytes /\ Len(R) = Len(T) - n - 1
  /\ \A k \in 1..Len(R) : R[k] = T[n + 1 + k]

\* Bytes of the shell in R are later than everything in Q.
Older(Q, R) == \A j \in 1..Len(R) : R[j] > 0 => \A i \in 1..Len(Q) : Q[i] < R[j]

\* Q and R end where T ended.
Carries(Q, R, T, m) == \A P : UpTo(P, T, m) => UpTo(Q, R, m)

\* The bytes of a frame, once written, stand in front of what is behind it,
\* whatever stands in front of them.
LEMMA FrameJoins ==
  ASSUME NEW T \in Bytes, NEW m \in Nat, MaxFrame \in Nat,
         Framed(T), Consecutive(T, m),
         NEW n, NEW D, NEW R, FirstIs(T, n, D, R),
         NEW Q \in Bytes, Older(Q, R)
  PROVE  Joined(Q \o D, R) /\ Carries(Q \o D, R, T, m)
  <1>0. /\ T # <<>> /\ Length(T[1]) = n /\ n \in 1..MaxFrame /\ n < Len(T)
        /\ D \in Bytes /\ Len(D) = n /\ \A k \in 1..n : D[k] = T[k + 1]
        /\ R \in Bytes /\ Len(R) = Len(T) - n - 1
        /\ \A k \in 1..Len(R) : R[k] = T[n + 1 + k]
    BY DEF FirstIs
  <1>o. \A j \in 1..Len(R) : R[j] > 0 => \A i \in 1..Len(Q) : Q[i] < R[j]
    BY DEF Older
  <1> DEFINE W == Q \o D
             q == Len(Q)
             t == Len(T)
             r == Len(R)
  <1>a. n \in Nat /\ n > 0 /\ n \in 1..n
    BY <1>0
  <1>b. t \in Nat /\ r \in Nat /\ q \in Nat /\ (R # <<>> <=> r > 0)
    BY <1>0, Lengths
  <1>c. r = t - n - 1 /\ \A k \in 1..r : R[k] = T[n + 1 + k]
    BY <1>0
  <1>d. \A k \in 1..n : D[k] = T[k + 1]
    BY <1>0
  <1>e. /\ W \in Bytes /\ Len(W) = q + n
        /\ \A i \in 1..q : W[i] = Q[i]
        /\ \A k \in 1..n : W[q + k] = D[k]
    <2>1. /\ W \in Bytes /\ Len(W) = Len(Q) + Len(D)
          /\ \A i \in 1..Len(Q) : W[i] = Q[i]
          /\ \A k \in 1..Len(D) : W[Len(Q) + k] = D[k]
      BY <1>0, Concat
    <2>2. Len(D) = n
      BY <1>0
    <2> HIDE DEF W
    <2> QED
      BY ONLY <2>1, <2>2
  <1>f. \A j \in 1..r : R[j] > 0 => \A i \in 1..q : Q[i] < R[j]
    BY <1>o DEF q, r
  <1>g. T # <<>> /\ Length(T[1]) = n
    BY <1>0
  <1> HIDE DEF W, q, t, r
  <1>1. t = r + n + 1
    BY ONLY <1>a, <1>b, <1>c
  <1>2. ASSUME r >= 2 PROVE R[2] = W[Len(W)] + 1
    <2>1. n + 1 + 1 \in 1..t /\ n + 1 + 2 \in 3..t /\ (n + 1 + 2) - 1 = n + 1 + 1
          /\ (n + 1 + 2) - 2 = n + 1 /\ 1 \in 1..r /\ 2 \in 1..r /\ 1 \in 1..t
          /\ 1 + n + 1 = n + 1 + 1 /\ 1 + n + 1 <= t
      BY ONLY <1>a, <1>b, <1>1, <1>2
    <2>2. IsHeader(T[1])
      BY <1>g DEF Framed
    <2>3. IsHeader(T[1 + n + 1])
      BY <1>g, <2>1, <2>2 DEF Framed, t
    <2>4. T[n + 1 + 2] = T[n + 1] + 1
      BY <2>1, <2>3 DEF Consecutive, t
    <2>5. R[2] = T[n + 1 + 2]
      BY ONLY <1>c, <2>1
    <2>6. W[q + n] = T[n + 1]
      BY ONLY <1>a, <1>d, <1>e
    <2> QED
      BY <1>e, <2>4, <2>5, <2>6
  <1>3. ASSUME NEW j \in 1..r, R[j] > 0, NEW i \in 1..(q + n) PROVE W[i] < R[j]
    <2>1. CASE i \in 1..q
      BY ONLY <1>e, <1>f, <1>3, <2>1
    <2>2. CASE i \notin 1..q
      <3> DEFINE k == i - q
      <3>1. k \in 1..n /\ i = q + k /\ k + 1 \in 1..((n + 1 + j) - 1) /\ n + 1 + j \in 1..t
        BY ONLY <1>a, <1>b, <1>1, <2>2, j \in 1..r, i \in 1..(q + n)
      <3> HIDE DEF k
      <3>2. W[i] = T[k + 1] /\ R[j] = T[n + 1 + j]
        BY ONLY <1>c, <1>d, <1>e, <3>1, j \in 1..r
      <3>3. T[k + 1] < T[n + 1 + j]
        BY <1>3, <3>1, <3>2 DEF Consecutive, t
      <3> QED
        BY <3>2, <3>3
    <2> QED
      BY <2>1, <2>2
  <1>4. Joined(W, R)
    BY <1>2, <1>3, <1>e DEF Joined, r
  <1>5. ASSUME NEW P, UpTo(P, T, m) PROVE UpTo(W, R, m)
    <2>1. Whole(R)
      <3>1. Whole(T)
        BY <1>5 DEF UpTo
      <3> QED
        BY ONLY <1>0, <3>1, T \in Bytes, m \in Nat, MaxFrame \in Nat, Framed(T),
                Consecutive(T, m), FrameBehind
    <2>2. T[t] = m
      BY <1>5, <1>g DEF UpTo, t
    <2>3. ASSUME R # <<>> PROVE R[r] = m
      <3>1. r \in 1..r /\ n + 1 + r = t
        BY ONLY <1>a, <1>b, <1>1, <2>3
      <3>2. R[r] = T[n + 1 + r]
        BY ONLY <1>c, <3>1
      <3> QED
        BY <2>2, <3>1, <3>2
    <2>4. ASSUME R = <<>> PROVE W[Len(W)] = m
      <3>1. t = n + 1
        BY ONLY <1>a, <1>b, <1>1, <2>4
      <3>2. W[q + n] = T[n + 1]
        BY ONLY <1>a, <1>d, <1>e
      <3> QED
        BY <1>e, <2>2, <3>1, <3>2
    <2> QED
      BY <2>1, <2>3, <2>4 DEF UpTo, r
  <1> QED
    BY <1>4, <1>5 DEF W, Carries

-----------------------------------------------------------------------------
(* The invariant.                                                          *)

\* What the variables of the output path hold.
TypesInv ==
  /\ printed \in Nat /\ replay \in Replays /\ queue \in Queues /\ output \in Queues
  /\ wire \in Bytes /\ incoming \in Bytes /\ shown \in Bytes
  /\ link \in {"new", "asked", "attached", "closed"}
  /\ pc = "start" => link = "new"

\* Nothing is on the way before the client is attached.
Quiet ==
  link \in {"new", "asked"} =>
    /\ queue = EmptyQueue /\ output = EmptyQueue
    /\ wire = <<>> /\ incoming = <<>> /\ shown = <<>>

\* What is written and what comes.
Flow ==
  /\ Ordered(Written, printed) /\ Framed(Coming) /\ Consecutive(Coming, printed)
  /\ Joined(Written, Coming)
  /\ link = "attached" => UpTo(Written, Coming, printed)

\* The inductive invariant.  NoSilentGap alone is not inductive: it says nothing
\* of headers, on which the parser relies, nor of where the stream ends, on which
\* the next frame builds.
IInv == TypesInv /\ Quiet /\ BuffersExact /\ Flow

\* The constants are numbers, and a frame and the notice fit into the buffers.
LEMMA Limits ==
  /\ {Total, MaxChunk, ReplayLimit, ClientLimit, AttachLimit, SocketRoom} \subseteq Nat
  /\ MaxFrame \in Nat /\ ReplayLimit <= MaxFrame /\ MaxChunk <= MaxFrame
  /\ ReplayLimit + 1 <= ClientLimit /\ MaxFrame + 2 <= AttachLimit
  BY LimitsAssumption DEF MaxFrame, Notice

\* Everything on the way is a sequence of bytes.
LEMMA Parts ==
  ASSUME TypesInv, BuffersExact
  PROVE  /\ Content(queue) \in Bytes /\ Content(output) \in Bytes
         /\ Written \in Bytes /\ Coming \in Bytes /\ incoming \o wire \in Bytes
  <1>1. Content(queue) \in Bytes /\ Content(output) \in Bytes
    BY ContentIs, Limits DEF TypesInv, BuffersExact
  <1>2. incoming \o wire \in Bytes
    BY Concat DEF TypesInv
  <1>3. shown \in Bytes
    BY DEF TypesInv
  <1> QED
    BY <1>1, <1>2, <1>3, Concat DEF Written, Coming

\* Nothing is on the way before the broker has attached the client.
LEMMA NothingYet ==
  ASSUME TypesInv, BuffersExact, Quiet, link \in {"new", "asked"}
  PROVE  Written = <<>> /\ Coming = <<>>
  <1>1. Content(queue) = <<>> /\ Content(output) = <<>>
    BY EmptyQueueFine, Limits DEF Quiet
  <1>2. <<>> \o <<>> = <<>>
    OBVIOUS
  <1> QED
    BY <1>1, <1>2 DEF Quiet, Written, Coming

\* The conditions on the stream hold when it is empty.
LEMMA NothingFlows ==
  ASSUME NEW m \in Nat
  PROVE  /\ Ordered(<<>>, m) /\ Framed(<<>>) /\ Consecutive(<<>>, m)
         /\ Joined(<<>>, <<>>) /\ UpTo(<<>>, <<>>, m)
  BY DEF Ordered, Framed, Consecutive, Joined, UpTo, Whole

\* They keep holding when the shell prints more.
LEMMA Later ==
  ASSUME NEW P \in Bytes, NEW T \in Bytes, NEW m \in Nat, NEW n \in Nat, m <= n
  PROVE  /\ Ordered(P, m) => Ordered(P, n)
         /\ Consecutive(T, m) => Consecutive(T, n)
  <1>1. /\ \A i \in 1..Len(P) : P[i] \in Int
        /\ \A i \in 1..Len(T) : T[i] \in Int
    BY Elements
  <1>2. /\ \A i \in 1..Len(P) : P[i] <= m => P[i] <= n
        /\ \A i \in 1..Len(T) : T[i] <= m => T[i] <= n
    BY <1>1
  <1> QED
    BY <1>2 DEF Ordered, Consecutive

\* The initial state satisfies the invariant.
LEMMA InitInv ==
  ASSUME Init
  PROVE  IInv
  <1>1. EmptyQueue \in Queues /\ QueueWellFormed(EmptyQueue, ClientLimit)
        /\ QueueWellFormed(EmptyQueue, AttachLimit)
    BY EmptyQueueFine, Limits
  <1>2. EmptyReplay \in Replays /\ <<>> \in Bytes
    BY DEF EmptyReplay, Replays, Bytes
  <1>3. TypesInv /\ Quiet
    BY <1>1, <1>2 DEF Init, TypesInv, Quiet
  <1>4. BuffersExact
    <2>1. Snapshot(replay) = <<>> /\ replay.size = 0
      BY FlattenEmpty DEF Init, EmptyReplay, Snapshot
    <2>2. (IF printed < ReplayLimit THEN printed ELSE ReplayLimit) = 0
      BY Limits DEF Init
    <2>3. [i \in 1..0 |-> printed - 0 + i] = <<>>
      OBVIOUS
    <2> QED
      BY <1>1, <2>1, <2>2, <2>3 DEF Init, BuffersExact
  <1>5. Flow
    BY <1>3, <1>4, NothingYet, NothingFlows DEF Flow, Init
  <1> QED
    BY <1>3, <1>4, <1>5 DEF IInv

\* The bytes from m + 1 to m + n.
LEMMA ChunkIs ==
  ASSUME NEW m \in Int, NEW n \in Nat, NEW data, data = [i \in 1..n |-> m + i]
  PROVE  data \in Bytes /\ Len(data) = n /\ \A i \in 1..n : data[i] = m + i
  <1>1. \A i \in 1..n : m + i \in Int
    OBVIOUS
  <1>2. data \in Seq(Int)
    BY <1>1, IsASeq
  <1> QED
    BY <1>2 DEF Bytes

\* _read_pty keeps the replay the latest output.
LEMMA ReplayExact ==
  ASSUME TypesInv, BuffersExact, NEW n \in 1..MaxChunk, NEW data,
         data = [i \in 1..n |-> printed + i],
         replay' = Remember(replay, data, ReplayLimit), printed' = printed + n
  PROVE  /\ replay' \in Replays
         /\ replay'.size = Len(Snapshot(replay'))
         /\ Snapshot(replay') =
              LET k == IF printed' < ReplayLimit THEN printed' ELSE ReplayLimit
              IN  [i \in 1..k |-> printed' - k + i]
  <1> DEFINE lim == ReplayLimit
             k0 == IF printed < lim THEN printed ELSE lim
             k == IF printed' < lim THEN printed' ELSE lim
             s == Snapshot(replay)
             all == s \o data
             z == [i \in 1..k |-> (printed' - k) + i]
  <1>1. lim \in Nat /\ printed \in Nat /\ n \in Nat /\ n > 0 /\ printed' = printed + n
    BY Limits DEF TypesInv
  <1>2. k0 \in Nat /\ k \in Nat /\ k0 <= lim /\ k <= lim /\ k0 <= printed /\ k <= printed'
    BY ONLY <1>1
  <1>3. s = [i \in 1..k0 |-> (printed - k0) + i] /\ replay.size = Len(s) /\ replay \in Replays
    BY DEF BuffersExact, TypesInv
  <1>4. s \in Bytes /\ Len(s) = k0 /\ \A i \in 1..k0 : s[i] = (printed - k0) + i
    <2>1. printed - k0 \in Int
      BY <1>1, <1>2
    <2> HIDE DEF s, k0
    <2> QED
      BY <1>2, <1>3, <2>1, ChunkIs
  <1>5. data \in Bytes /\ Len(data) = n /\ \A i \in 1..n : data[i] = printed + i
    BY <1>1, ChunkIs
  <1>6. z \in Bytes /\ Len(z) = k /\ \A i \in 1..k : z[i] = (printed' - k) + i
    <2>1. printed' - k \in Int
      BY <1>1, <1>2
    <2> HIDE DEF k
    <2> QED
      BY <1>2, <2>1, ChunkIs
  <1> HIDE DEF s, k0, k, z, lim
  <1>7. /\ all \in Bytes /\ Len(all) = k0 + n
        /\ \A i \in 1..(k0 + n) : all[i] = (printed - k0) + i
    <2>1. /\ all \in Bytes /\ Len(all) = Len(s) + Len(data)
          /\ \A i \in 1..Len(s) : all[i] = s[i]
          /\ \A i \in 1..Len(data) : all[Len(s) + i] = data[i]
      BY <1>4, <1>5, Concat
    <2> HIDE DEF all
    <2>2. ASSUME NEW i \in 1..(k0 + n) PROVE all[i] = (printed - k0) + i
      <3>1. CASE i \in 1..k0
        BY <1>4, <2>1, <3>1
      <3>2. CASE i \notin 1..k0
        <4> DEFINE j == i - k0
        <4>1. j \in 1..n /\ i = k0 + j /\ (printed - k0) + i = printed + j
          BY ONLY <1>1, <1>2, <3>2, i \in 1..(k0 + n)
        <4> HIDE DEF j
        <4>2. all[k0 + j] = data[j]
          BY <1>4, <1>5, <2>1, <4>1
        <4> QED
          BY <1>5, <4>1, <4>2
      <3> QED
        BY <3>1, <3>2
    <2> QED
      BY <1>4, <1>5, <2>1, <2>2
  <1> HIDE DEF all
  <1>8. Ending(all, lim) = z
    <2>1. CASE k0 + n <= lim
      <3>1. printed = k0 /\ k = k0 + n /\ printed' = k
        BY ONLY <1>1, <1>2, <2>1 DEF k, k0
      <3>2. Ending(all, lim) = all
        BY <1>7, <2>1 DEF Ending
      <3>3. \A i \in 1..k : all[i] = z[i]
        BY <1>1, <1>2, <1>6, <1>7, <3>1
      <3> QED
        BY <1>6, <1>7, <3>1, <3>2, <3>3, Same
    <2>2. CASE ~(k0 + n <= lim)
      <3> DEFINE c == (k0 + n) - lim
                 x == SubSeq(all, c + 1, Len(all))
      <3>1. k = lim /\ c \in 0..(k0 + n) /\ (k0 + n) - c = lim
        BY ONLY <1>1, <1>2, <2>2 DEF k, k0
      <3>2. Ending(all, lim) = x
        BY <1>7, <2>2 DEF Ending, Latest
      <3> HIDE DEF c
      <3>3. x \in Bytes /\ Len(x) = lim /\ \A i \in 1..lim : x[i] = all[c + i]
        <4>1. /\ x \in Bytes /\ Len(x) = Len(all) - c
              /\ \A i \in 1..(Len(all) - c) : x[i] = all[c + i]
          BY <1>7, <3>1, Rest
        <4> QED
          BY <1>7, <3>1, <4>1
      <3> HIDE DEF x
      <3>4. ASSUME NEW i \in 1..lim PROVE x[i] = z[i]
        <4>1. c + i \in 1..(k0 + n) /\ (printed - k0) + (c + i) = (printed' - k) + i
          BY ONLY <1>1, <1>2, <3>1, i \in 1..lim DEF c
        <4>2. all[c + i] = (printed - k0) + (c + i)
          BY <1>7, <4>1
        <4> QED
          BY <1>6, <3>1, <3>3, <4>1, <4>2
      <3> QED
        BY <1>6, <3>1, <3>2, <3>3, <3>4, Same
    <2> QED
      BY <2>1, <2>2
  <1>9. /\ replay' \in Replays /\ replay'.size = Len(Snapshot(replay'))
        /\ Snapshot(replay') = Ending(all, lim)
    <2>1. replay.size <= lim
      BY <1>2, <1>3, <1>4
    <2> QED
      BY <1>1, <1>3, <1>5, <2>1, RememberEffect DEF s, all, lim
  <1> QED
    BY <1>8, <1>9 DEF z, k, lim

-----------------------------------------------------------------------------
(* The steps.                                                              *)

\* The variables that hold bytes.
Buffers == <<printed, replay, queue, wire, incoming, output, shown>>

\* Steps that move no byte preserve the invariant.
LEMMA NothingMoves ==
  ASSUME IInv, UNCHANGED Buffers, pc' = "start" => link' = "new",
         link' \in {"new", "asked", "attached", "closed"},
         link' \in {"new", "asked"} => link \in {"new", "asked"},
         link' = "attached" => link = "attached"
  PROVE  IInv'
  <1>1. TypesInv'
    BY DEF IInv, TypesInv, Buffers
  <1>2. Quiet'
    BY DEF IInv, Quiet, Buffers
  <1>3. BuffersExact'
    BY DEF IInv, BuffersExact, Buffers
  <1>4. Flow'
    BY DEF IInv, Flow, Written, Coming, Buffers
  <1> QED
    BY <1>1, <1>2, <1>3, <1>4 DEF IInv

\* The broker queues a frame for the client.
LEMMA FrameQueued ==
  ASSUME IInv, link' = "attached", NEW m \in Nat, NEW D \in Bytes,
         Len(D) \in 1..MaxFrame, \A k \in 1..Len(D) : D[k] = m + k,
         Ordered(Written, m), Consecutive(Coming, m), UpTo(Written, Coming, m),
         Fits(queue, Frame(D), ClientLimit), queue' = Enqueue(queue, Frame(D)),
         printed' = m + Len(D), UNCHANGED <<wire, incoming, output, shown>>
  PROVE  /\ queue' \in Queues /\ QueueWellFormed(queue', ClientLimit)
         /\ Flow'
  <1>1. Frame(D) \in Bytes
    BY Lengths, Concat DEF Frame, Header, Bytes
  <1>2. /\ queue' \in Queues /\ QueueWellFormed(queue', ClientLimit)
        /\ Content(queue') = Content(queue) \o Frame(D)
    BY <1>1, EnqueueEffect, Limits DEF IInv, TypesInv, BuffersExact
  <1>3. /\ Content(queue) \in Bytes /\ Written \in Bytes /\ Coming \in Bytes
        /\ incoming \o wire \in Bytes
    BY Parts DEF IInv
  <1>4. Coming' = Coming \o Frame(D)
    <2> DEFINE a == incoming \o wire
               b == Content(queue)
               c == Frame(D)
    <2>1. a \in Seq(Int) /\ b \in Seq(Int) /\ c \in Seq(Int)
      BY <1>1, <1>3 DEF Bytes
    <2>2. Coming' = a \o (b \o c) /\ Coming = a \o b
      BY <1>2 DEF Coming
    <2> HIDE DEF a, b, c
    <2>3. (a \o b) \o c = a \o (b \o c)
      BY ONLY <2>1, Assoc
    <2> QED
      BY <2>2, <2>3 DEF c
  <1>5. Written' = Written
    BY DEF Written
  <1>6. Framed(Coming) /\ Joined(Written, Coming)
    BY DEF IInv, Flow
  <1> DEFINE T == Coming
             P == Written
  <1> HIDE DEF T, P
  <1>7. /\ Framed(T \o Frame(D)) /\ Consecutive(T \o Frame(D), m + Len(D))
        /\ Joined(P, T \o Frame(D)) /\ Ordered(P, m + Len(D))
        /\ UpTo(P, T \o Frame(D), m + Len(D))
    BY <1>3, <1>6, FrameAdded, Limits DEF T, P
  <1>8. Coming' = T \o Frame(D) /\ Written' = P
    BY <1>4, <1>5 DEF T, P
  <1>9. Flow'
    BY <1>7, <1>8 DEF Flow
  <1> QED
    BY <1>2, <1>9

\* The broker lets go of the client.
LEMMA QueueCleared ==
  ASSUME IInv, queue' = EmptyQueue, link' = "closed", printed \in Nat, printed' \in Nat,
         printed <= printed', UNCHANGED <<wire, incoming, output, shown>>
  PROVE  /\ queue' \in Queues /\ QueueWellFormed(queue', ClientLimit)
         /\ Flow'
  <1>1. queue' \in Queues /\ QueueWellFormed(queue', ClientLimit) /\ Content(queue') = <<>>
    BY EmptyQueueFine, Limits
  <1>2. /\ Content(queue) \in Bytes /\ Written \in Bytes /\ Coming \in Bytes
        /\ incoming \o wire \in Bytes
    BY Parts DEF IInv
  <1>3. Coming' = incoming \o wire
    <2>1. (incoming \o wire) \o <<>> = incoming \o wire
      BY <1>2 DEF Bytes
    <2> QED
      BY <1>1, <2>1 DEF Coming
  <1>4. Written' = Written
    BY DEF Written
  <1>5. Ordered(Written, printed) /\ Framed(Coming) /\ Consecutive(Coming, printed)
        /\ Joined(Written, Coming)
    BY DEF IInv, Flow
  <1> DEFINE A == incoming \o wire
             B == Content(queue)
             P == Written
  <1>6. /\ A \in Bytes /\ B \in Bytes /\ P \in Bytes
        /\ Framed(A \o B) /\ Consecutive(A \o B, printed) /\ Joined(P, A \o B) /\ Ordered(P, printed)
    BY <1>2, <1>5 DEF Coming
  <1>7. Coming' = A /\ Written' = P
    BY <1>3, <1>4
  <1> HIDE DEF A, B, P
  <1>8. Framed(A) /\ Consecutive(A, printed) /\ Joined(P, A)
    BY <1>6, Cut
  <1>9. Ordered(P, printed') /\ Consecutive(A, printed')
    BY <1>6, <1>8, Later
  <1>10. Flow'
    BY <1>7, <1>8, <1>9 DEF Flow
  <1> QED
    BY <1>1, <1>10

\* _read_pty.
LEMMA ReadPtyInv ==
  ASSUME IInv, NEW n \in 1..MaxChunk, ReadPty(n)
  PROVE  IInv'
  <1> DEFINE data == [i \in 1..n |-> printed + i]
  <1>1. /\ printed \in Nat /\ n \in Nat /\ printed' = printed + n /\ printed' \in Nat
        /\ printed <= printed' /\ MaxChunk \in Nat /\ MaxChunk <= MaxFrame /\ MaxFrame \in Nat
    BY Limits DEF IInv, TypesInv, ReadPty
  <1>2. /\ replay' = Remember(replay, data, ReplayLimit)
        /\ UNCHANGED <<wire, incoming, output, shown, pc>>
        /\ IF link = "attached" THEN Queue(data) ELSE UNCHANGED <<queue, link>>
    BY DEF ReadPty, output_side
  <1>3. data \in Bytes /\ Len(data) = n /\ \A i \in 1..n : data[i] = printed + i
    BY <1>1, ChunkIs
  <1>4. /\ replay' \in Replays
        /\ replay'.size = Len(Snapshot(replay'))
        /\ Snapshot(replay') =
             LET k == IF printed' < ReplayLimit THEN printed' ELSE ReplayLimit
             IN  [i \in 1..k |-> printed' - k + i]
    BY <1>1, <1>2, ReplayExact DEF IInv
  <1> HIDE DEF data
  <1>5. /\ queue' \in Queues /\ QueueWellFormed(queue', ClientLimit) /\ Flow' /\ Quiet'
        /\ link' \in {"new", "asked", "attached", "closed"} /\ (pc' = "start" => link' = "new")
    <2>1. CASE link # "attached"
      <3>1. UNCHANGED <<queue, link>>
        BY <1>2, <2>1
      <3>2. queue' \in Queues /\ QueueWellFormed(queue', ClientLimit) /\ Quiet'
        BY <1>2, <3>1 DEF IInv, TypesInv, BuffersExact, Quiet
      <3>3. Written' = Written /\ Coming' = Coming
        BY <1>2, <3>1 DEF Written, Coming
      <3>4. Written \in Bytes /\ Coming \in Bytes
        BY Parts DEF IInv
      <3>5. Ordered(Written, printed') /\ Consecutive(Coming, printed')
        BY <1>1, <3>4, Later DEF IInv, Flow
      <3>6. Flow'
        BY <2>1, <3>1, <3>3, <3>5 DEF IInv, Flow
      <3> QED
        BY <1>2, <3>1, <3>2, <3>6 DEF IInv, TypesInv
    <2>2. CASE link = "attached" /\ Fits(queue, Frame(data), ClientLimit)
      <3>1. queue' = Enqueue(queue, Frame(data)) /\ link' = link
        BY <1>2, <2>2 DEF Queue
      <3>2. /\ Ordered(Written, printed) /\ Consecutive(Coming, printed)
            /\ UpTo(Written, Coming, printed)
        BY <2>2 DEF IInv, Flow
      <3>3. Len(data) \in 1..MaxFrame
        BY <1>1, <1>3
      <3>4. queue' \in Queues /\ QueueWellFormed(queue', ClientLimit) /\ Flow'
        BY <1>1, <1>2, <1>3, <2>2, <3>1, <3>2, <3>3, FrameQueued
      <3> QED
        BY <1>2, <2>2, <3>1, <3>4 DEF IInv, TypesInv, Quiet
    <2>3. CASE link = "attached" /\ ~Fits(queue, Frame(data), ClientLimit)
      <3>1. queue' = EmptyQueue /\ link' = "closed"
        BY <1>2, <2>3 DEF Queue
      <3>2. queue' \in Queues /\ QueueWellFormed(queue', ClientLimit) /\ Flow'
        BY <1>1, <1>2, <3>1, QueueCleared
      <3> QED
        BY <1>2, <2>3, <3>1, <3>2 DEF IInv, TypesInv, Quiet
    <2> QED
      BY <2>1, <2>2, <2>3
  <1>6. TypesInv'
    BY <1>1, <1>2, <1>4, <1>5 DEF IInv, TypesInv
  <1>7. BuffersExact'
    BY <1>2, <1>4, <1>5 DEF IInv, BuffersExact
  <1> QED
    BY <1>5, <1>6, <1>7 DEF IInv

\* The attach request: the replay is the first frame.
LEMMA AttachInv ==
  ASSUME IInv, Attach
  PROVE  IInv'
  <1> DEFINE s == Snapshot(replay)
             k == IF printed < ReplayLimit THEN printed ELSE ReplayLimit
  <1>1. /\ printed \in Nat /\ ReplayLimit \in Nat /\ k \in Nat /\ k <= ReplayLimit /\ k <= printed
        /\ MaxFrame \in Nat /\ ReplayLimit <= MaxFrame
        /\ ReplayLimit + 1 <= ClientLimit /\ ClientLimit \in Nat
    BY Limits DEF IInv, TypesInv
  <1>2. /\ link = "asked" /\ link' = "attached"
        /\ queue' = IF s = <<>> THEN queue ELSE Enqueue(queue, Frame(s))
        /\ UNCHANGED <<printed, replay, wire, incoming, output, shown, pc>>
    BY DEF Attach, output_side
  <1>3. s = [i \in 1..k |-> (printed - k) + i]
    BY DEF IInv, BuffersExact
  <1>4. Written = <<>> /\ Coming = <<>> /\ queue = EmptyQueue
    BY <1>2, NothingYet DEF IInv, Quiet
  <1>5. s \in Bytes /\ Len(s) = k /\ \A i \in 1..k : s[i] = (printed - k) + i
    <2>1. printed - k \in Int
      BY <1>1
    <2> HIDE DEF s, k
    <2> QED
      BY <1>1, <1>3, <2>1, ChunkIs
  <1> HIDE DEF s, k
  <1>6. CASE s = <<>>
    <2>1. queue' = queue
      BY <1>2, <1>6
    <2>2. Written' = <<>> /\ Coming' = <<>>
      BY <1>2, <1>4, <2>1 DEF Written, Coming
    <2>3. Flow'
      <3>1. printed' \in Nat
        BY <1>1, <1>2
      <3> QED
        BY <2>2, <3>1, NothingFlows DEF Flow
    <2> QED
      BY <1>2, <2>1, <2>3 DEF IInv, TypesInv, Quiet, BuffersExact
  <1>7. CASE s # <<>>
    <2>1. queue' = Enqueue(queue, Frame(s))
      BY <1>2, <1>7
    <2> DEFINE m == printed - k
    <2>2. k > 0
      BY <1>1, <1>5, <1>7, Lengths
    <2>3. m \in Nat /\ Len(s) \in 1..MaxFrame /\ printed' = m + Len(s)
      BY <1>1, <1>2, <1>5, <2>2
    <2>4. Fits(queue, Frame(s), ClientLimit)
      <3>1. Len(Frame(s)) = k + 1
        BY <1>1, <1>5 DEF Frame, Header, Bytes
      <3> QED
        BY <1>1, <1>4, <3>1 DEF Fits, EmptyQueue
    <2>5. /\ Ordered(Written, m) /\ Consecutive(Coming, m) /\ UpTo(Written, Coming, m)
      BY <1>4, <2>3, NothingFlows
    <2>6. \A i \in 1..Len(s) : s[i] = m + i
      BY <1>5
    <2> HIDE DEF m
    <2>7. queue' \in Queues /\ QueueWellFormed(queue', ClientLimit) /\ Flow'
      BY <1>2, <1>5, <2>1, <2>3, <2>4, <2>5, <2>6, FrameQueued
    <2> QED
      BY <1>2, <2>7 DEF IInv, TypesInv, Quiet, BuffersExact
  <1> QED
    BY <1>6, <1>7

\* _write_client.
LEMMA WriteClientInv ==
  ASSUME IInv, NEW n \in 1..SocketRoom, WriteClient(n)
  PROVE  IInv'
  <1> DEFINE a == SubSeq(Peek(queue), 1, n)
  <1>1. /\ link = "attached" /\ n <= Len(Peek(queue)) /\ n \in Nat \ {0}
        /\ wire' = wire \o a /\ queue' = Consume(queue, n)
        /\ UNCHANGED <<printed, replay, link, pc, incoming, output, shown>>
    BY Limits DEF WriteClient, output_side
  <1>2. queue \in Queues /\ QueueWellFormed(queue, ClientLimit) /\ ClientLimit \in Nat
        /\ incoming \in Bytes /\ wire \in Bytes
    BY Limits DEF IInv, TypesInv, BuffersExact
  <1>3. /\ queue' \in Queues /\ QueueWellFormed(queue', ClientLimit)
        /\ a \in Bytes /\ Content(queue) = a \o Content(queue')
    BY <1>1, <1>2, ConsumeEffect
  <1> HIDE DEF a
  <1>4. Content(queue') \in Bytes
    BY <1>2, <1>3, ContentIs
  <1>5. wire' \in Bytes
    BY <1>1, <1>2, <1>3, Concat
  <1>6. Coming' = Coming
    <2> DEFINE c == Content(queue')
    <2>1. Coming = (incoming \o wire) \o (a \o c) /\ Coming' = (incoming \o (wire \o a)) \o c
      BY <1>1, <1>3 DEF Coming
    <2>2. incoming \in Bytes /\ wire \in Bytes /\ a \in Bytes /\ c \in Bytes
      BY <1>2, <1>3, <1>4
    <2> HIDE DEF c
    <2>3. (incoming \o (wire \o a)) \o c = (incoming \o wire) \o (a \o c)
      <3>1. Cat(Cat(incoming, Cat(wire, a)), c) = Cat(Cat(incoming, wire), Cat(a, c))
        BY ONLY <2>2, Regroup
      <3> QED
        BY <3>1 DEF Cat
    <2> QED
      BY <2>1, <2>3
  <1>7. Written' = Written
    BY <1>1 DEF Written
  <1>8. Flow'
    BY <1>1, <1>6, <1>7 DEF IInv, Flow
  <1> QED
    BY <1>1, <1>3, <1>5, <1>8 DEF IInv, TypesInv, Quiet, BuffersExact

\* The broker refuses the client, or ends.
LEMMA CloseClientInv ==
  ASSUME IInv, CloseClient
  PROVE  IInv'
  <1>1. /\ queue' = EmptyQueue /\ link' = "closed" /\ link \in {"asked", "attached"}
        /\ UNCHANGED <<printed, replay, wire, pc, incoming, output, shown>>
    BY DEF CloseClient, output_side
  <1>2. printed \in Nat /\ printed' \in Nat /\ printed <= printed'
    BY <1>1 DEF IInv, TypesInv
  <1>3. queue' \in Queues /\ QueueWellFormed(queue', ClientLimit) /\ Flow'
    BY <1>1, <1>2, QueueCleared
  <1> QED
    BY <1>1, <1>3 DEF IInv, TypesInv, Quiet, BuffersExact

\* The client receives.
LEMMA ReceiveInv ==
  ASSUME IInv, NEW n \in 1..SocketRoom, Receive(n)
  PROVE  IInv'
  <1> DEFINE a == SubSeq(wire, 1, n)
             b == SubSeq(wire, n + 1, Len(wire))
  <1>1. /\ n <= Len(wire) /\ n \in Nat \ {0} /\ incoming' = incoming \o a /\ wire' = b
        /\ pc = "loop" /\ pc' = "parse"
        /\ UNCHANGED <<printed, replay, queue, link, output, shown>>
    BY Limits DEF Receive, output_side, broker
  <1>2. incoming \in Bytes /\ wire \in Bytes /\ Content(queue) \in Bytes
    BY Parts DEF IInv, TypesInv
  <1>3. a \in Bytes /\ b \in Bytes /\ wire = a \o b
    <2>1. n \in 0..Len(wire)
      BY <1>1, <1>2, Lengths
    <2> QED
      BY <1>2, <2>1, Rest, Split
  <1> HIDE DEF a, b
  <1>4. incoming' \in Bytes /\ wire' \in Bytes
    BY <1>1, <1>2, <1>3, Concat
  <1>5. Coming' = Coming
    <2> DEFINE c == Content(queue)
    <2>1. Coming = (incoming \o (a \o b)) \o c /\ Coming' = ((incoming \o a) \o b) \o c
      BY <1>1, <1>3 DEF Coming
    <2>2. incoming \in Seq(Int) /\ a \in Seq(Int) /\ b \in Seq(Int)
      BY <1>2, <1>3 DEF Bytes
    <2> HIDE DEF c
    <2>3. (incoming \o a) \o b = incoming \o (a \o b)
      BY ONLY <2>2, Assoc
    <2> QED
      BY <2>1, <2>3
  <1>6. Written' = Written
    BY <1>1 DEF Written
  <1>7. link \notin {"new", "asked"}
    <2> SUFFICES ASSUME link \in {"new", "asked"} PROVE FALSE
      OBVIOUS
    <2>1. wire = <<>>
      BY DEF IInv, Quiet
    <2> QED
      BY <1>1, <2>1
  <1>8. Flow'
    BY <1>1, <1>5, <1>6 DEF IInv, Flow
  <1> QED
    BY <1>1, <1>4, <1>7, <1>8 DEF IInv, TypesInv, Quiet, BuffersExact

\* The client writes to the tab.
LEMMA WriteStdoutInv ==
  ASSUME IInv, NEW n \in 1..AttachLimit, WriteStdout(n)
  PROVE  IInv'
  <1> DEFINE a == SubSeq(Peek(output), 1, n)
  <1>1. /\ n <= Len(Peek(output)) /\ n \in Nat \ {0}
        /\ shown' = shown \o a /\ output' = Consume(output, n)
        /\ UNCHANGED <<printed, replay, queue, link, pc, incoming, wire>>
    BY Limits DEF WriteStdout, broker
  <1>2. output \in Queues /\ QueueWellFormed(output, AttachLimit) /\ AttachLimit \in Nat
        /\ shown \in Bytes
    BY Limits DEF IInv, TypesInv, BuffersExact
  <1>3. /\ output' \in Queues /\ QueueWellFormed(output', AttachLimit)
        /\ a \in Bytes /\ Content(output) = a \o Content(output')
    BY <1>1, <1>2, ConsumeEffect
  <1> HIDE DEF a
  <1>4. Content(output') \in Bytes
    BY <1>2, <1>3, ContentIs
  <1>5. shown' \in Bytes
    BY <1>1, <1>2, <1>3, Concat
  <1>6. Written' = Written
    <2> DEFINE c == Content(output')
    <2>1. Written = shown \o (a \o c) /\ Written' = (shown \o a) \o c
      BY <1>1, <1>3 DEF Written
    <2>2. shown \in Seq(Int) /\ a \in Seq(Int) /\ c \in Seq(Int)
      BY <1>2, <1>3, <1>4 DEF Bytes
    <2> HIDE DEF c
    <2>3. (shown \o a) \o c = shown \o (a \o c)
      BY ONLY <2>2, Assoc
    <2> QED
      BY <2>1, <2>3
  <1>7. Coming' = Coming
    BY <1>1 DEF Coming
  <1>8. link \notin {"new", "asked"}
    <2> SUFFICES ASSUME link \in {"new", "asked"} PROVE FALSE
      OBVIOUS
    <2>1. Peek(output) = <<>>
      BY DEF IInv, Quiet, Peek, EmptyQueue
    <2> QED
      BY <1>1, <2>1
  <1>9. Flow'
    BY <1>1, <1>6, <1>7 DEF IInv, Flow
  <1> QED
    BY <1>1, <1>3, <1>5, <1>8, <1>9 DEF IInv, TypesInv, Quiet, BuffersExact

\* What the parsing loop takes from the front of what comes.
LEMMA Parsing ==
  ASSUME IInv, Parse, NEW n, n = Length(Head(incoming)),
         NEW D, D = SubSeq(incoming, 2, n + 1)
  PROVE  /\ n \in 1..MaxFrame /\ D \in Bytes /\ Len(D) = n /\ Run(D, printed)
         /\ incoming' \in Bytes /\ Coming' \in Bytes
         /\ Coming # <<>> /\ Length(Coming[1]) = n /\ n < Len(Coming)
         /\ \A k \in 1..n : D[k] = Coming[k + 1]
         /\ Len(Coming') = Len(Coming) - n - 1
         /\ \A k \in 1..Len(Coming') : Coming'[k] = Coming[n + 1 + k]
  <1> DEFINE x == wire \o Content(queue)
             T == Coming
             R == SubSeq(T, n + 2, Len(T))
  <1>1. /\ incoming # <<>> /\ Len(incoming) > n
        /\ incoming' = SubSeq(incoming, n + 2, Len(incoming))
        /\ UNCHANGED <<wire, queue>>
    BY DEF Parse, HasFrame, broker
  <1>2. incoming \in Bytes /\ wire \in Bytes /\ Content(queue) \in Bytes /\ Coming \in Bytes
    BY Parts DEF IInv, TypesInv
  <1>3. x \in Bytes
    BY <1>2, Concat
  <1>4. T = incoming \o x
    <2> DEFINE c == Content(queue)
    <2> HIDE DEF c
    <2>1. Cat(Cat(incoming, wire), c) = Cat(incoming, Cat(wire, c))
      BY <1>2, CatAssoc DEF c
    <2>2. (incoming \o wire) \o c = incoming \o (wire \o c)
      BY <2>1 DEF Cat
    <2> QED
      BY <2>2 DEF Coming, c
  <1> HIDE DEF x
  <1>5. Len(incoming) \in Nat /\ Len(incoming) > 0 /\ Len(x) \in Nat
    BY <1>1, <1>2, <1>3, Lengths
  <1>6. /\ T \in Bytes /\ Len(T) = Len(incoming) + Len(x)
        /\ \A i \in 1..Len(incoming) : T[i] = incoming[i]
    <2> HIDE DEF T
    <2> QED
      BY <1>2, <1>3, <1>4, Concat
  <1> HIDE DEF T
  <1>7. T # <<>> /\ n = Length(T[1]) /\ n < Len(T)
    <2>1. T[1] = Head(incoming)
      BY <1>5, <1>6
    <2>2. Length(T[1]) \in Int
      <3>1. 1 \in 1..Len(T) /\ T \in Bytes
        BY <1>5, <1>6
      <3>2. T[1] \in Int
        BY <3>1, Elements
      <3> QED
        BY <3>2 DEF Length
    <2> QED
      BY <1>1, <1>5, <1>6, <2>1, <2>2
  <1>8. Framed(T) /\ Consecutive(T, printed) /\ printed \in Nat /\ MaxFrame \in Nat
    BY Limits DEF IInv, Flow, TypesInv, T
  <1>a. n \in 1..MaxFrame
    <2>1. 1 \in 1..Len(T) /\ IsHeader(T[1])
      BY <1>5, <1>6, <1>7, <1>8 DEF Framed
    <2> QED
      BY <1>7, <1>8, <2>1 DEF Framed
  <1>9. D \in Bytes /\ Len(D) = n /\ \A k \in 1..n : D[k] = T[k + 1]
    <2>1. /\ \A i \in 2..(n + 1) : incoming[i] \in Int /\ T[i] = incoming[i]
      <3> SUFFICES ASSUME NEW i \in 2..(n + 1) PROVE incoming[i] \in Int /\ T[i] = incoming[i]
        OBVIOUS
      <3>1. n \in Nat /\ n < Len(incoming)
        BY <1>1, <1>8, <1>a
      <3>2. i \in 1..Len(incoming)
        BY <1>5, <3>1
      <3> QED
        BY <1>2, <1>6, <3>2, Elements
    <2>2. /\ D \in Bytes /\ Len(D) = n /\ \A k \in 1..n : D[k] = incoming[2 + k - 1]
      <3>1. \A i \in 2..(n + 1) : incoming[i] \in Int
        BY <2>1
      <3>2. 2 \in Int /\ n + 1 \in Int /\ n \in Nat
        BY <1>a, <1>8
      <3> QED
        BY <3>1, <3>2, <1>a, SubSeqProperties DEF Bytes
    <2> DEFINE y == SubSeq(T, 2, n + 1)
    <2>3. /\ y \in Bytes /\ Len(y) = n /\ \A k \in 1..n : y[k] = T[2 + k - 1]
      <3>1. \A i \in 2..(n + 1) : T[i] \in Int
        BY <2>1
      <3>2. 2 \in Int /\ n + 1 \in Int /\ n \in Nat
        BY <1>a, <1>8
      <3> QED
        BY <3>1, <3>2, <1>a, SubSeqProperties DEF Bytes
    <2> HIDE DEF y
    <2>4. \A k \in 1..n : 2 + k - 1 \in 2..(n + 1)
      BY <1>a, <1>8
    <2>6. \A k \in 1..n : D[k] = y[k]
      BY <2>1, <2>2, <2>3, <2>4
    <2>5. D = y
      BY ONLY <2>2, <2>3, <2>6, Same
    <2>7. \A k \in 1..n : 2 + k - 1 = k + 1
      BY <1>a, <1>8
    <2> QED
      BY ONLY <2>3, <2>5, <2>7
  <1>b. /\ R \in Bytes /\ Len(R) = Len(T) - n - 1
        /\ \A k \in 1..Len(R) : R[k] = T[n + 1 + k]
    <2>1. n \in Nat /\ Len(T) \in Nat /\ n < Len(T)
      BY <1>6, <1>7, <1>8, <1>a, Lengths
    <2>2. n + 1 \in 0..Len(T) /\ (n + 1) + 1 = n + 2
          /\ Len(T) - (n + 1) = Len(T) - n - 1
      BY ONLY <2>1
    <2> DEFINE y == SubSeq(T, (n + 1) + 1, Len(T))
    <2>3. /\ y \in Bytes /\ Len(y) = Len(T) - (n + 1)
          /\ \A k \in 1..(Len(T) - (n + 1)) : y[k] = T[(n + 1) + k]
      BY ONLY <1>6, <2>2, Rest
    <2>4. R = y
      BY <2>2
    <2> HIDE DEF y, R
    <2>5. /\ y \in Bytes /\ Len(y) = Len(T) - n - 1
          /\ \A k \in 1..Len(y) : y[k] = T[n + 1 + k]
      BY ONLY <2>2, <2>3
    <2> QED
      BY ONLY <2>4, <2>5
  <1> HIDE DEF R
  <1>10. Run(D, printed)
    <2>1. Length(T[1]) = n /\ T \in Bytes
      BY <1>6, <1>7
    <2> QED
      BY ONLY <1>7, <1>8, <1>9, <1>a, <2>1, FirstFrame
  <1> USE DEF R
  <1>11. n + 1 \in 0..Len(incoming) /\ (n + 1) + 1 = n + 2
    <2>1. n < Len(incoming)
      BY <1>1
    <2>2. n \in Nat
      BY <1>8, <1>a
    <2> QED
      BY ONLY <1>5, <2>1, <2>2
  <1>12. incoming' \in Bytes
    <2>1. SubSeq(incoming, (n + 1) + 1, Len(incoming)) \in Bytes
      BY <1>2, <1>11, Rest
    <2> QED
      BY <1>1, <1>11, <2>1
  <1>13. Coming' = R
    <2>1. SubSeq(incoming \o x, (n + 1) + 1, Len(incoming \o x))
            = SubSeq(incoming, (n + 1) + 1, Len(incoming)) \o x
      BY <1>2, <1>3, <1>11, RestOfConcat
    <2>2. R = incoming' \o x
      BY <1>1, <1>4, <1>11, <2>1
    <2> DEFINE c == Content(queue)
    <2>3. incoming' \in Seq(Int) /\ wire \in Seq(Int) /\ c \in Seq(Int)
      BY <1>2, <1>12 DEF Bytes
    <2>4. Coming' = (incoming' \o wire) \o c /\ x = wire \o c
      BY <1>1 DEF Coming, x
    <2> HIDE DEF c
    <2>5. (incoming' \o wire) \o c = incoming' \o (wire \o c)
      BY ONLY <2>3, Assoc
    <2> QED
      BY <2>2, <2>4, <2>5
  <1> HIDE DEF R
  <1> QED
    BY <1>7, <1>9, <1>b, <1>10, <1>12, <1>13, <1>a DEF T

\* What is written is older than every byte of the first frame and behind it.
LEMMA OlderThanFrame ==
  ASSUME NEW P \in Bytes, NEW T \in Bytes, Joined(P, T), MaxFrame \in Nat,
         NEW m, NEW n, NEW D, NEW R, FirstIs(T, n, D, R), Run(D, m)
  PROVE  /\ P # <<>> => D[1] = P[Len(P)] + 1
         /\ Older(P, D) /\ Older(P, R)
  <1>0. /\ n \in 1..MaxFrame /\ n < Len(T)
        /\ D \in Bytes /\ Len(D) = n /\ \A k \in 1..n : D[k] = T[k + 1]
        /\ R \in Bytes /\ Len(R) = Len(T) - n - 1
        /\ \A k \in 1..Len(R) : R[k] = T[n + 1 + k]
    BY DEF FirstIs
  <1>1. Len(T) \in Nat /\ n \in Nat /\ n > 0 /\ Len(R) \in Nat
    BY <1>0, Lengths
  <1>2. P # <<>> => D[1] = P[Len(P)] + 1
    <2>1. Len(T) >= 2 /\ 1 \in 1..n /\ 1 + 1 = 2
      BY <1>0, <1>1
    <2>2. D[1] = T[1 + 1]
      BY <1>0, <2>1
    <2> QED
      BY <2>1, <2>2 DEF Joined
  <1>3. ASSUME NEW k \in 1..n PROVE \A i \in 1..Len(P) : P[i] < D[k]
    <2>1. k + 1 \in 1..Len(T)
      BY <1>0, <1>1
    <2>2. D[k] = T[k + 1] /\ D[k] > 0
      BY <1>0 DEF Run
    <2> QED
      BY <2>1, <2>2 DEF Joined
  <1>4. ASSUME NEW j \in 1..Len(R), R[j] > 0 PROVE \A i \in 1..Len(P) : P[i] < R[j]
    <2>1. n + 1 + j \in 1..Len(T)
      BY <1>0, <1>1
    <2>2. R[j] = T[n + 1 + j]
      BY <1>0
    <2> QED
      BY <1>4, <2>1, <2>2 DEF Joined
  <1> QED
    BY <1>0, <1>2, <1>3, <1>4 DEF Older

\* queue_output: the data goes behind what is written, or, with the notice in
\* front of it, behind what stdout has taken; it is never cut, because the
\* largest frame fits behind the notice.
LEMMA OutputQueued ==
  ASSUME IInv, NEW D \in Bytes, Len(D) \in 1..MaxFrame, QueueOutput(D), shown' = shown
  PROVE  /\ output' \in Queues /\ QueueWellFormed(output', AttachLimit)
         /\ \/ Written' = Written \o D
            \/ Written' = shown \o (Notice \o D)
  <1>1. /\ output \in Queues /\ QueueWellFormed(output, AttachLimit) /\ AttachLimit \in Nat
        /\ MaxFrame \in Nat /\ MaxFrame + 2 <= AttachLimit
        /\ shown \in Bytes /\ Content(output) \in Bytes
    BY Limits, Parts DEF IInv, TypesInv, BuffersExact
  <1>2. CASE Fits(output, D, AttachLimit)
    <2>1. output' = Enqueue(output, D)
      BY <1>2 DEF QueueOutput
    <2>2. /\ output' \in Queues /\ QueueWellFormed(output', AttachLimit)
          /\ Content(output') = Content(output) \o D
      BY <1>1, <1>2, <2>1, EnqueueEffect
    <2>3. Written' = Written \o D
      <3> DEFINE c == Content(output)
      <3>1. Written' = shown \o (c \o D) /\ Written = shown \o c
        BY <2>2 DEF Written
      <3>2. shown \in Seq(Int) /\ c \in Seq(Int) /\ D \in Seq(Int)
        BY <1>1 DEF Bytes
      <3> HIDE DEF c
      <3>3. (shown \o c) \o D = shown \o (c \o D)
        BY ONLY <3>2, Assoc
      <3> QED
        BY <3>1, <3>3
    <2> QED
      BY <2>2, <2>3
  <1>3. CASE ~Fits(output, D, AttachLimit)
    <2> DEFINE told == Enqueue(EmptyQueue, Notice)
    <2>1. Notice \in Bytes /\ Len(Notice) = 2 /\ Notice # <<>>
      BY DEF Notice, Bytes
    <2>2. /\ told \in Queues /\ QueueWellFormed(told, AttachLimit) /\ Content(told) = Notice
          /\ told.size = 2
      <3>1. EmptyQueue \in Queues /\ QueueWellFormed(EmptyQueue, AttachLimit)
            /\ Content(EmptyQueue) = <<>>
        BY <1>1, EmptyQueueFine
      <3>2. Fits(EmptyQueue, Notice, AttachLimit)
        BY <1>1, <2>1 DEF Fits, EmptyQueue
      <3>3. told \in Queues /\ QueueWellFormed(told, AttachLimit) /\ Content(told) = <<>> \o Notice
        BY <1>1, <2>1, <3>1, <3>2, EnqueueEffect
      <3>4. <<>> \o Notice = Notice
        BY <2>1 DEF Bytes
      <3>5. told.size = 2
        BY <2>1 DEF Enqueue, EmptyQueue
      <3> QED
        BY <3>3, <3>4, <3>5
    <2>3. ~(Len(D) > AttachLimit - told.size)
      BY <1>1, <2>2
    <2>4. output' = Enqueue(told, D)
      BY <1>3, <2>3 DEF QueueOutput
    <2> HIDE DEF told
    <2>5. Fits(told, D, AttachLimit)
      BY <1>1, <2>2 DEF Fits
    <2>6. /\ output' \in Queues /\ QueueWellFormed(output', AttachLimit)
          /\ Content(output') = Notice \o D
      BY <1>1, <2>2, <2>4, <2>5, EnqueueEffect
    <2> QED
      BY <2>6 DEF Written
  <1> QED
    BY <1>2, <1>3

\* One round of the parsing loop.
LEMMA ParseInv ==
  ASSUME IInv, Parse
  PROVE  IInv'
  <1> DEFINE n == Length(Head(incoming))
             D == SubSeq(incoming, 2, n + 1)
             T == Coming
             R == Coming'
             P == Written
  <1>1. /\ QueueOutput(D) /\ pc = "parse" /\ incoming # <<>>
        /\ UNCHANGED <<printed, replay, queue, link, wire, pc, shown>>
    BY DEF Parse, broker, HasFrame
  <1>2. FirstIs(T, n, D, R) /\ Run(D, printed) /\ incoming' \in Bytes
    BY Parsing DEF FirstIs
  <1>3. /\ P \in Bytes /\ T \in Bytes /\ MaxFrame \in Nat /\ printed \in Nat
        /\ shown \in Bytes /\ Content(output) \in Bytes /\ P = shown \o Content(output)
    BY Parts, Limits DEF IInv, TypesInv, Written
  <1>4. /\ Ordered(P, printed) /\ Framed(T) /\ Consecutive(T, printed) /\ Joined(P, T)
        /\ link = "attached" => UpTo(P, T, printed)
    BY DEF IInv, Flow
  <1> HIDE DEF n, D, T, R, P
  <1>5. /\ output' \in Queues /\ QueueWellFormed(output', AttachLimit)
        /\ \/ Written' = P \o D
           \/ Written' = shown \o (Notice \o D)
    <2>1. D \in Bytes /\ Len(D) \in 1..MaxFrame
      BY <1>2 DEF FirstIs
    <2> QED
      BY <1>1, <2>1, OutputQueued DEF P, D, n
  <1>6. Framed(R) /\ Consecutive(R, printed)
    BY ONLY <1>2, <1>3, <1>4, FrameBehind DEF FirstIs
  <1>7. /\ P # <<>> => D[1] = P[Len(P)] + 1
        /\ Older(P, D) /\ Older(P, R)
    BY ONLY <1>2, <1>3, <1>4, OlderThanFrame
  <1>8. D \in Bytes /\ D # <<>>
    BY <1>2, <1>3, Lengths DEF FirstIs
  <1>9. /\ Ordered(Written', printed) /\ Joined(Written', R)
        /\ Carries(Written', R, T, printed)
    <2>1. CASE Written' = P \o D
      <3>1. Ordered(P \o D, printed)
        <4>1. \A k \in 1..Len(D) : \A i \in 1..Len(P) : P[i] < D[k]
          BY <1>2, <1>7 DEF Older, Run
        <4> QED
          BY ONLY <1>2, <1>3, <1>4, <1>7, <1>8, <4>1, RunAppended
      <3>2. Joined(P \o D, R) /\ Carries(P \o D, R, T, printed)
        BY ONLY <1>2, <1>3, <1>4, <1>7, FrameJoins
      <3> QED
        BY <2>1, <3>1, <3>2
    <2>2. CASE Written' = shown \o (Notice \o D)
      <3> DEFINE C == Content(output)
                 Q == shown \o Notice
      <3> HIDE DEF C
      <3>1. /\ \A i \in 1..Len(shown) : i \in 1..Len(P) /\ P[i] = shown[i]
        <4>1. /\ Len(P) = Len(shown) + Len(C) /\ \A i \in 1..Len(shown) : P[i] = shown[i]
          BY <1>3, Concat DEF C
        <4>2. Len(shown) \in Nat /\ Len(C) \in Nat
          BY <1>3, Lengths DEF C
        <4> QED
          BY <4>1, <4>2
      <3>2. \A k \in 1..Len(D) : \A i \in 1..Len(shown) : shown[i] < D[k]
        BY <1>2, <1>7, <3>1 DEF Older, Run
      <3>3. Ordered(shown \o C, printed) /\ C \in Bytes
        BY <1>3, <1>4 DEF C
      <3>4. Ordered(shown \o (Notice \o D), printed)
        BY ONLY <1>2, <1>3, <1>8, <3>2, <3>3, ToldAppended
      <3>5. Notice \in Bytes /\ Len(Notice) = 2 /\ Notice[1] = -1 /\ Notice[2] = -2
        BY DEF Notice, Bytes
      <3>6. /\ Q \in Bytes /\ Len(Q) = Len(shown) + 2
            /\ \A i \in 1..Len(shown) : Q[i] = shown[i]
            /\ \A k \in 1..2 : Q[Len(shown) + k] = Notice[k]
        <4>1. /\ Q \in Bytes /\ Len(Q) = Len(shown) + Len(Notice)
              /\ \A i \in 1..Len(shown) : Q[i] = shown[i]
              /\ \A k \in 1..Len(Notice) : Q[Len(shown) + k] = Notice[k]
          BY <1>3, <3>5, Concat
        <4> HIDE DEF Q
        <4> QED
          BY <3>5, <4>1
      <3> HIDE DEF Q
      <3>7. ASSUME NEW j \in 1..Len(R), R[j] > 0, NEW i \in 1..Len(Q) PROVE Q[i] < R[j]
        <4>0. Len(shown) \in Nat /\ R[j] \in Int
          BY <1>2, <1>3, Lengths, Elements DEF FirstIs
        <4>1. CASE i \in 1..Len(shown)
          BY <1>7, <3>1, <3>6, <3>7, <4>1 DEF Older
        <4>2. CASE i = Len(shown) + 1
          <5>1. Q[i] = -1
            BY <3>5, <3>6, <4>2
          <5> QED
            BY <3>7, <4>0, <5>1
        <4>3. CASE i = Len(shown) + 2
          <5>1. Q[i] = -2
            BY <3>5, <3>6, <4>3
          <5> QED
            BY <3>7, <4>0, <5>1
        <4>4. i \in 1..Len(shown) \/ i = Len(shown) + 1 \/ i = Len(shown) + 2
          BY ONLY <3>6, <4>0, i \in 1..Len(Q)
        <4> QED
          BY <4>1, <4>2, <4>3, <4>4
      <3>10. Older(Q, R)
        BY <3>7 DEF Older
      <3>8. Joined(Q \o D, R) /\ Carries(Q \o D, R, T, printed)
        BY ONLY <1>2, <1>3, <1>4, <3>6, <3>10, FrameJoins
      <3>9. Q \o D = shown \o (Notice \o D)
        <4>1. Cat(Cat(shown, Notice), D) = Cat(shown, Cat(Notice, D))
          BY <1>8, <1>3, <3>5, CatAssoc
        <4> QED
          BY <4>1 DEF Cat, Q
      <3> QED
        BY <2>2, <3>4, <3>8, <3>9
    <2> QED
      BY <1>5, <2>1, <2>2
  <1>10. Flow'
    BY <1>1, <1>4, <1>6, <1>9 DEF Flow, R, T, Carries
  <1>11. link \notin {"new", "asked"}
    BY <1>1 DEF IInv, Quiet
  <1>12. TypesInv' /\ Quiet' /\ BuffersExact'
    BY <1>1, <1>2, <1>5, <1>11 DEF IInv, TypesInv, Quiet, BuffersExact
  <1> QED
    BY <1>10, <1>12 DEF IInv

\* The client connects.
LEMMA ConnectInv ==
  ASSUME IInv, Connect
  PROVE  IInv'
  <1>1. /\ link = "new" /\ link' = "asked" /\ pc' = "setup"
        /\ UNCHANGED <<printed, replay, queue, wire, incoming, output, shown>>
    BY DEF Connect, output_side, IInv, TypesInv
  <1>2. TypesInv' /\ Quiet' /\ BuffersExact'
    BY <1>1 DEF IInv, TypesInv, Quiet, BuffersExact
  <1>3. Flow'
    BY <1>1 DEF IInv, Flow, Written, Coming
  <1> QED
    BY <1>2, <1>3 DEF IInv

\* Every step preserves the invariant.
LEMMA NextInv ==
  ASSUME IInv, [Next]_vars
  PROVE  IInv'
  <1>1. ASSUME NEW n \in 1..MaxChunk, ReadPty(n) PROVE IInv'
    BY <1>1, ReadPtyInv
  <1>2. CASE Attach
    BY <1>2, AttachInv
  <1>3. CASE BrokerWrites
    BY <1>3, WriteClientInv DEF BrokerWrites
  <1>4. CASE CloseClient
    BY <1>4, CloseClientInv
  <1>5. CASE Connect
    BY <1>5, ConnectInv
  <1>6. CASE ClientReads
    BY <1>6, ReceiveInv DEF ClientReads
  <1>7. CASE Parse
    BY <1>7, ParseInv
  <1>8. CASE TabReads
    BY <1>8, WriteStdoutInv DEF TabReads
  <1>9. ASSUME UNCHANGED Buffers, UNCHANGED link, pc' = "start" => pc = "start"
        PROVE  IInv'
    <2>1. link \in {"new", "asked", "attached", "closed"} /\ (pc = "start" => link = "new")
      BY DEF IInv, TypesInv
    <2> QED
      BY <1>9, <2>1, NothingMoves
  <1>10. CASE Setup
    BY <1>9, <1>10 DEF Setup, broker, output_side, Buffers
  <1>11. CASE Drained
    BY <1>9, <1>11 DEF Drained, broker, output_side, Buffers
  <1>12. CASE NoticeResize \/ ReadSize
    BY <1>9, <1>12 DEF NoticeResize, ReadSize, broker, output_side, Buffers
  <1>13. CASE SendSize
    BY <1>9, <1>13 DEF SendSize, broker, output_side, Buffers
  <1>14. CASE SendFails
    BY <1>9, <1>14 DEF SendFails, broker, output_side, Buffers
  <1>15. CASE EndOfConnection
    BY <1>9, <1>15 DEF EndOfConnection, broker, output_side, Buffers
  <1>16. CASE Parsed
    BY <1>9, <1>16 DEF Parsed, broker, output_side, Buffers
  <1>17. CASE Leave
    BY <1>9, <1>17 DEF Leave, broker, output_side, Buffers
  <1>18. CASE Resize
    BY <1>9, <1>18 DEF Resize, broker, output_side, Buffers
  <1>19. CASE UNCHANGED vars
    BY <1>9, <1>19 DEF vars, broker, output_side, Buffers
  <1> QED
    BY <1>1, <1>2, <1>3, <1>4, <1>5, <1>6, <1>7, <1>8, <1>10, <1>11, <1>12, <1>13,
       <1>14, <1>15, <1>16, <1>17, <1>18, <1>19 DEF Next

-----------------------------------------------------------------------------
(* The theorems.                                                           *)

\* IInv is an invariant of the output path, for any limits that main() accepts,
\* any sizes of chunks, reads and writes, and any amount of output.
THEOREM Invariance == Spec => []IInv
  <1>1. Init => IInv
    BY InitInv
  <1>2. IInv /\ [Next]_vars => IInv'
    BY NextInv
  <1> QED
    BY <1>1, <1>2, PTL DEF Spec

\* The buffers never lose count: the replay is exactly the latest output, and
\* sizes are what the queues hold (ReplayBuffer, ChunkQueue).
THEOREM BuffersAreExact == Spec => []BuffersExact
  <1>1. IInv => BuffersExact
    BY DEF IInv
  <1> QED
    BY <1>1, Invariance, PTL

\* The end of the stream is the latest byte.
LEMMA EndOfStream ==
  ASSUME IInv
  PROVE  LatestIsKept
  <1> DEFINE P == Written
             T == Coming
             s == P \o T
  <1>1. P \in Bytes /\ T \in Bytes /\ s = Stream
    BY Parts DEF IInv, Stream
  <1> SUFFICES ASSUME link = "attached", s # <<>> PROVE Last(s) = printed
    BY <1>1 DEF LatestIsKept
  <1>2. UpTo(P, T, printed)
    BY DEF IInv, Flow
  <1> HIDE DEF P, T
  <1>3. /\ s \in Bytes /\ Len(s) = Len(P) + Len(T)
        /\ \A i \in 1..Len(P) : s[i] = P[i]
        /\ \A i \in 1..Len(T) : s[Len(P) + i] = T[i]
    BY <1>1, Concat
  <1> HIDE DEF s
  <1>4. Len(P) \in Nat /\ Len(T) \in Nat /\ (Len(P) = 0 <=> P = <<>>) /\ (Len(T) = 0 <=> T = <<>>)
        /\ (Len(s) = 0 <=> s = <<>>)
    BY <1>1, <1>3, Lengths
  <1>5. CASE T # <<>>
    <2>1. Len(T) \in 1..Len(T)
      BY <1>4, <1>5
    <2> QED
      BY <1>2, <1>3, <1>5, <2>1 DEF UpTo, Last
  <1>6. CASE T = <<>>
    <2>1. P # <<>> /\ Len(P) \in 1..Len(P) /\ Len(s) = Len(P)
      BY <1>3, <1>4, <1>6
    <2> QED
      BY <1>2, <1>3, <1>6, <2>1 DEF UpTo, Last
  <1> QED
    BY <1>5, <1>6

\* No overflow ever costs the end of the output while the broker holds on to
\* the client (queue_output, _queue).
THEOREM LatestStays == Spec => []LatestIsKept
  <1>1. IInv => LatestIsKept
    BY EndOfStream
  <1> QED
    BY <1>1, Invariance, PTL

\* The order of what is written, of what comes and across the boundary.
LEMMA InOrder ==
  ASSUME IInv
  PROVE  NoSilentGap
  <1> DEFINE P == Written
             T == Coming
             s == P \o T
             p == Len(P)
             t == Len(T)
             Follows(i, j) == s[j] = s[i] + 1 /\ \A k \in (i + 1)..(j - 1) : IsHeader(s[k])
             IsFirst(j) == \A k \in 1..(j - 1) : IsHeader(s[k])
             IsTold(j) == j > 2 /\ s[j - 2] = Notice[1] /\ s[j - 1] = Notice[2]
  <1>1. P \in Bytes /\ T \in Bytes /\ s = Stream
    BY Parts DEF IInv, Stream
  <1>2. Ordered(P, printed) /\ Framed(T) /\ Consecutive(T, printed) /\ Joined(P, T)
    BY DEF IInv, Flow
  <1>3. Notice[1] = -1 /\ Notice[2] = -2
    BY DEF Notice
  <1> SUFFICES ASSUME NEW j \in 1..Len(s), s[j] > 0
               PROVE  /\ IsFirst(j) \/ IsTold(j) \/ \E i \in 1..(j - 1) : Follows(i, j)
                      /\ \A i \in 1..(j - 1) : s[i] < s[j]
    BY <1>1 DEF NoSilentGap
  <1> HIDE DEF P, T
  <1>4. /\ Len(s) = p + t
        /\ \A i \in 1..p : s[i] = P[i]
        /\ \A i \in 1..t : s[p + i] = T[i]
    BY <1>1, Concat
  <1> HIDE DEF s
  <1>5. p \in Nat /\ t \in Nat /\ (P = <<>> <=> p = 0) /\ (T = <<>> <=> t = 0)
    BY <1>1, Lengths
  <1>6. /\ \A i \in 1..p : P[i] \in Int
        /\ \A i \in 1..t : T[i] \in Int
    BY <1>1, Elements
  <1> HIDE DEF p, t
  <1>7. CASE j <= p
    <2>1. j \in 1..p /\ \A i \in 1..(j - 1) : i \in 1..p
      BY <1>4, <1>5, <1>7
    <2>2. s[j] = P[j] /\ \A i \in 1..(j - 1) : s[i] = P[i]
      BY <1>4, <2>1
    <2>3. \A i \in 1..(j - 1) : s[i] < s[j]
      BY <1>2, <2>1, <2>2 DEF Ordered, p
    <2>4. CASE j = 1
      <3>1. IsFirst(j)
        BY <2>4
      <3> QED
        BY <2>3, <3>1
    <2>5. CASE j # 1
      <3>1. j \in 2..p /\ j - 1 \in 1..(j - 1) /\ (j > 2 => j - 2 \in 1..(j - 1))
        BY <1>5, <2>1, <2>5
      <3>2. \/ P[j - 1] = P[j] - 1
            \/ j > 2 /\ P[j - 2] = -1 /\ P[j - 1] = -2
        BY <1>2, <2>2, <3>1 DEF Ordered, p
      <3>3. CASE P[j - 1] = P[j] - 1
        <4>1. s[j] = s[j - 1] + 1
          BY <1>6, <2>1, <2>2, <3>1, <3>3
        <4>2. \A k \in ((j - 1) + 1)..(j - 1) : IsHeader(s[k])
          BY <3>1
        <4>3. Follows(j - 1, j)
          BY <4>1, <4>2
        <4> QED
          BY <2>3, <3>1, <4>3
      <3>4. CASE j > 2 /\ P[j - 2] = -1 /\ P[j - 1] = -2
        <4>1. IsTold(j)
          BY <1>3, <2>2, <3>1, <3>4
        <4> QED
          BY <2>3, <4>1
      <3> QED
        BY <3>2, <3>3, <3>4
    <2> QED
      BY <2>4, <2>5
  <1>8. CASE ~(j <= p)
    <2> DEFINE l == j - p
    <2>1. l \in 1..t /\ j = p + l /\ T # <<>> /\ 1 \in 1..t
      BY <1>4, <1>5, <1>8
    <2> HIDE DEF l
    <2>2. s[j] = T[l] /\ T[l] > 0
      BY <1>4, <2>1
    <2>3. IsHeader(T[1]) /\ T[1] \in Int
      BY <1>2, <1>6, <2>1 DEF Framed
    <2>4. l # 1 /\ l >= 2 /\ t >= 2
      <3>1. l # 1
        BY <2>2, <2>3 DEF IsHeader, Header
      <3> QED
        BY <1>5, <2>1, <3>1
    <2>5. ASSUME NEW i \in 1..(j - 1) PROVE s[i] < s[j]
      <3>1. CASE i <= p
        <4>1. i \in 1..p
          BY <1>5, <2>1, <3>1
        <4>2. P[i] < T[l]
          BY <1>2, <2>1, <2>2, <4>1 DEF Joined, p, t
        <4> QED
          BY <1>4, <2>2, <4>1, <4>2
      <3>2. CASE ~(i <= p)
        <4> DEFINE k == i - p
        <4>1. k \in 1..(l - 1) /\ i = p + k /\ k \in 1..t
          BY <1>5, <2>1, <3>2
        <4> HIDE DEF k
        <4>2. T[k] < T[l]
          BY <1>2, <2>1, <2>2, <4>1 DEF Consecutive, t
        <4> QED
          BY <1>4, <2>2, <4>1, <4>2
      <3> QED
        BY <3>1, <3>2
    <2>6. IsFirst(j) \/ \E i \in 1..(j - 1) : Follows(i, j)
      <3>1. CASE l = 2
        <4>1. s[p + 1] = T[1] /\ j = p + 2 /\ IsHeader(s[p + 1])
          BY <1>4, <2>1, <2>3, <3>1
        <4>2. CASE p = 0
          <5>1. \A k \in 1..(j - 1) : k = p + 1
            BY <1>5, <4>1, <4>2
          <5> QED
            BY <4>1, <5>1
        <4>3. CASE p # 0
          <5>1. p \in 1..(j - 1) /\ p \in 1..p /\ \A k \in (p + 1)..(j - 1) : k = p + 1
            BY <1>5, <4>1, <4>3
          <5>2. T[2] = P[p] + 1
            BY <1>2, <1>5, <2>4, <4>3 DEF Joined, p, t
          <5>3. s[j] = s[p] + 1
            BY <1>4, <2>2, <3>1, <5>1, <5>2
          <5>4. Follows(p, j)
            BY <4>1, <5>1, <5>3
          <5> QED
            BY <5>1, <5>4
        <4> QED
          BY <4>2, <4>3
      <3>2. CASE l # 2
        <4>1. l \in 3..t /\ l - 1 \in 1..t /\ l - 2 \in 1..t /\ l \in 2..t
          BY <1>5, <2>1, <2>4, <3>2
        <4>2. /\ j - 1 = p + (l - 1) /\ j - 2 = p + (l - 2)
              /\ j - 1 \in 1..(j - 1) /\ j - 2 \in 1..(j - 1)
          BY <1>5, <2>1, <4>1
        <4>3. s[j - 1] = T[l - 1] /\ s[j - 2] = T[l - 2]
          BY <1>4, <4>1, <4>2
        <4>4. CASE T[l - 1] > 0
          <5>1. s[j] = s[j - 1] + 1
            BY <1>2, <2>2, <4>1, <4>3, <4>4 DEF Consecutive, t
          <5>2. \A k \in ((j - 1) + 1)..(j - 1) : IsHeader(s[k])
            BY <4>2
          <5>3. Follows(j - 1, j)
            BY <5>1, <5>2
          <5> QED
            BY <4>2, <5>3
        <4>5. CASE IsHeader(T[l - 1])
          <5>1. s[j] = s[j - 2] + 1
            BY <1>2, <2>2, <4>1, <4>3, <4>5 DEF Consecutive, t
          <5>2. \A k \in ((j - 2) + 1)..(j - 1) : k = j - 1
            BY <4>2
          <5>3. Follows(j - 2, j)
            BY <4>3, <4>5, <5>1, <5>2
          <5> QED
            BY <4>2, <5>3
        <4> QED
          BY <1>2, <4>1, <4>4, <4>5 DEF Consecutive, t
      <3> QED
        BY <3>1, <3>2
    <2> QED
      BY <2>5, <2>6
  <1> QED
    BY <1>7, <1>8

\* No byte of the shell is lost, repeated or reordered on its way to the tab
\* without the truncation notice in front of what follows (queue_output).
THEOREM NoGapIsSilent == Spec => []NoSilentGap
  <1>1. IInv => NoSilentGap
    BY InOrder
  <1> QED
    BY <1>1, Invariance, PTL
=============================================================================
