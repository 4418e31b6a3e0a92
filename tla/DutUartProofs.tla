---------------------------- MODULE DutUartProofs ----------------------------
(***************************************************************************)
(* Theorems about DutUart for every size of the ring buffer and of buf,    *)
(* every set of timeouts and every number of bytes: buf always has room    *)
(* for its terminator, and the bytes come out once and in order.           *)
(***************************************************************************)
EXTENDS DutUart, SequenceTheorems, TLAPS

-----------------------------------------------------------------------------
(* Sequences of bytes                                                      *)

Increasing(s) == \A i, j \in DOMAIN s : i < j => s[i].n < s[j].n

\* What a printed chunk leaves of the stream: T without the d elements behind the
\* first a of them.
Shortened(T, U, a, d) ==
  /\ Len(U) = Len(T) - d
  /\ \A i \in 1..Len(U) : U[i] = IF i <= a THEN T[i] ELSE T[i + d]

\* A prefix of a sequence of bytes, and what is left behind it.
LEMMA Split ==
  ASSUME NEW s \in Seq(Bytes), NEW k \in 0..Len(s)
  PROVE  /\ SubSeq(s, 1, k) \in Seq(Bytes) /\ Len(SubSeq(s, 1, k)) = k
         /\ SubSeq(s, k + 1, Len(s)) \in Seq(Bytes)
         /\ \A i \in 1..k : SubSeq(s, 1, k)[i] = s[i]
         /\ SubSeq(s, 1, k) \o SubSeq(s, k + 1, Len(s)) = s
<1>1. Len(s) \in Nat /\ \A i \in 1..Len(s) : s[i] \in Bytes
  BY LenProperties, ElementOfSeq
<1>2. k \in Nat /\ k <= Len(s)
  BY <1>1
<1>3. \A i \in 1..k : s[i] \in Bytes
  BY <1>1, <1>2
<1>4. \A i \in k + 1..Len(s) : s[i] \in Bytes
  BY <1>1, <1>2
<1>5. /\ SubSeq(s, 1, k) \in Seq(Bytes)
      /\ Len(SubSeq(s, 1, k)) = IF 1 <= k THEN k - 1 + 1 ELSE 0
      /\ \A i \in 1..k - 1 + 1 : SubSeq(s, 1, k)[i] = s[1 + i - 1]
  BY <1>2, <1>3, SubSeqProperties
<1>6. SubSeq(s, k + 1, Len(s)) \in Seq(Bytes)
  BY <1>1, <1>2, <1>4, SubSeqProperties
<1>7. SubSeq(s, 1, k) \o SubSeq(s, k + 1, Len(s)) = SubSeq(s, 1, Len(s))
  <2>1. 1 \in 1..Len(s) + 1 /\ k \in 1 - 1..Len(s) /\ Len(s) \in k..Len(s)
    BY <1>1, <1>2
  <2> QED BY <2>1, ConcatAdjacentSubSeq
<1>8. SubSeq(s, 1, Len(s)) = s
  BY SubSeqFull
<1>9. Len(SubSeq(s, 1, k)) = k
  BY <1>2, <1>5
<1>10. ASSUME NEW i \in 1..k PROVE SubSeq(s, 1, k)[i] = s[i]
  <2>1. i \in 1..k - 1 + 1 /\ 1 + i - 1 = i
    BY <1>2
  <2> QED BY <1>5, <2>1, Zenon
<1> QED BY <1>5, <1>6, <1>7, <1>8, <1>9, <1>10, Zenon

LEMMA Regroup ==
  \A x, y, z \in Seq(Bytes) : (x \o y) \o z = x \o (y \o z)
BY ConcatAssociative

\* The elements of a stream of three parts.
LEMMA Parts ==
  ASSUME NEW p \in Seq(Bytes), NEW s \in Seq(Bytes), NEW r \in Seq(Bytes)
  PROVE  /\ (p \o s) \o r \in Seq(Bytes)
         /\ Len((p \o s) \o r) = Len(p) + Len(s) + Len(r)
         /\ \A i \in 1..Len(p) : ((p \o s) \o r)[i] = p[i]
         /\ \A i \in 1..Len(s) : ((p \o s) \o r)[Len(p) + i] = s[i]
         /\ \A i \in 1..Len(r) : ((p \o s) \o r)[Len(p) + Len(s) + i] = r[i]
<1> DEFINE ps == p \o s
<1>1. Len(p) \in Nat /\ Len(s) \in Nat /\ Len(r) \in Nat
  BY LenProperties
<1>2. /\ ps \in Seq(Bytes) /\ Len(ps) = Len(p) + Len(s)
      /\ \A i \in 1..Len(p) + Len(s) : ps[i] = IF i <= Len(p) THEN p[i] ELSE s[i - Len(p)]
  BY ConcatProperties, Zenon
<1> HIDE DEF ps
<1>3. /\ ps \o r \in Seq(Bytes) /\ Len(ps \o r) = Len(ps) + Len(r)
      /\ \A i \in 1..Len(ps) + Len(r) :
           (ps \o r)[i] = IF i <= Len(ps) THEN ps[i] ELSE r[i - Len(ps)]
  <2>1. ps \in Seq(Bytes)
    BY <1>2
  <2> HIDE <1>2
  <2> QED BY <2>1, ConcatProperties, ZenonT(30)
<1>4. ASSUME NEW i \in 1..Len(p) PROVE (ps \o r)[i] = p[i]
  BY <1>1, <1>2, <1>3
<1>5. ASSUME NEW i \in 1..Len(s) PROVE (ps \o r)[Len(p) + i] = s[i]
  <2>1. (ps \o r)[Len(p) + i] = ps[Len(p) + i]
    BY <1>1, <1>2, <1>3
  <2>2. ps[Len(p) + i] = s[Len(p) + i - Len(p)]
    BY <1>1, <1>2
  <2>3. Len(p) + i - Len(p) = i
    BY <1>1
  <2> QED BY <2>1, <2>2, <2>3
<1>6. ASSUME NEW i \in 1..Len(r) PROVE (ps \o r)[Len(p) + Len(s) + i] = r[i]
  <2>1. (ps \o r)[Len(p) + Len(s) + i] = r[Len(p) + Len(s) + i - Len(ps)]
    BY <1>1, <1>2, <1>3
  <2>2. Len(p) + Len(s) + i - Len(ps) = i
    BY <1>1, <1>2
  <2> QED BY <2>1, <2>2
<1>7. Len(ps \o r) = Len(p) + Len(s) + Len(r)
  BY <1>1, <1>2, <1>3
<1> QED BY <1>3, <1>4, <1>5, <1>6, <1>7, Zenon DEF ps

\* Printing the first k bytes of s shortens the stream by the rest of s.
LEMMA PrintShortens ==
  ASSUME NEW p \in Seq(Bytes), NEW s \in Seq(Bytes), NEW r \in Seq(Bytes),
         NEW k \in 0..Len(s)
  PROVE  Shortened((p \o s) \o r, ((p \o SubSeq(s, 1, k)) \o <<>>) \o r,
                   Len(p) + k, Len(s) - k)
<1> DEFINE h == SubSeq(s, 1, k)
           T == (p \o s) \o r
           U == (p \o h) \o r
<1>1. h \in Seq(Bytes) /\ Len(h) = k /\ \A i \in 1..k : h[i] = s[i]
  BY Split
<1> HIDE DEF h
<1>2. /\ Len(p) \in Nat /\ Len(s) \in Nat /\ Len(r) \in Nat /\ k \in Nat /\ k <= Len(s)
  BY LenProperties
<1>3. (p \o h) \o <<>> = p \o h
  <2>1. p \o h \in Seq(Bytes)
    BY <1>1, ConcatProperties
  <2> QED BY <2>1, ConcatEmptySeq
<1>4. /\ Len(T) = Len(p) + Len(s) + Len(r)
      /\ \A i \in 1..Len(p) : T[i] = p[i]
      /\ \A i \in 1..Len(s) : T[Len(p) + i] = s[i]
      /\ \A i \in 1..Len(r) : T[Len(p) + Len(s) + i] = r[i]
  BY Parts, Zenon
<1>5. /\ Len(U) = Len(p) + Len(h) + Len(r)
      /\ \A i \in 1..Len(p) : U[i] = p[i]
      /\ \A i \in 1..Len(h) : U[Len(p) + i] = h[i]
      /\ \A i \in 1..Len(r) : U[Len(p) + Len(h) + i] = r[i]
  BY <1>1, Parts, Zenon
<1> HIDE DEF T, U
<1>6. Len(U) = Len(T) - (Len(s) - k)
  BY <1>1, <1>2, <1>4, <1>5
<1>7. ASSUME NEW i \in 1..Len(U)
      PROVE  U[i] = IF i <= Len(p) + k THEN T[i] ELSE T[i + (Len(s) - k)]
  <2>1. i \in Nat /\ 1 <= i /\ i <= Len(p) + k + Len(r)
    BY <1>1, <1>2, <1>5
  <2>2. CASE i <= Len(p)
    BY <1>2, <1>4, <1>5, <2>1, <2>2
  <2>3. CASE Len(p) < i /\ i <= Len(p) + k
    <3>1. PICK j \in 1..k : i = Len(p) + j
      <4>1. i - Len(p) \in 1..k /\ i = Len(p) + (i - Len(p))
        BY <1>2, <2>1, <2>3
      <4> QED BY <4>1
    <3>2. U[i] = s[j]
      BY <1>1, <1>5, <3>1
    <3>3. T[i] = s[j]
      BY <1>2, <1>4, <3>1
    <3> QED BY <2>3, <3>2, <3>3
  <2>4. CASE Len(p) + k < i
    <3>1. PICK j \in 1..Len(r) : i = Len(p) + k + j
      <4>1. i - (Len(p) + k) \in 1..Len(r) /\ i = Len(p) + k + (i - (Len(p) + k))
        BY <1>2, <2>1, <2>4
      <4> QED BY <4>1
    <3>2. U[i] = r[j]
      BY <1>1, <1>5, <3>1
    <3>3. i + (Len(s) - k) = Len(p) + Len(s) + j
      BY <1>2, <3>1
    <3>4. T[i + (Len(s) - k)] = r[j]
      BY <1>4, <3>3
    <3>5. ~(i <= Len(p) + k)
      BY <1>2, <2>1, <2>4
    <3> QED BY <3>2, <3>4, <3>5
  <2> QED BY <1>2, <2>1, <2>2, <2>3, <2>4
<1>8. Shortened(T, U, Len(p) + k, Len(s) - k)
  BY <1>6, <1>7 DEF Shortened
<1> QED BY <1>3, <1>8 DEF T, U, h

\* A shortened stream is as ordered as the whole one.
LEMMA ShortenedIncreasing ==
  ASSUME NEW T \in Seq(Bytes), NEW U \in Seq(Bytes), NEW a \in Nat, NEW d \in Nat,
         Shortened(T, U, a, d), Increasing(T)
  PROVE  Increasing(U)
<1>1. /\ DOMAIN T = 1..Len(T) /\ DOMAIN U = 1..Len(U) /\ Len(T) \in Nat /\ Len(U) \in Nat
  BY LenProperties
<1>2. Len(U) = Len(T) - d
  BY DEF Shortened
<1> SUFFICES ASSUME NEW i \in 1..Len(U), NEW j \in 1..Len(U), i < j
             PROVE  U[i].n < U[j].n
  BY <1>1 DEF Increasing
<1> DEFINE at(x) == IF x <= a THEN x ELSE x + d
<1>3. U[i] = T[at(i)] /\ U[j] = T[at(j)]
  BY DEF Shortened
<1>4. at(i) \in 1..Len(T) /\ at(j) \in 1..Len(T) /\ at(i) < at(j)
  BY <1>1, <1>2
<1> HIDE DEF at
<1>5. T[at(i)].n < T[at(j)].n
  BY <1>1, <1>4 DEF Increasing
<1> QED BY <1>3, <1>5

\* Its numbers are those of the whole one but for the d elements left out.
LEMMA ShortenedNumbers ==
  ASSUME NEW T \in Seq(Bytes), NEW U \in Seq(Bytes), NEW a \in Nat, NEW d \in Nat,
         Shortened(T, U, a, d), a + d <= Len(T)
  PROVE  Numbers(T) = Numbers(U) \cup {T[i].n : i \in a + 1..a + d}
<1>1. /\ DOMAIN T = 1..Len(T) /\ DOMAIN U = 1..Len(U) /\ Len(T) \in Nat /\ Len(U) \in Nat
  BY LenProperties
<1>2. /\ Len(U) = Len(T) - d
      /\ \A i \in 1..Len(U) : U[i] = IF i <= a THEN T[i] ELSE T[i + d]
  BY DEF Shortened
<1> DEFINE Out == {T[i].n : i \in a + 1..a + d}
<1>3. ASSUME NEW x \in Numbers(U) PROVE x \in Numbers(T)
  <2>1. PICK i \in 1..Len(U) : x = U[i].n
    BY <1>1, <1>3 DEF Numbers
  <2>2. CASE i <= a
    <3>1. i \in 1..Len(T) /\ x = T[i].n
      BY <1>1, <1>2, <2>1, <2>2
    <3> QED BY <1>1, <3>1 DEF Numbers
  <2>3. CASE ~(i <= a)
    <3>1. i + d \in 1..Len(T) /\ x = T[i + d].n
      BY <1>1, <1>2, <2>1, <2>3
    <3> QED BY <1>1, <3>1 DEF Numbers
  <2> QED BY <2>2, <2>3
<1>4. ASSUME NEW x \in Out PROVE x \in Numbers(T)
  <2>1. PICK i \in a + 1..a + d : x = T[i].n
    BY <1>4
  <2>2. i \in 1..Len(T)
    BY <1>1, <2>1
  <2> QED BY <1>1, <2>1, <2>2 DEF Numbers
<1>5. ASSUME NEW x \in Numbers(T) PROVE x \in Numbers(U) \/ x \in Out
  <2>1. PICK i \in 1..Len(T) : x = T[i].n
    BY <1>1, <1>5 DEF Numbers
  <2>2. CASE i <= a
    <3>1. i \in 1..Len(U) /\ U[i] = T[i]
      BY <1>1, <1>2, <2>1, <2>2
    <3> QED BY <1>1, <2>1, <3>1 DEF Numbers
  <2>3. CASE a < i /\ i <= a + d
    <3>1. i \in a + 1..a + d
      BY <1>1, <2>1, <2>3
    <3> QED BY <2>1, <3>1
  <2>4. CASE a + d < i
    <3>1. /\ i - d \in 1..Len(U) /\ ~(i - d <= a) /\ i - d + d = i
      BY <1>1, <1>2, <2>1, <2>4
    <3>2. U[i - d] = T[i]
      BY <1>2, <3>1
    <3> QED BY <1>1, <2>1, <3>1, <3>2 DEF Numbers
  <2> QED BY <1>1, <2>1, <2>2, <2>3, <2>4
<1> HIDE DEF Out
<1>6. Numbers(T) = Numbers(U) \cup Out
  BY <1>3, <1>4, <1>5
<1> QED BY <1>6 DEF Out

\* A byte behind the end keeps the order if its number is above all the others.
LEMMA AppendIncreasing ==
  ASSUME NEW T \in Seq(Bytes), NEW b \in Bytes, Increasing(T),
         \A i \in DOMAIN T : T[i].n < b.n
  PROVE  /\ Increasing(Append(T, b))
         /\ Numbers(Append(T, b)) = Numbers(T) \cup {b.n}
<1> DEFINE A == Append(T, b)
<1>1. /\ A \in Seq(Bytes) /\ Len(A) = Len(T) + 1
      /\ \A i \in 1..Len(T) : A[i] = T[i]
      /\ A[Len(T) + 1] = b
  BY AppendProperties
<1> HIDE DEF A
<1>2. /\ DOMAIN T = 1..Len(T) /\ Len(T) \in Nat /\ DOMAIN A = 1..Len(T) + 1
  BY <1>1, LenProperties
<1>3. ASSUME NEW i \in DOMAIN A, NEW j \in DOMAIN A, i < j
      PROVE  A[i].n < A[j].n
  <2>1. i \in 1..Len(T) /\ A[i] = T[i]
    BY <1>1, <1>2, <1>3
  <2>2. CASE j = Len(T) + 1
    BY <1>1, <1>2, <2>1, <2>2
  <2>3. CASE j # Len(T) + 1
    <3>1. j \in 1..Len(T) /\ A[j] = T[j]
      BY <1>1, <1>2, <2>3
    <3> QED BY <1>2, <1>3, <2>1, <3>1 DEF Increasing
  <2> QED BY <2>2, <2>3
<1>4. ASSUME NEW x \in Numbers(A) PROVE x \in Numbers(T) \cup {b.n}
  BY <1>1, <1>2, <1>4 DEF Numbers
<1>5. ASSUME NEW x \in Numbers(T) \cup {b.n} PROVE x \in Numbers(A)
  <2>1. CASE x = b.n
    <3>1. Len(T) + 1 \in DOMAIN A
      BY <1>2
    <3> QED BY <1>1, <2>1, <3>1 DEF Numbers
  <2>2. CASE x \in Numbers(T)
    <3>1. PICK i \in 1..Len(T) : x = T[i].n
      BY <1>2, <2>2 DEF Numbers
    <3>2. i \in DOMAIN A /\ A[i] = T[i]
      BY <1>1, <1>2
    <3> QED BY <3>1, <3>2 DEF Numbers
  <2> QED BY <1>5, <2>1, <2>2
<1>6. Increasing(A)
  BY <1>3 DEF Increasing
<1>7. Numbers(A) = Numbers(T) \cup {b.n}
  BY <1>4, <1>5
<1> QED BY <1>6, <1>7 DEF A
-----------------------------------------------------------------------------
(* The inductive invariant                                                 *)

\* Between two commands buf counts for nothing: tb uart recv may start it afresh.
IInv ==
  /\ TypeOK
  /\ Fifo
  /\ pc = "idle" => buf = <<>>

\* Printing what buf holds: the bytes that come out and those behind a NUL are all it
\* held, in the order it held them.
LEMMA Prints ==
  ASSUME IInv, NEW s \in Seq(Bytes), NEW r \in Seq(Bytes),
         printed \o buf \o ring = printed \o s \o r,
         shell_print(s), buf' = <<>>, ring' = r, pc' = "idle", overdue' = FALSE,
         Len(r) <= RingSize,
         UNCHANGED <<arrived, dropped>>
  PROVE  IInv'
<1> USE UartAssumption
<1>1. /\ printed \in Seq(Bytes) /\ cut \subseteq 1..MaxBytes /\ dropped \subseteq 1..MaxBytes
      /\ arrived \in 0..MaxBytes
  BY DEF IInv, TypeOK
<1>2. PICK k \in 0..Len(s) :
        /\ answer' = [error |-> FALSE, text |-> SubSeq(s, 1, k)]
        /\ printed' = printed \o SubSeq(s, 1, k)
        /\ cut' = cut \cup {s[i].n : i \in k + 1..Len(s)}
  BY DEF shell_print
<1>3. Len(s) \in Nat /\ Len(printed) \in Nat /\ k \in Nat /\ k <= Len(s)
  BY <1>1, LenProperties
<1> DEFINE T == (printed \o s) \o r
           U == ((printed \o SubSeq(s, 1, k)) \o <<>>) \o r
<1>4. SubSeq(s, 1, k) \in Seq(Bytes)
  BY Split
<1>5. printed' \in Seq(Bytes)
  BY <1>1, <1>2, <1>4, ConcatProperties
<1>6. T \in Seq(Bytes) /\ Len(T) = Len(printed) + Len(s) + Len(r)
      /\ \A i \in 1..Len(s) : T[Len(printed) + i] = s[i]
  BY <1>1, Parts, Zenon
<1>7. Shortened(T, U, Len(printed) + k, Len(s) - k)
  BY <1>1, PrintShortens
<1>8. U \in Seq(Bytes)
  <2>1. (printed \o SubSeq(s, 1, k)) \o <<>> \in Seq(Bytes)
    BY <1>1, <1>2, <1>5, EmptySeq, ConcatProperties
  <2> QED BY <2>1, ConcatProperties
<1>9. Stream = T /\ Stream' = U
  BY <1>2 DEF Stream
<1>10. Increasing(Stream) /\ Numbers(Stream) \cup dropped \cup cut = 1..arrived
  BY DEF IInv, Fifo, Increasing
<1> HIDE DEF T, U
<1>11. Len(r) \in Nat
  BY LenProperties
<1>12. Increasing(U)
  BY <1>3, <1>6, <1>7, <1>8, <1>9, <1>10, ShortenedIncreasing
<1> DEFINE a == Len(printed) + k
           d == Len(s) - k
<1>13. Numbers(T) = Numbers(U) \cup {T[i].n : i \in a + 1..a + d}
  <2>1. a \in Nat /\ d \in Nat /\ a + d <= Len(T)
    BY <1>3, <1>6, <1>11
  <2>2. Shortened(T, U, a, d)
    BY <1>7
  <2> HIDE DEF a, d
  <2> QED BY <1>6, <1>8, <2>1, <2>2, ShortenedNumbers
<1>14. {T[i].n : i \in a + 1..a + d} = {s[i].n : i \in k + 1..Len(s)}
  <2>1. ASSUME NEW i \in a + 1..a + d
        PROVE  /\ i - Len(printed) \in k + 1..Len(s)
               /\ T[i] = s[i - Len(printed)]
    <3>1. /\ i - Len(printed) \in k + 1..Len(s) /\ i - Len(printed) \in 1..Len(s)
          /\ Len(printed) + (i - Len(printed)) = i
      BY <1>3
    <3> QED BY <1>6, <3>1
  <2>2. ASSUME NEW i \in k + 1..Len(s)
        PROVE  Len(printed) + i \in a + 1..a + d /\ T[Len(printed) + i] = s[i]
    <3>1. i \in 1..Len(s) /\ Len(printed) + i \in a + 1..a + d
      BY <1>3
    <3> QED BY <1>6, <3>1
  <2> DEFINE A == a + 1..a + d
             S == k + 1..Len(s)
  <2>3. \A i \in A : i - Len(printed) \in S /\ T[i].n = s[i - Len(printed)].n
    BY <2>1
  <2>4. \A i \in S : Len(printed) + i \in A /\ s[i].n = T[Len(printed) + i].n
    BY <2>2
  <2> HIDE DEF A, S
  <2>5. {T[i].n : i \in A} = {s[i].n : i \in S}
    <3>1. ASSUME NEW x \in {T[i].n : i \in A} PROVE x \in {s[i].n : i \in S}
      <4>1. PICK i \in A : x = T[i].n
        BY <3>1
      <4>2. i - Len(printed) \in S /\ x = s[i - Len(printed)].n
        BY <2>3, <4>1, Zenon
      <4> QED BY <4>2, Zenon
    <3>2. ASSUME NEW x \in {s[i].n : i \in S} PROVE x \in {T[i].n : i \in A}
      <4>1. PICK i \in S : x = s[i].n
        BY <3>2
      <4>2. Len(printed) + i \in A /\ x = T[Len(printed) + i].n
        BY <2>4, <4>1, Zenon
      <4> QED BY <4>2, Zenon
    <3> QED BY <3>1, <3>2, Zenon
  <2> QED BY <2>5, Zenon DEF A, S
<1>15. Numbers(Stream') \cup dropped' \cup cut' = 1..arrived'
  <2> HIDE DEF a, d
  <2> QED BY <1>2, <1>9, <1>10, <1>13, <1>14
<1>16. Fifo'
  <2>1. Increasing(Stream')
    BY <1>9, <1>12
  <2>2. Numbers(Stream)' = Numbers(Stream')
    BY DEF Numbers
  <2> QED BY <1>15, <2>1, <2>2 DEF Fifo, Increasing
<1>17. cut' \subseteq 1..MaxBytes
  <2>1. ASSUME NEW i \in k + 1..Len(s) PROVE s[i].n \in 1..MaxBytes
    <3>1. s[i] \in Bytes
      BY <1>3, ElementOfSeq
    <3> QED BY <3>1 DEF Bytes
  <2> QED BY <1>1, <1>2, <2>1
<1>18. TypeOK'
  <2>1. buf' \in Seq(Bytes) /\ Len(buf') <= BufSize - 1
    <3>1. <<>> \in Seq(Bytes) /\ Len(<<>>) = 0 /\ 0 <= BufSize - 1
      BY EmptySeq
    <3> QED BY <3>1
  <2>2. answer' \in [error : BOOLEAN, text : Seq(Bytes)]
    BY <1>2, <1>4
  <2>3. arrived' \in 0..MaxBytes /\ dropped' \subseteq 1..MaxBytes
    BY <1>1
  <2> HIDE DEF a, d
  <2> QED BY <1>5, <1>17, <2>1, <2>2, <2>3, Zenon DEF TypeOK
<1> QED BY <1>16, <1>18 DEF IInv

LEMMA InitEstablishes == Init => IInv
<1> SUFFICES ASSUME Init PROVE IInv
  OBVIOUS
<1> USE UartAssumption
<1>1. <<>> \in Seq(Bytes) /\ Len(<<>>) = 0
  BY EmptySeq
<1>2. TypeOK
  <2>1. 0 <= BufSize - 1 /\ 0 <= RingSize /\ 0 \in 0..MaxBytes
    OBVIOUS
  <2>2. answer \in [error : BOOLEAN, text : Seq(Bytes)]
    BY <1>1 DEF Init, NoAnswer
  <2>3. /\ ring \in Seq(Bytes) /\ Len(ring) <= RingSize
        /\ buf \in Seq(Bytes) /\ Len(buf) <= BufSize - 1
    BY <1>1, <2>1 DEF Init
  <2> QED BY <1>1, <2>1, <2>2, <2>3, Zenon DEF Init, TypeOK
<1>3. Stream = <<>>
  BY <1>1, ConcatEmptySeq DEF Init, Stream
<1>4. Fifo
  BY <1>3 DEF Init, Fifo, Numbers
<1> QED BY <1>2, <1>4 DEF IInv, Init

\* A byte that arrives goes behind all the others, or counts as dropped.
LEMMA IsrPreserves ==
  ASSUME IInv, NEW kind \in Kinds, uart_rx_isr(kind)
  PROVE  IInv'
<1> USE UartAssumption
<1>1. /\ ring \in Seq(Bytes) /\ Len(ring) <= RingSize /\ buf \in Seq(Bytes)
      /\ printed \in Seq(Bytes) /\ arrived \in 0..MaxBytes
      /\ dropped \subseteq 1..MaxBytes
  BY DEF IInv, TypeOK
<1>2. /\ arrived < MaxBytes /\ arrived' = arrived + 1
      /\ UNCHANGED <<pc, buf, overdue, answer, printed, cut>>
  BY DEF uart_rx_isr
<1>3. Increasing(Stream) /\ Numbers(Stream) \cup dropped \cup cut = 1..arrived
  BY DEF IInv, Fifo, Increasing
<1>4. 1..arrived' = 1..arrived \cup {arrived + 1} /\ arrived' \in 1..MaxBytes
  BY <1>1, <1>2
<1>5. CASE Len(ring) = RingSize /\ dropped' = dropped \cup {arrived + 1} /\ UNCHANGED ring
  <2>1. TypeOK'
    BY <1>1, <1>2, <1>4, <1>5 DEF IInv, TypeOK
  <2>2. Stream' = Stream
    BY <1>2, <1>5 DEF Stream
  <2>3. Numbers(Stream)' = Numbers(Stream)
    BY <2>2 DEF Numbers
  <2>4. Numbers(Stream)' \cup dropped' \cup cut' = 1..arrived'
    BY <1>2, <1>3, <1>4, <1>5, <2>3
  <2>5. \A i, j \in DOMAIN Stream' : i < j => Stream'[i].n < Stream'[j].n
    BY <1>3, <2>2 DEF Increasing
  <2> QED BY <1>2, <2>1, <2>4, <2>5 DEF IInv, Fifo
<1>6. CASE /\ Len(ring) < RingSize
           /\ ring' = Append(ring, [n |-> arrived + 1, kind |-> kind])
           /\ UNCHANGED dropped
  <2> DEFINE b == [n |-> arrived + 1, kind |-> kind]
  <2>1. b \in Bytes /\ b.n = arrived + 1
    BY <1>1, <1>2, <1>4 DEF Bytes
  <2> HIDE DEF b
  <2>2. /\ ring' = Append(ring, b) /\ ring' \in Seq(Bytes) /\ Len(ring') = Len(ring) + 1
        /\ ring' = ring \o <<b>> /\ <<b>> \in Seq(Bytes)
    BY <1>1, <1>6, <2>1, AppendProperties, AppendIsConcat DEF b
  <2>3. Stream \in Seq(Bytes) /\ printed \o buf \in Seq(Bytes)
    BY <1>1, ConcatProperties DEF Stream
  <2>4. Stream' = Append(Stream, b)
    <3>1. Stream' = (printed \o buf) \o (ring \o <<b>>)
      BY <1>2, <2>2 DEF Stream
    <3>2. ((printed \o buf) \o ring) \o <<b>> = (printed \o buf) \o (ring \o <<b>>)
      <4>1. printed \o buf \in Seq(Bytes) /\ ring \in Seq(Bytes) /\ <<b>> \in Seq(Bytes)
        BY <1>1, <2>2, <2>3
      <4> QED BY <4>1, Regroup, Zenon
    <3>3. Append(Stream, b) = Stream \o <<b>>
      BY <2>1, <2>3, AppendIsConcat
    <3> QED BY <3>1, <3>2, <3>3 DEF Stream
  <2>5. \A i \in DOMAIN Stream : Stream[i].n < b.n
    <3> SUFFICES ASSUME NEW i \in DOMAIN Stream PROVE Stream[i].n < b.n
      OBVIOUS
    <3>1. Stream[i].n \in 1..arrived
      BY <1>3 DEF Numbers
    <3> QED BY <1>1, <2>1, <3>1
  <2>6. /\ Increasing(Append(Stream, b))
        /\ Numbers(Append(Stream, b)) = Numbers(Stream) \cup {b.n}
    BY <1>3, <2>1, <2>3, <2>5, AppendIncreasing
  <2>7. Numbers(Stream)' = Numbers(Append(Stream, b))
    BY <2>4 DEF Numbers
  <2>8. Numbers(Stream)' \cup dropped' \cup cut' = 1..arrived'
    BY <1>2, <1>3, <1>4, <1>6, <2>1, <2>6, <2>7
  <2>9. \A i, j \in DOMAIN Stream' : i < j => Stream'[i].n < Stream'[j].n
    BY <2>4, <2>6 DEF Increasing
  <2>10. Len(ring') <= RingSize
    BY <1>1, <1>6, <2>2, LenProperties
  <2>11. TypeOK'
    BY <1>2, <1>4, <1>6, <2>2, <2>10 DEF IInv, TypeOK
  <2> QED BY <1>2, <2>8, <2>9, <2>11 DEF IInv, Fifo
<1> QED BY <1>5, <1>6 DEF uart_rx_isr

\* One chunk moves from the ring to the end of buf, which stays short of its size.
LEMMA GetPreserves == IInv /\ RecvGet => IInv'
<1> SUFFICES ASSUME IInv, RecvGet PROVE IInv'
  OBVIOUS
<1> USE UartAssumption
<1>1. /\ ring \in Seq(Bytes) /\ Len(ring) <= RingSize
      /\ buf \in Seq(Bytes) /\ Len(buf) <= BufSize - 1
      /\ printed \in Seq(Bytes) /\ Len(ring) \in Nat /\ Len(buf) \in Nat
  BY LenProperties DEF IInv, TypeOK
<1> DEFINE m == least(Len(ring), BufSize - Len(buf) - 1)
           c == SubSeq(ring, 1, m)
           s == buf \o c
           r == SubSeq(ring, m + 1, Len(ring))
<1>2. Got(m, s) /\ pc = "loop" /\ ~overdue
  BY DEF RecvGet
<1>3. m \in 0..Len(ring) /\ m <= BufSize - Len(buf) - 1
  BY <1>1 DEF least
<1> HIDE DEF m
<1>4. /\ c \in Seq(Bytes) /\ Len(c) = m /\ r \in Seq(Bytes) /\ c \o r = ring
  BY <1>1, <1>3, Split
<1>5. Len(r) <= RingSize
  <2>1. Len(c \o r) = Len(c) + Len(r) /\ Len(r) \in Nat /\ Len(c) \in Nat
    BY <1>4, ConcatProperties, LenProperties
  <2> QED BY <1>1, <1>3, <1>4, <2>1
<1> HIDE DEF c, r
<1>6. s \in Seq(Bytes) /\ Len(s) <= BufSize - 1
  <2>1. s \in Seq(Bytes) /\ Len(s) = Len(buf) + Len(c)
    BY <1>1, <1>4, ConcatProperties
  <2> QED BY <1>1, <1>3, <1>4, <2>1
<1>7. printed \o buf \o ring = printed \o s \o r
  <2>1. printed \o s = (printed \o buf) \o c
    BY <1>1, <1>4, Regroup, Zenon
  <2>2. printed \o buf \in Seq(Bytes)
    BY <1>1, ConcatProperties
  <2>3. ((printed \o buf) \o c) \o r = (printed \o buf) \o (c \o r)
    BY <1>4, <2>2, Regroup, Zenon
  <2> QED BY <1>4, <2>1, <2>3
<1> HIDE DEF s
<1>8. ring' = r /\ UNCHANGED <<arrived, dropped>>
  BY <1>2 DEF Got, r
<1>9. CASE /\ shell_print(s)
           /\ pc' = "idle" /\ buf' = <<>> /\ overdue' = FALSE
  BY <1>4, <1>5, <1>6, <1>7, <1>8, <1>9, Prints
<1>10. CASE buf' = s /\ UNCHANGED <<pc, overdue, answer, printed, cut>>
  <2>1. Stream' = Stream
    BY <1>7, <1>8, <1>10 DEF Stream
  <2>2. Fifo'
    BY <1>8, <1>10, <2>1 DEF IInv, Fifo, Numbers
  <2>3. TypeOK'
    BY <1>4, <1>5, <1>6, <1>8, <1>10 DEF IInv, TypeOK
  <2> QED BY <1>2, <1>10, <2>2, <2>3 DEF IInv
<1> QED BY <1>2, <1>9, <1>10 DEF Got

LEMMA TimeoutPreserves == IInv /\ RecvTimeout => IInv'
<1> SUFFICES ASSUME IInv, RecvTimeout PROVE IInv'
  OBVIOUS
<1>1. /\ ring \in Seq(Bytes) /\ Len(ring) <= RingSize /\ buf \in Seq(Bytes)
  BY DEF IInv, TypeOK
<1>2. pc' = "idle" /\ buf' = <<>> /\ overdue' = FALSE /\ UNCHANGED <<ring, arrived, dropped>>
  BY DEF RecvTimeout
<1>3. CASE shell_print(buf)
  BY <1>1, <1>2, <1>3, Prints
<1>4. CASE /\ buf = <<>> /\ answer' = [error |-> TRUE, text |-> <<>>]
           /\ UNCHANGED <<printed, cut>>
  <2>1. UNCHANGED <<buf, ring, printed, dropped, cut, arrived>>
    BY <1>2, <1>4
  <2>2. Fifo'
    BY <2>1 DEF IInv, Fifo, Numbers, Stream
  <2>3. answer' \in [error : BOOLEAN, text : Seq(Bytes)]
    BY <1>4, EmptySeq
  <2>4. TypeOK'
    BY <1>2, <2>1, <2>3 DEF IInv, TypeOK
  <2> QED BY <1>2, <2>2, <2>4 DEF IInv
<1> QED BY <1>3, <1>4 DEF RecvTimeout

LEMMA BeginPreserves ==
  ASSUME IInv, NEW timeout_ms \in Timeouts, RecvBegin(timeout_ms)
  PROVE  IInv'
<1> USE UartAssumption
<1>1. buf = <<>> /\ buf' = <<>> /\ pc' = "loop"
  BY DEF IInv, RecvBegin
<1>2. UNCHANGED <<buf, ring, printed, dropped, cut, arrived>>
  BY <1>1 DEF RecvBegin
<1>3. Fifo'
  BY <1>2 DEF IInv, Fifo, Numbers, Stream
<1>4. answer' \in [error : BOOLEAN, text : Seq(Bytes)] /\ overdue' \in BOOLEAN
  BY EmptySeq DEF RecvBegin, NoAnswer
<1>5. TypeOK'
  BY <1>1, <1>2, <1>4 DEF IInv, TypeOK
<1> QED BY <1>1, <1>3, <1>5 DEF IInv

LEMMA NextPreserves == IInv /\ [Next]_vars => IInv'
<1> SUFFICES ASSUME IInv, [Next]_vars PROVE IInv'
  OBVIOUS
<1>1. ASSUME NEW kind \in Kinds, uart_rx_isr(kind) PROVE IInv'
  BY <1>1, IsrPreserves
<1>2. ASSUME NEW timeout_ms \in Timeouts, RecvBegin(timeout_ms) PROVE IInv'
  BY <1>2, BeginPreserves
<1>3. CASE RecvGet
  BY <1>3, GetPreserves
<1>4. CASE Deadline
  BY <1>4 DEF Deadline, IInv, TypeOK, Fifo, Stream, Numbers
<1>5. CASE RecvTimeout
  BY <1>5, TimeoutPreserves
<1>6. CASE UNCHANGED vars
  BY <1>6 DEF vars, IInv, TypeOK, Fifo, Stream, Numbers
<1> QED BY <1>1, <1>2, <1>3, <1>4, <1>5, <1>6 DEF Next

THEOREM Invariance == Spec => []IInv
<1>1. Init => IInv
  BY InitEstablishes
<1>2. IInv /\ [Next]_vars => IInv'
  BY NextPreserves
<1> QED BY <1>1, <1>2, PTL DEF Spec
-----------------------------------------------------------------------------
(* The results                                                             *)

\* Neither the ring buffer nor buf ever holds more than it has room for, the
\* terminator cmd_uart_recv stores behind buf included.
THEOREM TypeCorrect == Spec => []TypeOK
<1>1. IInv => TypeOK
  BY DEF IInv
<1> QED BY <1>1, Invariance, PTL

\* Through any number of tb uart recv, for every interleaving of the ISR, the bytes
\* come out once and in order, and only a full ring or a NUL swallows one.
THEOREM FifoCorrect == Spec => []Fifo
<1>1. IInv => Fifo
  BY DEF IInv
<1> QED BY <1>1, Invariance, PTL
=============================================================================
