------------------------ MODULE TcpClientPoolProofs ------------------------
(***************************************************************************)
(* Proofs about the client side of tcp, for any number of rule threads,    *)
(* loops, connections and events and any batch size, queue and buffer      *)
(* capacity: an event that was queued is in one place and reaches the      *)
(* server once and in order, and it is lost only with a connection.        *)
(***************************************************************************)
EXTENDS TcpClientPool, FiniteSetTheorems, WellFoundedInduction, TLAPS

-----------------------------------------------------------------------------
(* Sequences, and the concatenation of the outputs of a queue.              *)

\* A set of natural numbers that is not empty has a least element.
LEMMA Least ==
  ASSUME NEW T, T \subseteq Nat, T # {}
  PROVE  \E x \in T : \A y \in T : x <= y
<1> DEFINE R == {ss \in Nat \X Nat : ss[1] < ss[2]}
<1>1. R = OpToRel(<, Nat)
  BY Zenon DEF OpToRel
<1>2. IsWellFoundedOn(R, Nat)
  BY Zenon, <1>1, NatLessThanWellFounded
<1> HIDE DEF R
<1>3. PICK x \in T : \A y \in T : ~ (<<y, x>> \in R)
  BY Zenon, <1>2, WFMin
<1>4. ASSUME NEW y \in T PROVE x <= y
  <2>1. <<y, x>> \in Nat \X Nat /\ <<y, x>>[1] = y /\ <<y, x>>[2] = x
    BY Zenon
  <2>2. y < x => <<y, x>> \in R
    BY Zenon, <2>1 DEF R
  <2> QED
    BY <1>3, <2>2
<1> QED
  BY Zenon, <1>4

\* Induction over the natural numbers, for a set: the statement is that every
\* number is in the set.
LEMMA SetInduction ==
  ASSUME NEW T, 0 \in T, \A n \in Nat : n \in T => n + 1 \in T
  PROVE  Nat \subseteq T
<1> SUFFICES ASSUME Nat \ T # {} PROVE FALSE
  BY Zenon
<1>1. PICK x \in Nat \ T : \A y \in Nat \ T : x <= y
  BY Zenon, Least
<1>2. x # 0 /\ x - 1 \in Nat /\ x - 1 \notin Nat \ T
  BY <1>1
<1>3. (x - 1) + 1 \in T
  BY Zenon, <1>2
<1> QED
  BY <1>1, <1>3


\* f holds the concatenations of the first outputs of s.
Chain(s, f) ==
  /\ f \in [1..Len(s) -> Seq(Nat)]
  /\ f[1] = s[1]
  /\ \A k \in 2..Len(s) : f[k] = f[k - 1] \o s[k]

\* The concatenations of the first outputs exist.
LEMMA ChainExists ==
  ASSUME NEW s \in Seq(Seq(Nat)), s # <<>>
  PROVE  \E f : Chain(s, f)
<1> DEFINE N == Len(s)
           Ok(n) == \E f \in [1..n -> Seq(Nat)] :
                       f[1] = s[1] /\ \A k \in 2..n : f[k] = f[k - 1] \o s[k]
           T == {n \in Nat : 1 <= n /\ n <= N => Ok(n)}
<1>0. N \in Nat /\ 1 <= N /\ \A k \in 1..N : s[k] \in Seq(Nat)
  OBVIOUS
<1> HIDE DEF N, Ok
<1>1. 0 \in T
  OBVIOUS
<1>2. ASSUME NEW n \in Nat, n \in T PROVE n + 1 \in T
  <2> SUFFICES ASSUME n + 1 <= N PROVE Ok(n + 1)
    OBVIOUS
  <2>1. CASE n = 0
    <3> DEFINE f == [k \in 1..1 |-> s[1]]
    <3>1. f \in [1..1 -> Seq(Nat)] /\ f[1] = s[1] /\ \A k \in 2..1 : FALSE
      BY <1>0
    <3> HIDE DEF f
    <3>2. Ok(1)
      BY Zenon, <3>1 DEF Ok
    <3> QED
      BY <2>1, <3>2
  <2>2. CASE n # 0
    <3>1. Ok(n)
      BY <1>0, <1>2, <2>2
    <3>2. PICK f \in [1..n -> Seq(Nat)] : f[1] = s[1] /\ \A k \in 2..n : f[k] = f[k - 1] \o s[k]
      BY Zenon, <3>1 DEF Ok
    <3> DEFINE x == f[n] \o s[n + 1]
               g == [k \in 1..(n + 1) |-> IF k <= n THEN f[k] ELSE x]
    <3>3. x \in Seq(Nat)
      <4>1. f[n] \in Seq(Nat) /\ s[n + 1] \in Seq(Nat)
        BY <1>0, <2>2
      <4> QED
        BY <4>1
    <3>4. x = f[n] \o s[n + 1]
      OBVIOUS
    <3> HIDE DEF x
    <3>5. g \in [1..(n + 1) -> Seq(Nat)] /\ g[1] = s[1]
      BY <2>2, <3>2, <3>3
    <3>6. ASSUME NEW k \in 2..(n + 1) PROVE g[k] = g[k - 1] \o s[k]
      <4>1. CASE k <= n
        <5>1. k \in 2..n /\ g[k] = f[k] /\ g[k - 1] = f[k - 1]
          BY <4>1
        <5> QED
          BY Zenon, <3>2, <5>1
      <4>2. CASE ~(k <= n)
        <5>1. k = n + 1 /\ g[k] = x /\ g[k - 1] = f[n]
          BY <2>2, <4>2
        <5> QED
          BY Zenon, <3>4, <5>1
      <4> QED
        BY Zenon, <4>1, <4>2
    <3> HIDE DEF g
    <3> QED
      BY Zenon, <3>5, <3>6 DEF Ok
  <2> QED
    BY Zenon, <2>1, <2>2
<1> HIDE DEF T
<1>a. \A n \in Nat : n \in T => n + 1 \in T
  BY Zenon, <1>2
<1>3. N \in T
  BY Zenon, <1>0, <1>1, <1>a, SetInduction
<1>4. Ok(N)
  BY <1>0, <1>3 DEF T
<1> QED
  BY Zenon, <1>4 DEF Ok, Chain, N

Agree(s, t, n) == \A i \in 1..n : s[i] = t[i]

\* The chains of two queues agree as long as their outputs do.
LEMMA ChainsAgree ==
  ASSUME NEW s, NEW t, NEW f, NEW g, Chain(s, f), Chain(t, g), NEW n \in Nat,
         Len(s) \in Nat, Len(t) \in Nat, n <= Len(s), n <= Len(t),
         Agree(s, t, n)
  PROVE  Agree(f, g, n)
<1> DEFINE T == {k \in Nat : k \in 1..n => f[k] = g[k]}
<1>1. 0 \in T
  OBVIOUS
<1>2. ASSUME NEW k \in Nat, k \in T PROVE k + 1 \in T
  <2> SUFFICES ASSUME k + 1 \in 1..n PROVE f[k + 1] = g[k + 1]
    OBVIOUS
  <2>1. CASE k = 0
    BY <2>1 DEF Chain, Agree
  <2>2. CASE k # 0
    <3>1. k \in 1..n /\ (k + 1) - 1 = k /\ k + 1 \in 2..Len(s) /\ k + 1 \in 2..Len(t)
      BY <2>2
    <3>2. f[k] = g[k] /\ s[k + 1] = t[k + 1]
      BY <1>2, <3>1 DEF Agree
    <3> QED
      BY Zenon, <3>1, <3>2 DEF Chain
  <2> QED
    BY Zenon, <2>1, <2>2
<1> HIDE DEF T
<1>3. \A k \in Nat : k \in T => k + 1 \in T
  BY Zenon, <1>2
<1>4. \A k \in Nat : k \in T
  BY Zenon, <1>1, <1>3, SetInduction
<1> QED
  BY <1>4 DEF T, Agree

\* Joined computes the last link of the chain.
LEMMA JoinedChain ==
  ASSUME NEW s \in Seq(Seq(Nat)), s # <<>>
  PROVE  \E f : Chain(s, f) /\ Joined(s) = f[Len(s)]
<1> DEFINE n == Len(s)
           P(f) == f = [i \in 1..n |-> IF i = 1 THEN s[i] ELSE f[i - 1] \o s[i]]
           A == CHOOSE f : P(f)
<1>1. n \in Nat /\ n # 0 /\ 1 \in 1..n
  OBVIOUS
<1>2. Joined(s) = A[n]
  BY Zenon, <1>1 DEF Joined
<1>3. PICK h : Chain(s, h)
  BY Zenon, ChainExists
<1>4. P(h)
  <2>1. \A i \in 1..n : h[i] = IF i = 1 THEN s[i] ELSE h[i - 1] \o s[i]
    <3> SUFFICES ASSUME NEW i \in 1..n PROVE h[i] = IF i = 1 THEN s[i] ELSE h[i - 1] \o s[i]
      BY Zenon
    <3>1. i # 1 => i \in 2..n
      OBVIOUS
    <3> QED
      BY Zenon, <1>3, <3>1 DEF Chain
  <2> QED
    BY Zenon, <1>3, <2>1 DEF Chain
<1>5. P(A)
  BY Zenon, <1>4
<1> HIDE DEF A
<1>6. A[1] = s[1] /\ \A k \in 2..n : A[k] = A[k - 1] \o s[k]
  <2>1. \A i \in 1..n : A[i] = IF i = 1 THEN s[i] ELSE A[i - 1] \o s[i]
    BY Zenon, <1>5
  <2>2. \A k \in 2..n : k \in 1..n /\ k # 1
    BY <1>1
  <2> QED
    BY Zenon, <1>1, <2>1, <2>2
<1>7. \A k \in 1..n : A[k] = h[k]
  <2> DEFINE T == {k \in Nat : k \in 1..n => A[k] = h[k]}
  <2>1. 0 \in T
    OBVIOUS
  <2>2. ASSUME NEW k \in Nat, k \in T PROVE k + 1 \in T
    <3> SUFFICES ASSUME k + 1 \in 1..n PROVE A[k + 1] = h[k + 1]
      OBVIOUS
    <3>1. CASE k = 0
      BY <1>3, <1>6, <3>1 DEF Chain
    <3>2. CASE k # 0
      <4>1. k \in 1..n /\ (k + 1) - 1 = k /\ k + 1 \in 2..n
        BY <3>2
      <4>2. A[k] = h[k]
        BY <2>2, <4>1
      <4> QED
        BY Zenon, <1>3, <1>6, <4>1, <4>2 DEF Chain
    <3> QED
      BY Zenon, <3>1, <3>2
  <2> HIDE DEF T
  <2>3. \A k \in Nat : k \in T => k + 1 \in T
    BY Zenon, <2>2
  <2>4. \A k \in Nat : k \in T
    BY Zenon, <2>1, <2>3, SetInduction
  <2> QED
    BY <2>4 DEF T
<1>8. n \in 1..n
  BY <1>1
<1> QED
  BY Zenon, <1>2, <1>3, <1>7, <1>8

\* The concatenation of outputs is a sequence of events.
LEMMA JoinedType ==
  ASSUME NEW s \in Seq(Seq(Nat))
  PROVE  Joined(s) \in Seq(Nat)
<1>1. CASE s = <<>>
  BY <1>1 DEF Joined
<1>2. CASE s # <<>>
  <2>1. PICK f : Chain(s, f) /\ Joined(s) = f[Len(s)]
    BY Zenon, <1>2, JoinedChain
  <2>2. Len(s) \in 1..Len(s)
    BY <1>2
  <2> QED
    BY Zenon, <2>1, <2>2 DEF Chain
<1> QED
  BY Zenon, <1>1, <1>2

LEMMA JoinedEmpty == Joined(<<>>) = <<>>
  BY DEF Joined

LEMMA AppendAgrees ==
  ASSUME NEW S, NEW s \in Seq(S), NEW x \in S
  PROVE  Agree(s, Append(s, x), Len(s))
  BY DEF Agree

\* An output more at the end of a queue.
LEMMA JoinedAppend ==
  ASSUME NEW s \in Seq(Seq(Nat)), NEW x \in Seq(Nat)
  PROVE  Joined(Append(s, x)) = Joined(s) \o x
<1> DEFINE t == Append(s, x)
<1>1. /\ t \in Seq(Seq(Nat)) /\ t # <<>> /\ Len(t) = Len(s) + 1 /\ t[Len(s) + 1] = x
      /\ Len(s) \in Nat /\ Agree(s, t, Len(s))
  <2>1. Len(s) \in Nat /\ Len(t) = Len(s) + 1 /\ t[Len(s) + 1] = x /\ t \in Seq(Seq(Nat))
    OBVIOUS
  <2>2. t # <<>>
    <3> HIDE DEF t
    <3> QED
      BY <2>1
  <2>3. Agree(s, t, Len(s))
    BY Zenon, AppendAgrees
  <2> QED
    BY Zenon, <2>1, <2>2, <2>3
<1> HIDE DEF t
<1>2. PICK g : Chain(t, g) /\ Joined(t) = g[Len(s) + 1]
  BY Zenon, <1>1, JoinedChain
<1>3. CASE s = <<>>
  <2>1. Len(s) + 1 = 1 /\ t[1] = x
    BY <1>1, <1>3
  <2>2. Joined(t) = x
    BY Zenon, <1>2, <2>1 DEF Chain
  <2>3. Joined(s) = <<>>
    BY Zenon, <1>3, JoinedEmpty
  <2> QED
    BY <2>2, <2>3 DEF t
<1>4. CASE s # <<>>
  <2>1. PICK f : Chain(s, f) /\ Joined(s) = f[Len(s)]
    BY Zenon, <1>4, JoinedChain
  <2>2. /\ Len(s) \in 1..Len(s) /\ Len(s) <= Len(s) /\ Len(s) <= Len(t) /\ Len(t) \in Nat
        /\ Len(s) + 1 \in 2..Len(t) /\ (Len(s) + 1) - 1 = Len(s)
    BY <1>1, <1>4
  <2>3. f[Len(s)] = g[Len(s)]
    <3>1. Agree(f, g, Len(s))
      BY Zenon, <1>1, <1>2, <2>1, <2>2, ChainsAgree
    <3> QED
      BY Zenon, <2>2, <3>1 DEF Agree
  <2>4. g[Len(s) + 1] = g[Len(s)] \o x
    BY Zenon, <1>1, <1>2, <2>2 DEF Chain
  <2> QED
    BY Zenon, <1>2, <2>1, <2>2, <2>3, <2>4 DEF t
<1> QED
  BY Zenon, <1>3, <1>4

LEMMA ConcatAssoc ==
  ASSUME NEW a \in Seq(Nat), NEW b \in Seq(Nat), NEW c \in Seq(Nat)
  PROVE  (a \o b) \o c = a \o (b \o c)
  OBVIOUS

LEMMA SubSeqMore ==
  ASSUME NEW S, NEW s \in Seq(S), NEW a \in Nat, NEW m \in Nat, 1 <= a, a <= m + 1, m + 1 <= Len(s)
  PROVE  SubSeq(s, a, m + 1) = Append(SubSeq(s, a, m), s[m + 1])
  OBVIOUS

\* The first n outputs of a queue and the others.
LEMMA JoinedSplit ==
  ASSUME NEW s \in Seq(Seq(Nat)), NEW n \in 0..Len(s)
  PROVE  Joined(SubSeq(s, 1, n)) \o Joined(SubSeq(s, n + 1, Len(s))) = Joined(s)
<1> DEFINE N == Len(s)
           a == Joined(SubSeq(s, 1, n))
           Ok(m) == a \o Joined(SubSeq(s, n + 1, m)) = Joined(SubSeq(s, 1, m))
           T == {m \in Nat : n <= m /\ m <= N => Ok(m)}
<1>0. N \in Nat /\ n \in Nat /\ n <= N /\ \A k \in 1..N : s[k] \in Seq(Nat)
  OBVIOUS
<1>1. \A m \in 0..N : SubSeq(s, 1, m) \in Seq(Seq(Nat)) /\ SubSeq(s, n + 1, m) \in Seq(Seq(Nat))
  OBVIOUS
<1>2. a \in Seq(Nat)
  BY Zenon, <1>1, JoinedType
<1>3. Ok(n)
  <2>1. SubSeq(s, n + 1, n) = <<>>
    BY <1>0
  <2>2. Joined(SubSeq(s, n + 1, n)) = <<>>
    BY Zenon, <2>1, JoinedEmpty
  <2> HIDE DEF a
  <2>3. a \o <<>> = a
    BY <1>2
  <2> QED
    BY Zenon, <2>2, <2>3 DEF a
<1>4. ASSUME NEW m \in Nat, n <= m, m + 1 <= N, Ok(m) PROVE Ok(m + 1)
  <2> DEFINE b == SubSeq(s, n + 1, m)
             c == SubSeq(s, 1, m)
             x == s[m + 1]
  <2>1. b \in Seq(Seq(Nat)) /\ c \in Seq(Seq(Nat)) /\ x \in Seq(Nat)
    BY <1>0, <1>1, <1>4
  <2>2. SubSeq(s, n + 1, m + 1) = Append(b, x)
    <3>1. n + 1 \in Nat /\ 1 <= n + 1 /\ n + 1 <= m + 1 /\ m + 1 <= Len(s)
      BY <1>0, <1>4
    <3> QED
      BY Zenon, <3>1, SubSeqMore
  <2>3. SubSeq(s, 1, m + 1) = Append(c, x)
    BY <1>0, <1>4
  <2>4. a \o Joined(b) = Joined(c)
    BY Zenon, <1>4
  <2> HIDE DEF a, b, c, x
  <2>5. Joined(Append(b, x)) = Joined(b) \o x /\ Joined(Append(c, x)) = Joined(c) \o x
    BY Zenon, <2>1, JoinedAppend
  <2>6. Joined(b) \in Seq(Nat)
    BY Zenon, <2>1, JoinedType
  <2>7. a \o (Joined(b) \o x) = Joined(c) \o x
    <3>1. (a \o Joined(b)) \o x = a \o (Joined(b) \o x)
      BY Zenon, <1>2, <2>1, <2>6, ConcatAssoc
    <3> QED
      BY Zenon, <2>4, <3>1
  <2> QED
    BY Zenon, <2>2, <2>3, <2>5, <2>7
<1> HIDE DEF Ok
<1>5. 0 \in T
  BY <1>0, <1>3
<1>6. ASSUME NEW m \in Nat, m \in T PROVE m + 1 \in T
  <2> SUFFICES ASSUME n <= m + 1, m + 1 <= N PROVE Ok(m + 1)
    OBVIOUS
  <2>1. CASE n = m + 1
    BY Zenon, <2>1, <1>3
  <2>2. CASE n # m + 1
    BY <1>0, <1>4, <1>6, <2>2
  <2> QED
    BY Zenon, <2>1, <2>2
<1> HIDE DEF T
<1>7. \A m \in Nat : m \in T => m + 1 \in T
  BY Zenon, <1>6
<1>8. N \in T
  BY Zenon, <1>0, <1>5, <1>7, SetInduction
<1>9. Ok(N)
  BY <1>0, <1>8 DEF T
<1>10. SubSeq(s, 1, N) = s
  BY <1>0
<1> QED
  BY Zenon, <1>9, <1>10 DEF Ok, N

Increasing(s) == \A i, j \in DOMAIN s : i < j => s[i] < s[j]
Below(S, T) == \A a \in S, b \in T : a < b

LEMMA RangeConcat ==
  ASSUME NEW a \in Seq(Nat), NEW b \in Seq(Nat)
  PROVE  /\ a \o b \in Seq(Nat)
         /\ \A e : e \in Range(a \o b) <=> e \in Range(a) \/ e \in Range(b)
<1> DEFINE c == a \o b
<1>1. /\ c \in Seq(Nat) /\ Len(a) \in Nat /\ Len(b) \in Nat /\ Len(c) = Len(a) + Len(b)
      /\ DOMAIN a = 1..Len(a) /\ DOMAIN b = 1..Len(b) /\ DOMAIN c = 1..Len(c)
  OBVIOUS
<1>2. /\ \A i \in 1..Len(a) : c[i] = a[i]
      /\ \A i \in 1..Len(b) : c[Len(a) + i] = b[i]
  OBVIOUS
<1> HIDE DEF c
<1>3. ASSUME NEW i \in 1..Len(c) PROVE c[i] \in Range(a) \/ c[i] \in Range(b)
  <2>1. CASE i <= Len(a)
    <3>1. i \in 1..Len(a)
      BY <1>1, <2>1
    <3> QED
      BY Zenon, <1>1, <1>2, <3>1 DEF Range
  <2>2. CASE ~(i <= Len(a))
    <3>1. i - Len(a) \in 1..Len(b) /\ Len(a) + (i - Len(a)) = i
      BY <1>1, <2>2
    <3> QED
      BY Zenon, <1>1, <1>2, <3>1 DEF Range
  <2> QED
    BY Zenon, <2>1, <2>2
<1>4. ASSUME NEW i \in 1..Len(a) PROVE a[i] \in Range(c)
  BY <1>1, <1>2 DEF Range
<1>5. ASSUME NEW i \in 1..Len(b) PROVE b[i] \in Range(c)
  <2>1. Len(a) + i \in 1..Len(c)
    BY <1>1
  <2> QED
    BY Zenon, <1>1, <1>2, <2>1 DEF Range
<1>6. ASSUME NEW e PROVE e \in Range(c) <=> e \in Range(a) \/ e \in Range(b)
  BY Zenon, <1>1, <1>3, <1>4, <1>5 DEF Range
<1> QED
  BY Zenon, <1>1, <1>6 DEF c

LEMMA AppendRange ==
  ASSUME NEW S, NEW s \in Seq(S), NEW x \in S
  PROVE  /\ Append(s, x) \in Seq(S)
         /\ \A e : e \in Range(Append(s, x)) <=> e \in Range(s) \/ e = x
<1> DEFINE t == Append(s, x)
<1>1. /\ t \in Seq(S) /\ DOMAIN t = 1..(Len(s) + 1) /\ DOMAIN s = 1..Len(s) /\ Len(s) \in Nat
      /\ t[Len(s) + 1] = x
  OBVIOUS
<1>2. \A i \in 1..Len(s) : t[i] = s[i]
  OBVIOUS
<1> HIDE DEF t
<1>3. /\ \A i \in 1..Len(s) : i \in 1..(Len(s) + 1)
      /\ \A i \in 1..(Len(s) + 1) : i \in 1..Len(s) \/ i = Len(s) + 1
      /\ Len(s) + 1 \in 1..(Len(s) + 1)
  BY <1>1
<1>4. \A e : e \in Range(t) <=> e \in Range(s) \/ e = x
  BY Zenon, <1>1, <1>2, <1>3 DEF Range
<1> QED
  BY Zenon, <1>1, <1>4 DEF t

LEMMA IncreasingConcat ==
  ASSUME NEW a \in Seq(Nat), NEW b \in Seq(Nat)
  PROVE  Increasing(a \o b) <=> Increasing(a) /\ Increasing(b) /\ Below(Range(a), Range(b))
<1> DEFINE c == a \o b
<1>1. /\ c \in Seq(Nat) /\ Len(a) \in Nat /\ Len(b) \in Nat /\ Len(c) = Len(a) + Len(b)
      /\ DOMAIN a = 1..Len(a) /\ DOMAIN b = 1..Len(b) /\ DOMAIN c = 1..Len(c)
  OBVIOUS
<1>2. /\ \A i \in 1..Len(a) : c[i] = a[i]
      /\ \A i \in 1..Len(b) : c[Len(a) + i] = b[i]
  OBVIOUS
<1> HIDE DEF c
<1>3. ASSUME Increasing(c) PROVE Increasing(a) /\ Increasing(b) /\ Below(Range(a), Range(b))
  <2>1. ASSUME NEW i \in 1..Len(a), NEW j \in 1..Len(a), i < j PROVE a[i] < a[j]
    <3>1. i \in DOMAIN c /\ j \in DOMAIN c
      BY <1>1
    <3> QED
      BY Zenon, <1>2, <1>3, <2>1, <3>1 DEF Increasing
  <2>2. ASSUME NEW i \in 1..Len(b), NEW j \in 1..Len(b), i < j PROVE b[i] < b[j]
    <3>1. Len(a) + i \in DOMAIN c /\ Len(a) + j \in DOMAIN c /\ Len(a) + i < Len(a) + j
      BY <1>1, <2>2
    <3> QED
      BY <1>2, <1>3, <3>1 DEF Increasing
  <2>3. ASSUME NEW i \in 1..Len(a), NEW j \in 1..Len(b) PROVE a[i] < b[j]
    <3>1. i \in DOMAIN c /\ Len(a) + j \in DOMAIN c /\ i < Len(a) + j
      BY <1>1
    <3> QED
      BY <1>2, <1>3, <3>1 DEF Increasing
  <2>4. Increasing(a) /\ Increasing(b)
    BY Zenon, <1>1, <2>1, <2>2 DEF Increasing
  <2>5. Below(Range(a), Range(b))
    BY Zenon, <1>1, <2>3 DEF Below, Range
  <2> QED
    BY Zenon, <2>4, <2>5
<1>4. ASSUME Increasing(a), Increasing(b), Below(Range(a), Range(b)) PROVE Increasing(c)
  <2> SUFFICES ASSUME NEW i \in 1..Len(c), NEW j \in 1..Len(c), i < j PROVE c[i] < c[j]
    BY Zenon, <1>1 DEF Increasing
  <2>1. CASE j <= Len(a)
    <3>1. i \in DOMAIN a /\ j \in DOMAIN a /\ c[i] = a[i] /\ c[j] = a[j]
      BY <1>1, <1>2, <2>1
    <3> QED
      BY <1>4, <3>1 DEF Increasing
  <2>2. CASE ~(j <= Len(a)) /\ i <= Len(a)
    <3>0. i \in 1..Len(a) /\ j - Len(a) \in 1..Len(b) /\ Len(a) + (j - Len(a)) = j
      BY <1>1, <2>2
    <3>1. i \in DOMAIN a /\ j - Len(a) \in DOMAIN b /\ c[i] = a[i] /\ c[j] = b[j - Len(a)]
      BY Zenon, <1>1, <1>2, <3>0
    <3> QED
      BY Zenon, <1>4, <3>1 DEF Below, Range
  <2>3. CASE ~(j <= Len(a)) /\ ~(i <= Len(a))
    <3>0. /\ i - Len(a) \in 1..Len(b) /\ Len(a) + (i - Len(a)) = i
          /\ j - Len(a) \in 1..Len(b) /\ Len(a) + (j - Len(a)) = j /\ i - Len(a) < j - Len(a)
      BY <1>1, <2>3
    <3>1. /\ i - Len(a) \in DOMAIN b /\ j - Len(a) \in DOMAIN b /\ i - Len(a) < j - Len(a)
          /\ c[i] = b[i - Len(a)] /\ c[j] = b[j - Len(a)]
      BY Zenon, <1>1, <1>2, <3>0
    <3> QED
      BY Zenon, <1>4, <3>1 DEF Increasing
  <2> QED
    BY Zenon, <2>1, <2>2, <2>3
<1> QED
  BY Zenon, <1>3, <1>4 DEF c

LEMMA SplitAt ==
  ASSUME NEW w \in Seq(Nat), NEW k \in 0..Len(w)
  PROVE  /\ SubSeq(w, 1, k) \in Seq(Nat) /\ SubSeq(w, k + 1, Len(w)) \in Seq(Nat)
         /\ SubSeq(w, 1, k) \o SubSeq(w, k + 1, Len(w)) = w
         /\ Len(SubSeq(w, k + 1, Len(w))) = Len(w) - k
<1>1. /\ SubSeq(w, 1, k) \in Seq(Nat) /\ SubSeq(w, k + 1, Len(w)) \in Seq(Nat)
      /\ Len(SubSeq(w, k + 1, Len(w))) = Len(w) - k
  OBVIOUS
<1>2. SubSeq(w, 1, k) \o SubSeq(w, k + 1, Len(w)) = w
  <2> DEFINE a == SubSeq(w, 1, k)
             b == SubSeq(w, k + 1, Len(w))
             c == a \o b
  <2>1. /\ Len(a) = k /\ \A i \in 1..k : a[i] = w[i]
        /\ Len(b) = Len(w) - k /\ \A i \in 1..(Len(w) - k) : b[i] = w[k + i]
        /\ a \in Seq(Nat) /\ b \in Seq(Nat)
    OBVIOUS
  <2> HIDE DEF a, b
  <2>2. /\ c \in Seq(Nat) /\ Len(c) = Len(a) + Len(b)
        /\ \A i \in 1..Len(a) : c[i] = a[i]
        /\ \A i \in 1..Len(b) : c[Len(a) + i] = b[i]
    BY <2>1
  <2> HIDE DEF c
  <2>3. Len(c) = Len(w)
    BY <2>1, <2>2
  <2>4. ASSUME NEW i \in 1..Len(w) PROVE c[i] = w[i]
    <3>1. CASE i <= k
      BY <2>1, <2>2, <3>1
    <3>2. CASE ~(i <= k)
      <4>1. i - k \in 1..Len(b) /\ i - k \in 1..(Len(w) - k) /\ k + (i - k) = i
        BY <2>1, <3>2
      <4>2. c[k + (i - k)] = b[i - k] /\ b[i - k] = w[k + (i - k)]
        BY <2>1, <2>2, <4>1
      <4> QED
        BY Zenon, <4>1, <4>2
    <3> QED
      BY Zenon, <3>1, <3>2
  <2>5. c = w
    BY SMTT(40), <2>2, <2>3, <2>4
  <2> QED
    BY Zenon, <2>5 DEF a, b, c
<1> QED
  BY Zenon, <1>1, <1>2

\* data_ready copies whole outputs to the write buffer, as many as it has room
\* for.
LEMMA FittingIs ==
  ASSUME NEW w \in Seq(Nat), NEW outs \in Seq(Seq(Nat)), Len(w) <= BuffSize
  PROVE  /\ Fitting(w, outs) \in 0..Len(outs)
         /\ Len(w \o Joined(SubSeq(outs, 1, Fitting(w, outs)))) <= BuffSize
<1> DEFINE Size(n) == Len(Joined(SubSeq(outs, 1, n)))
           fits == {n \in 0..Len(outs) : \A k \in 1..n : Len(w) + Size(k) <= BuffSize}
           M == CHOOSE n \in fits : \A k \in fits : k <= n
<1>1. Fitting(w, outs) = M
  BY Zenon DEF Fitting
<1>2. \A n \in 0..Len(outs) : Joined(SubSeq(outs, 1, n)) \in Seq(Nat)
  <2>1. \A n \in 0..Len(outs) : SubSeq(outs, 1, n) \in Seq(Seq(Nat))
    OBVIOUS
  <2> QED
    BY Zenon, <2>1, JoinedType
<1>3. 0 \in fits /\ fits \subseteq 0..Len(outs) /\ Len(outs) \in Nat
  <2> HIDE DEF Size
  <2> QED
    OBVIOUS
<1>4. \A n \in fits : \A k \in 1..n : Len(w) + Size(k) <= BuffSize
  BY Zenon
<1> HIDE DEF fits, Size
<1>5. M \in fits
  <2> DEFINE T == {x \in Nat : Len(outs) - x \in fits}
  <2>1. Len(outs) \in T /\ T \subseteq Nat
    BY <1>3
  <2> HIDE DEF T
  <2>2. PICK x \in T : \A y \in T : x <= y
    BY Zenon, <2>1, Least
  <2>3. x \in Nat /\ Len(outs) - x \in fits
    BY <2>2 DEF T
  <2>4. ASSUME NEW k \in fits PROVE k <= Len(outs) - x
    <3>1. Len(outs) - k \in Nat /\ Len(outs) - (Len(outs) - k) = k
      BY <1>3
    <3>2. Len(outs) - k \in T
      BY Zenon, <3>1 DEF T
    <3> QED
      BY <1>3, <2>2, <2>3, <3>1, <3>2
  <2>5. \E n \in fits : \A k \in fits : k <= n
    BY Zenon, <2>3, <2>4
  <2> QED
    BY Zenon, <2>5
<1> HIDE DEF M
<1>6. M \in 0..Len(outs)
  BY Zenon, <1>3, <1>5
<1>7. Len(w \o Joined(SubSeq(outs, 1, M))) <= BuffSize
  <2>1. CASE M = 0
    <3>1. SubSeq(outs, 1, 0) = <<>>
      OBVIOUS
    <3>2. Joined(SubSeq(outs, 1, M)) = <<>>
      BY Zenon, <2>1, <3>1, JoinedEmpty
    <3>3. w \o <<>> = w
      OBVIOUS
    <3> QED
      BY Zenon, <3>2, <3>3
  <2>2. CASE M # 0
    <3>1. M \in 1..M
      BY <1>6, <2>2
    <3>2. Len(w) + Size(M) <= BuffSize
      BY Zenon, <1>4, <1>5, <3>1
    <3>3. Len(w) + Len(Joined(SubSeq(outs, 1, M))) <= BuffSize
      BY Zenon, <3>2 DEF Size
    <3>4. Joined(SubSeq(outs, 1, M)) \in Seq(Nat)
      BY Zenon, <1>2, <1>6
    <3> QED
      BY <3>3, <3>4
  <2> QED
    BY Zenon, <2>1, <2>2
<1> QED
  BY Zenon, <1>1, <1>6, <1>7

-----------------------------------------------------------------------------
(* The inductive invariant.                                                 *)

\* A map from connections, with the values in S.
Maps(S) == UNION {[D -> S] : D \in SUBSET ConnIds}

Steps == {"idle", "signal", "read", "advance"}
Modes == {"none", "read", "readwrite"}
Buffers == [r : 0..BuffSize, w : Seq(Nat)]

ControlTypes ==
  /\ scenario \in Scenarios
  /\ next_thread \in Loops
  /\ pusher \in [Threads -> [at : Steps, l : Loops]]
  /\ flush \in [Loops -> BOOLEAN] /\ pending \in [Loops -> BOOLEAN] /\ failed \in [Loops -> BOOLEAN]
  /\ new_fds \in [Loops -> Seq(ConnIds)]
  /\ server \in [made : 0..MaxConns, closed : SUBSET ConnIds]
  /\ crashed \in BOOLEAN

EventTypes ==
  /\ queues \in [Loops -> Seq(Nat)]
  /\ fds \in [Loops -> Maps(Modes)]
  /\ conn_maps \in [Loops -> Maps(Buffers)]
  /\ out_queues \in [Loops -> Maps(Seq(Seq(Nat)))]
  /\ pushed \in [Loops -> Seq(Nat)]
  /\ received \in [ConnIds -> Seq(Nat)]
  /\ lost \subseteq Nat

Types == ControlTypes /\ EventTypes

\* The queues and the write buffers are within their capacity.
Sizes ==
  /\ \A l \in Loops : Len(queues[l]) <= QueueCap
  /\ \A l \in Loops : \A fd \in DOMAIN conn_maps[l] : Len(conn_maps[l][fd].w) <= BuffSize
  /\ \A l \in Loops : \A fd \in DOMAIN out_queues[l] : Len(out_queues[l][fd]) <= QueueCap + 1

\* The connections of a loop: those it has a queue for and those handed to it.
Has(l) == DOMAIN out_queues[l] \cup Range(new_fds[l])

\* A connection is made once, for one loop; before the loop has it nothing was
\* sent on it.
Owned ==
  /\ server.closed \subseteq 1..server.made
  /\ \A l \in Loops : Has(l) \subseteq 1..server.made
  /\ \A l, k \in Loops : \A fd \in Has(l) \cap Has(k) : l = k
  /\ \A l \in Loops : DOMAIN out_queues[l] \cap Range(new_fds[l]) = {}
  /\ \A fd \in ConnIds : fd > server.made => received[fd] = <<>>
  /\ \A l \in Loops : \A fd \in Range(new_fds[l]) : received[fd] = <<>>

\* The events are numbered as they are pushed, each to one loop.
Numbered ==
  /\ \E n \in Nat : \A e : e \in Events <=> e \in 1..n
  /\ \A l, k \in Loops : \A e \in Range(pushed[l]) \cap Range(pushed[k]) : l = k

\* What goes to the server on a connection: what it got, what is in the write
\* buffer and what is in the connection's queue.
Line(l, fd) == received[fd] \o conn_maps[l][fd].w \o Joined(out_queues[l][fd])

\* What is in the queue of a loop was pushed in order and after all that goes to
\* its connections.
Ordered ==
  /\ \A fd \in ConnIds : Increasing(received[fd])
  /\ crashed \/ \A l \in Loops : /\ Increasing(queues[l])
                                 /\ \A fd \in DOMAIN fds[l] : Increasing(Line(l, fd))
                                 /\ \A fd \in DOMAIN fds[l] : Below(Range(Line(l, fd)), Range(queues[l]))

\* The places an event can be in, and what is in them.
Places == ({"queue"} \X Loops \X {0}) \cup ({"way"} \X Loops \X ConnIds)
            \cup ({"sent"} \X {0} \X ConnIds) \cup {<<"lost", 0, 0>>}

Way(l, fd) == IF fd \in DOMAIN fds[l] THEN Unsent(l, fd) ELSE {}

In(p) == CASE p[1] = "queue" -> Range(queues[p[2]])
           [] p[1] = "way" -> Way(p[2], p[3])
           [] p[1] = "sent" -> Range(received[p[3]])
           [] p[1] = "lost" -> lost

\* Every event is in one place, and in one of its loop.
Placed ==
  /\ \A p, q \in Places : \A e \in In(p) \cap In(q) : p = q
  /\ \A e \in Events : \E p \in Places : e \in In(p)

OfLoop ==
  /\ lost \subseteq Events
  /\ \A fd \in ConnIds : Range(received[fd]) \subseteq Events
  /\ \A l \in Loops : /\ Range(queues[l]) \subseteq Range(pushed[l])
                      /\ crashed \/ \A fd \in DOMAIN fds[l] : Range(Line(l, fd)) \subseteq Range(pushed[l])

IInv ==
  /\ Types /\ Sizes /\ Owned /\ Numbered /\ QueuesMatchConnections
  /\ Ordered /\ OfLoop /\ (crashed \/ Placed)

-----------------------------------------------------------------------------
(* Maps of connections.                                                     *)

LEMMA MapsIs ==
  ASSUME NEW S, NEW m
  PROVE  m \in Maps(S) <=> /\ DOMAIN m \subseteq ConnIds
                           /\ m = [k \in DOMAIN m |-> m[k]]
                           /\ \A k \in DOMAIN m : m[k] \in S
<1>1. ASSUME m \in Maps(S)
      PROVE  /\ DOMAIN m \subseteq ConnIds /\ m = [k \in DOMAIN m |-> m[k]]
             /\ \A k \in DOMAIN m : m[k] \in S
  <2>1. PICK D \in SUBSET ConnIds : m \in [D -> S]
    BY Zenon, <1>1 DEF Maps
  <2> QED
    BY Zenon, <2>1
<1>2. ASSUME DOMAIN m \subseteq ConnIds, m = [k \in DOMAIN m |-> m[k]],
             \A k \in DOMAIN m : m[k] \in S
      PROVE  m \in Maps(S)
  <2>1. m \in [DOMAIN m -> S]
    BY Zenon, <1>2
  <2> QED
    BY Zenon, <1>2, <2>1 DEF Maps
<1> QED
  BY Zenon, <1>1, <1>2

LEMMA EmptyMap ==
  ASSUME NEW S
  PROVE  <<>> \in Maps(S) /\ DOMAIN <<>> = {} /\ \A m \in Maps(S) : DOMAIN m = {} => m = <<>>
<1>1. DOMAIN <<>> = {} /\ <<>> \in [{} -> S]
  OBVIOUS
<1>2. {} \in SUBSET ConnIds
  BY Zenon
<1>3. \A m \in [{} -> S] : m = <<>>
  OBVIOUS
<1>4. ASSUME NEW m \in Maps(S), DOMAIN m = {} PROVE m = <<>>
  <2>1. PICK D \in SUBSET ConnIds : m \in [D -> S]
    BY Zenon DEF Maps
  <2>2. D = {}
    BY Zenon, <1>4, <2>1
  <2> QED
    BY Zenon, <1>3, <2>1, <2>2
<1> QED
  BY Zenon, <1>1, <1>2, <1>4 DEF Maps

Inserted(S, m, keys, v, i) ==
  /\ i \in Maps(S) /\ DOMAIN i = DOMAIN m \cup keys
  /\ \A k \in DOMAIN m : i[k] = m[k]
  /\ \A k \in keys \ DOMAIN m : i[k] = v

LEMMA InsertIs ==
  ASSUME NEW S, NEW m \in Maps(S), NEW keys, keys \subseteq ConnIds, NEW v \in S
  PROVE  Inserted(S, m, keys, v, Insert(m, keys, v))
<1>1. DOMAIN m \subseteq ConnIds /\ \A k \in DOMAIN m : m[k] \in S
  BY Zenon, MapsIs
<1> DEFINE i == Insert(m, keys, v)
<1>2. /\ DOMAIN i = DOMAIN m \cup keys /\ i = [k \in DOMAIN i |-> i[k]]
      /\ \A k \in DOMAIN m : i[k] = m[k]
      /\ \A k \in keys \ DOMAIN m : i[k] = v
  BY Zenon DEF Insert
<1> HIDE DEF i
<1>3. DOMAIN i \subseteq ConnIds /\ \A k \in DOMAIN i : i[k] \in S
  BY Zenon, <1>1, <1>2
<1>4. i \in Maps(S)
  BY Zenon, <1>2, <1>3, MapsIs
<1>5. Inserted(S, m, keys, v, i)
  BY Zenon, <1>2, <1>4 DEF Inserted
<1> QED
  BY Zenon, <1>5 DEF i

LEMMA DropIs ==
  ASSUME NEW S, NEW m \in Maps(S), NEW fd
  PROVE  /\ Drop(m, fd) \in Maps(S) /\ DOMAIN Drop(m, fd) = DOMAIN m \ {fd}
         /\ \A k \in DOMAIN m \ {fd} : Drop(m, fd)[k] = m[k]
<1>1. DOMAIN m \subseteq ConnIds /\ \A k \in DOMAIN m : m[k] \in S
  BY Zenon, MapsIs
<1> DEFINE i == Drop(m, fd)
<1>2. /\ DOMAIN i = DOMAIN m \ {fd} /\ i = [k \in DOMAIN i |-> i[k]]
      /\ \A k \in DOMAIN m \ {fd} : i[k] = m[k]
  BY Zenon DEF Drop
<1> HIDE DEF i
<1>3. DOMAIN i \subseteq ConnIds /\ \A k \in DOMAIN i : i[k] \in S
  BY Zenon, <1>1, <1>2
<1>4. i \in Maps(S)
  BY Zenon, <1>2, <1>3, MapsIs
<1> QED
  BY Zenon, <1>2, <1>4 DEF i

LEMMA PutIs ==
  ASSUME NEW S, NEW m \in Maps(S), NEW fd \in DOMAIN m, NEW v \in S
  PROVE  /\ [m EXCEPT ![fd] = v] \in Maps(S) /\ DOMAIN [m EXCEPT ![fd] = v] = DOMAIN m
         /\ [m EXCEPT ![fd] = v][fd] = v
         /\ \A k \in DOMAIN m \ {fd} : [m EXCEPT ![fd] = v][k] = m[k]
<1>1. DOMAIN m \subseteq ConnIds /\ \A k \in DOMAIN m : m[k] \in S
  BY Zenon, MapsIs
<1> DEFINE i == [m EXCEPT ![fd] = v]
<1>2. /\ DOMAIN i = DOMAIN m /\ i = [k \in DOMAIN i |-> i[k]] /\ i[fd] = v
      /\ \A k \in DOMAIN m \ {fd} : i[k] = m[k]
  BY Zenon
<1> HIDE DEF i
<1>3. DOMAIN i \subseteq ConnIds /\ \A k \in DOMAIN i : i[k] \in S
  BY Zenon, <1>1, <1>2
<1>4. i \in Maps(S)
  BY Zenon, <1>2, <1>3, MapsIs
<1> QED
  BY Zenon, <1>2, <1>4 DEF i

\* The queues of a loop after an output was added.
Queued(m, first, q, i) ==
  /\ i \in Maps(Seq(Seq(Nat))) /\ DOMAIN i = DOMAIN m
  /\ \A fd \in DOMAIN m \ Open(m) : i[fd] = m[fd]
  /\ \A fd \in Open(m) : i[fd] = Append(m[fd], IF fd = first THEN q ELSE <<>>)

LEMMA QueueIs ==
  ASSUME NEW m \in Maps(Seq(Seq(Nat))), NEW first, NEW q \in Seq(Nat)
  PROVE  Queued(m, first, q, Queue(m, first, q))
<1>1. DOMAIN m \subseteq ConnIds /\ \A k \in DOMAIN m : m[k] \in Seq(Seq(Nat))
  BY Zenon, MapsIs
<1> DEFINE i == Queue(m, first, q)
<1>2. /\ DOMAIN i = DOMAIN m /\ i = [k \in DOMAIN i |-> i[k]]
      /\ \A fd \in DOMAIN m \ Open(m) : i[fd] = m[fd]
      /\ \A fd \in Open(m) : fd \in DOMAIN m /\ i[fd] = Append(m[fd], IF fd = first THEN q ELSE <<>>)
  BY Zenon DEF Queue, Open
<1> HIDE DEF i
<1>3. ASSUME NEW k \in DOMAIN i PROVE i[k] \in Seq(Seq(Nat))
  <2>1. CASE k \in Open(m)
    <3>1. m[k] \in Seq(Seq(Nat)) /\ (IF k = first THEN q ELSE <<>>) \in Seq(Nat)
      BY <1>1, <1>2
    <3>2. \A x \in Seq(Nat), t \in Seq(Seq(Nat)) : Append(t, x) \in Seq(Seq(Nat))
      OBVIOUS
    <3> QED
      BY Zenon, <1>2, <2>1, <3>1, <3>2
  <2>2. CASE k \notin Open(m)
    BY Zenon, <1>1, <1>2, <2>2
  <2> QED
    BY Zenon, <2>1, <2>2
<1>4. i \in Maps(Seq(Seq(Nat)))
  BY Zenon, <1>1, <1>2, <1>3, MapsIs
<1>5. Queued(m, first, q, i)
  BY Zenon, <1>2, <1>4 DEF Queued
<1> QED
  BY Zenon, <1>5 DEF i

-----------------------------------------------------------------------------
(* The initial states, and the steps that move no event.                    *)

LEMMA LoopsAre ==
  ASSUME scenario \in Scenarios
  PROVE  /\ NL \in Nat \ {0} /\ 0 \in Loops /\ Loops \subseteq Nat
         /\ \A i \in Nat : (i + 1) % NL \in Loops
<1>1. NL \in Nat \ {0}
  BY Bounds DEF NL
<1> QED
  BY <1>1 DEF Loops

LEMMA InitTypes == Init => Types
<1> SUFFICES ASSUME Init PROVE Types
  BY Zenon
<1>1. scenario \in Scenarios /\ 0 \in Loops
  BY Zenon, LoopsAre DEF Init
<1>2. \A S : <<>> \in Maps(S) /\ <<>> \in Seq(S)
  <2>1. \A S : <<>> \in Seq(S)
    OBVIOUS
  <2> QED
    BY Zenon, <2>1, EmptyMap
<1>3. /\ queues \in [Loops -> Seq(Nat)] /\ pushed \in [Loops -> Seq(Nat)]
      /\ new_fds \in [Loops -> Seq(ConnIds)] /\ fds \in [Loops -> Maps(Modes)]
      /\ conn_maps \in [Loops -> Maps(Buffers)]
      /\ out_queues \in [Loops -> Maps(Seq(Seq(Nat)))]
      /\ received \in [ConnIds -> Seq(Nat)]
  BY Zenon, <1>2 DEF Init
<1>4. Idle \in [at : Steps, l : Loops]
  BY <1>1 DEF Idle, Steps
<1>5. server \in [made : 0..MaxConns, closed : SUBSET ConnIds]
  BY Bounds DEF Init
<1>6. pusher \in [Threads -> [at : Steps, l : Loops]]
  BY Zenon, <1>4 DEF Init
<1>7. /\ flush \in [Loops -> BOOLEAN] /\ pending \in [Loops -> BOOLEAN]
      /\ failed \in [Loops -> BOOLEAN] /\ crashed \in BOOLEAN
  BY Zenon DEF Init
<1>8. next_thread \in Loops /\ lost \subseteq Nat
  BY Zenon, <1>1 DEF Init
<1> QED
  BY Zenon, <1>1, <1>3, <1>5, <1>6, <1>7, <1>8 DEF Types, ControlTypes, EventTypes

LEMMA InitInv == Init => IInv
<1> SUFFICES ASSUME Init PROVE IInv
  BY Zenon
<1>1. Types
  BY Zenon, InitTypes
<1>2. Len(<<>>) = 0 /\ DOMAIN <<>> = {} /\ Range(<<>>) = {} /\ Increasing(<<>>)
  <2>1. DOMAIN <<>> = {} /\ Len(<<>>) = 0
    OBVIOUS
  <2> QED
    BY Zenon, <2>1 DEF Range, Increasing
<1>3. \A l \in Loops : /\ queues[l] = <<>> /\ new_fds[l] = <<>> /\ fds[l] = <<>> /\ conn_maps[l] = <<>>
                       /\ out_queues[l] = <<>> /\ pushed[l] = <<>>
  BY Zenon DEF Init
<1>4. (\A fd \in ConnIds : received[fd] = <<>>) /\ lost = {} /\ crashed = FALSE
  BY Zenon DEF Init
<1>5. server.made = 0 /\ server.closed = {}
  BY DEF Init
<1>6. Sizes
  <2>1. 0 <= QueueCap
    BY Bounds
  <2> QED
    BY Zenon, <1>2, <1>3, <2>1 DEF Sizes
<1>7. \A l \in Loops : Has(l) = {}
  BY Zenon, <1>2, <1>3 DEF Has
<1>8. Owned
  BY Zenon, <1>2, <1>3, <1>4, <1>5, <1>7 DEF Owned
<1>9. Events = {}
  BY Zenon, <1>2, <1>3 DEF Events
<1>10. Numbered
  <2>1. 0 \in Nat /\ \A e : e \notin 1..0
    OBVIOUS
  <2>2. \E n \in Nat : \A e : e \in Events <=> e \in 1..n
    BY Zenon, <1>9, <2>1
  <2> QED
    BY Zenon, <1>2, <1>3, <2>2 DEF Numbered
<1>11. QueuesMatchConnections
  BY Zenon, <1>2, <1>3, <1>4 DEF QueuesMatchConnections
<1>12. Ordered /\ OfLoop
  BY Zenon, <1>2, <1>3, <1>4 DEF Ordered, OfLoop
<1>13. \A p, q \in Places : \A e \in In(p) \cap In(q) : p = q
  <2> SUFFICES ASSUME NEW p \in Places PROVE In(p) = {}
    BY Zenon
  <2>1. CASE p \in {"queue"} \X Loops \X {0}
    BY <2>1, <1>2, <1>3 DEF In
  <2>2. CASE p \in {"way"} \X Loops \X ConnIds
    BY <2>2, <1>2, <1>3 DEF In, Way
  <2>3. CASE p \in {"sent"} \X {0} \X ConnIds
    BY <2>3, <1>2, <1>4 DEF In
  <2>4. CASE p \in {<<"lost", 0, 0>>}
    BY <2>4, <1>4 DEF In
  <2> QED
    BY Zenon, <2>1, <2>2, <2>3, <2>4 DEF Places
<1>14. Placed
  BY Zenon, <1>9, <1>13 DEF Placed
<1> QED
  BY Zenon, <1>1, <1>6, <1>8, <1>10, <1>11, <1>12, <1>14 DEF IInv

eventVars == <<scenario, queues, fds, conn_maps, out_queues, crashed, pushed, received, lost, failed>>

\* A step that leaves events and connections alone.
LEMMA EventFrame ==
  ASSUME IInv, UNCHANGED eventVars, ControlTypes', Owned'
  PROVE  IInv'
<1>1. /\ scenario' = scenario /\ queues' = queues /\ fds' = fds /\ conn_maps' = conn_maps
      /\ out_queues' = out_queues /\ pushed' = pushed /\ received' = received /\ lost' = lost
      /\ failed' = failed
  BY Zenon DEF eventVars
<1>2. crashed' <=> crashed
  BY Zenon DEF eventVars
<1>3. Loops' = Loops /\ Events' = Events
  BY Zenon, <1>1 DEF Loops, NL, Events
<1>0. Types'
  BY Zenon, <1>1, <1>3 DEF IInv, Types, EventTypes
<1>4. Sizes'
  BY Zenon, <1>1, <1>3 DEF IInv, Sizes
<1>5. Numbered'
  BY Zenon, <1>1, <1>3 DEF IInv, Numbered
<1>6. QueuesMatchConnections'
  BY Zenon, <1>1, <1>2, <1>3 DEF IInv, QueuesMatchConnections
<1>7. \A l, fd : Line(l, fd)' = Line(l, fd) /\ Unsent(l, fd)' = Unsent(l, fd)
  BY Zenon, <1>1 DEF Line, Unsent
<1>8. Ordered'
  BY Zenon, <1>1, <1>2, <1>3, <1>7 DEF IInv, Ordered
<1>9. OfLoop'
  BY Zenon, <1>1, <1>2, <1>3, <1>7 DEF IInv, OfLoop
<1>10. (crashed \/ Placed)'
  <2>1. Places' = Places
    BY Zenon, <1>3 DEF Places
  <2>2. \A p : In(p)' = In(p)
    <3>1. \A l, fd : Way(l, fd)' = Way(l, fd)
      BY Zenon, <1>1, <1>7 DEF Way
    <3> QED
      BY Zenon, <1>1, <3>1 DEF In
  <2> QED
    BY Zenon, <1>2, <1>3, <2>1, <2>2 DEF IInv, Placed
<1> QED
  BY Zenon, <1>0, <1>4, <1>5, <1>6, <1>8, <1>9, <1>10 DEF IInv

\* Owned is about the connections only.
LEMMA OwnedFrame ==
  ASSUME Owned, UNCHANGED <<scenario, out_queues, new_fds, server, received>>
  PROVE  Owned'
<1>1. /\ scenario' = scenario /\ out_queues' = out_queues /\ new_fds' = new_fds /\ server' = server
      /\ received' = received
  BY Zenon
<1>2. Loops' = Loops /\ \A l : Has(l)' = Has(l)
  BY Zenon, <1>1 DEF Loops, NL, Has
<1> QED
  BY Zenon, <1>1, <1>2 DEF Owned

LEMMA InvSignal ==
  ASSUME IInv, NEW t \in Threads, Signal(t)
  PROVE  IInv'
<1>1. UNCHANGED <<next_thread, queues, flush, pushed, loop_vars>>
  BY Zenon DEF Signal
<1>2. UNCHANGED eventVars /\ UNCHANGED <<scenario, out_queues, new_fds, server, received>>
  BY Zenon, <1>1 DEF loop_vars, eventVars
<1>3. scenario' = scenario /\ Loops' = Loops
  BY Zenon, <1>1 DEF loop_vars, Loops, NL
<1>4. \/ pusher' = [pusher EXCEPT ![t] = Idle] /\ pending' = pending
      \/ /\ pending' = [pending EXCEPT ![next_thread] = TRUE]
         /\ pusher' = [pusher EXCEPT ![t] = [at |-> "read", l |-> next_thread]]
  BY Zenon DEF Signal
<1>5. /\ next_thread \in Loops /\ pusher \in [Threads -> [at : Steps, l : Loops]]
      /\ pending \in [Loops -> BOOLEAN] /\ scenario \in Scenarios
  BY Zenon DEF IInv, Types, ControlTypes
<1>6. pusher' \in [Threads -> [at : Steps, l : Loops]] /\ pending' \in [Loops -> BOOLEAN]
  <2>1. Idle \in [at : Steps, l : Loops]
    BY <1>5, LoopsAre DEF Idle, Steps
  <2>2. [at |-> "read", l |-> next_thread] \in [at : Steps, l : Loops]
    BY <1>5 DEF Steps
  <2>3. pusher' \in [Threads -> [at : Steps, l : Loops]]
    BY Zenon, <1>4, <1>5, <2>1, <2>2
  <2>4. pending' \in [Loops -> BOOLEAN]
    <3>1. CASE pending' = pending
      BY Zenon, <1>5, <3>1
    <3>2. CASE pending' = [pending EXCEPT ![next_thread] = TRUE]
      BY Zenon, <1>5, <3>2
    <3> QED
      BY Zenon, <1>4, <3>1, <3>2
  <2> QED
    BY Zenon, <2>3, <2>4
<1>7. ControlTypes'
  BY Zenon, <1>1, <1>3, <1>6 DEF IInv, Types, ControlTypes, loop_vars
<1> QED
  BY Zenon, <1>2, <1>7, OwnedFrame, EventFrame DEF IInv

LEMMA InvReadNext ==
  ASSUME IInv, NEW t \in Threads, ReadNext(t)
  PROVE  IInv'
<1>1. UNCHANGED <<next_thread, queues, flush, pending, pushed, loop_vars>>
  BY Zenon DEF ReadNext
<1>2. UNCHANGED eventVars /\ UNCHANGED <<scenario, out_queues, new_fds, server, received>>
  BY Zenon, <1>1 DEF loop_vars, eventVars
<1>3. scenario' = scenario /\ Loops' = Loops
  BY Zenon, <1>1 DEF loop_vars, Loops, NL
<1>4. pusher' = [pusher EXCEPT ![t] = [at |-> "advance", l |-> next_thread]]
  BY Zenon DEF ReadNext
<1>5. next_thread \in Loops /\ pusher \in [Threads -> [at : Steps, l : Loops]]
  BY Zenon DEF IInv, Types, ControlTypes
<1>6. [at |-> "advance", l |-> next_thread] \in [at : Steps, l : Loops]
  BY <1>5 DEF Steps
<1>7. pusher' \in [Threads -> [at : Steps, l : Loops]] 
  BY Zenon, <1>3, <1>4, <1>5, <1>6
<1>8. ControlTypes'
  BY Zenon, <1>1, <1>3, <1>7 DEF IInv, Types, ControlTypes, loop_vars
<1> QED
  BY Zenon, <1>2, <1>8, OwnedFrame, EventFrame DEF IInv

LEMMA InvAdvance ==
  ASSUME IInv, NEW t \in Threads, Advance(t)
  PROVE  IInv'
<1>1. UNCHANGED <<queues, flush, pending, pushed, loop_vars>>
  BY Zenon DEF Advance
<1>2. UNCHANGED eventVars /\ UNCHANGED <<scenario, out_queues, new_fds, server, received>>
  BY Zenon, <1>1 DEF loop_vars, eventVars
<1>3. scenario' = scenario /\ Loops' = Loops
  BY Zenon, <1>1 DEF loop_vars, Loops, NL
<1>4. next_thread' = (pusher[t].l + 1) % NL /\ pusher' = [pusher EXCEPT ![t] = Idle]
  BY Zenon DEF Advance
<1>5. pusher \in [Threads -> [at : Steps, l : Loops]] /\ scenario \in Scenarios
  BY Zenon DEF IInv, Types, ControlTypes
<1>6. next_thread' \in Loops
  <2>1. pusher[t].l \in Loops
    BY <1>5
  <2> QED
    BY Zenon, <1>4, <1>5, <2>1, LoopsAre
<1>7. pusher' \in [Threads -> [at : Steps, l : Loops]]
  <2>1. Idle \in [at : Steps, l : Loops]
    BY <1>5, LoopsAre DEF Idle, Steps
  <2> QED
    BY Zenon, <1>4, <1>5, <2>1
<1>8. ControlTypes'
  BY Zenon, <1>1, <1>3, <1>6, <1>7 DEF IInv, Types, ControlTypes, loop_vars
<1> QED
  BY Zenon, <1>2, <1>8, OwnedFrame, EventFrame DEF IInv

LEMMA InvSignalBatchFlush ==
  ASSUME IInv, NEW l \in Loops, SignalBatchFlush(l)
  PROVE  IInv'
<1>1. UNCHANGED <<next_thread, pusher, queues, pushed, loop_vars>>
  BY Zenon DEF SignalBatchFlush
<1>2. UNCHANGED eventVars /\ UNCHANGED <<scenario, out_queues, new_fds, server, received>>
  BY Zenon, <1>1 DEF loop_vars, eventVars
<1>3. scenario' = scenario /\ Loops' = Loops
  BY Zenon, <1>1 DEF loop_vars, Loops, NL
<1>4. flush' \in [Loops -> BOOLEAN] /\ pending' \in [Loops -> BOOLEAN]
  BY Zenon DEF SignalBatchFlush, IInv, Types, ControlTypes
<1>5. ControlTypes'
  BY Zenon, <1>1, <1>3, <1>4 DEF IInv, Types, ControlTypes, loop_vars
<1> QED
  BY Zenon, <1>2, <1>5, OwnedFrame, EventFrame DEF IInv

LEMMA InvServerCloses ==
  ASSUME IInv, NEW fd \in ConnIds, ServerCloses(fd)
  PROVE  IInv'
<1>1. UNCHANGED <<scenario, next_thread, pusher, queues, flush, pending, new_fds, fds, conn_maps, out_queues,
                 crashed, pushed, received, lost, failed>>
  BY Zenon DEF ServerCloses
<1>2. UNCHANGED eventVars /\ scenario' = scenario /\ Loops' = Loops
  BY Zenon, <1>1 DEF eventVars, Loops, NL
<1>3. server \in [made : 0..MaxConns, closed : SUBSET ConnIds] /\ server.closed \subseteq 1..server.made
  BY Zenon DEF IInv, Types, ControlTypes, Owned
<1>4. /\ server' \in [made : 0..MaxConns, closed : SUBSET ConnIds] /\ server'.made = server.made
      /\ server'.closed \subseteq 1..server.made
  BY <1>3 DEF ServerCloses
<1>5. ControlTypes'
  BY Zenon, <1>1, <1>2, <1>4 DEF IInv, Types, ControlTypes
<1>6. Owned'
  <2>1. \A l : Has(l)' = Has(l)
    BY Zenon, <1>1 DEF Has
  <2> QED
    BY Zenon, <1>1, <1>2, <1>4, <2>1 DEF IInv, Owned
<1> QED
  BY Zenon, <1>2, <1>5, <1>6, EventFrame

\* connect_clients makes a connection that no loop has.
LEMMA InvConnectClients ==
  ASSUME IInv, NEW l \in Loops, ConnectClients(l)
  PROVE  IInv'
<1> DEFINE c == server.made + 1
<1>1. UNCHANGED <<scenario, next_thread, pusher, queues, flush, fds, conn_maps, out_queues, crashed, pushed,
                 received, lost, failed>>
  BY Zenon DEF ConnectClients
<1>2. UNCHANGED eventVars /\ scenario' = scenario /\ Loops' = Loops
  BY Zenon, <1>1 DEF eventVars, Loops, NL
<1>3. /\ server \in [made : 0..MaxConns, closed : SUBSET ConnIds] /\ new_fds \in [Loops -> Seq(ConnIds)]
      /\ pending \in [Loops -> BOOLEAN] /\ scenario \in Scenarios
  BY Zenon DEF IInv, Types, ControlTypes
<1>4. server.made < scenario.conns /\ server' = [server EXCEPT !.made = @ + 1]
  BY Zenon DEF ConnectClients
<1>5. server.made \in Nat /\ c \in ConnIds /\ c \in 0..MaxConns /\ c \in Nat
  BY <1>3, <1>4, Bounds DEF ConnIds
<1>6. /\ server' \in [made : 0..MaxConns, closed : SUBSET ConnIds] /\ server'.made = c
      /\ server'.closed = server.closed
  BY <1>3, <1>4, <1>5
<1> HIDE DEF c
<1>7. new_fds' = [new_fds EXCEPT ![l] = Append(new_fds[l], c)]
  BY Zenon DEF ConnectClients, c
<1>8. /\ Append(new_fds[l], c) \in Seq(ConnIds)
      /\ \A fd : fd \in Range(Append(new_fds[l], c)) <=> fd \in Range(new_fds[l]) \/ fd = c
  <2>1. new_fds[l] \in Seq(ConnIds)
    BY Zenon, <1>3
  <2> QED
    BY <1>5, <2>1, AppendRange
<1>9. ControlTypes'
  <2>1. new_fds' \in [Loops -> Seq(ConnIds)]
    BY Zenon, <1>3, <1>7, <1>8
  <2>2. pending' \in [Loops -> BOOLEAN]
    BY Zenon, <1>3 DEF ConnectClients
  <2> QED
    BY Zenon, <1>1, <1>2, <1>6, <2>1, <2>2 DEF IInv, Types, ControlTypes
<1>10. ASSUME NEW k \in Loops
       PROVE  /\ \A fd : fd \in Has(k)' => fd \in Has(k) \/ (k = l /\ fd = c)
              /\ \A fd : fd \in Range(new_fds'[k]) => fd \in Range(new_fds[k]) \/ (k = l /\ fd = c)
  <2>1. IF k = l THEN new_fds'[k] = Append(new_fds[l], c) ELSE new_fds'[k] = new_fds[k]
    BY Zenon, <1>3, <1>7
  <2>2. ASSUME NEW fd, fd \in Range(new_fds'[k])
        PROVE  fd \in Range(new_fds[k]) \/ (k = l /\ fd = c)
    BY Zenon, <1>8, <2>1, <2>2
  <2>3. ASSUME NEW fd, fd \in Has(k)' PROVE fd \in Has(k) \/ (k = l /\ fd = c)
    BY Zenon, <1>1, <2>2, <2>3 DEF Has
  <2> QED
    BY Zenon, <2>2, <2>3
<1>11. /\ server.closed \subseteq 1..server.made
       /\ \A k \in Loops : Has(k) \subseteq 1..server.made
       /\ \A k, m \in Loops : \A fd \in Has(k) \cap Has(m) : k = m
       /\ \A k \in Loops : DOMAIN out_queues[k] \cap Range(new_fds[k]) = {}
       /\ \A fd \in ConnIds : fd > server.made => received[fd] = <<>>
       /\ \A k \in Loops : \A fd \in Range(new_fds[k]) : received[fd] = <<>>
  BY Zenon DEF IInv, Owned
<1>12. /\ \A fd \in 1..server.made : fd \in 1..c /\ fd # c
       /\ c \in 1..c /\ c > server.made
       /\ \A fd \in ConnIds : fd > c => fd > server.made
  BY <1>5 DEF c, ConnIds
<1>13. server'.closed \subseteq 1..server'.made /\ \A k \in Loops : Has(k)' \subseteq 1..server'.made
  <2>1. server'.closed \subseteq 1..server'.made
    BY Zenon, <1>6, <1>11, <1>12
  <2>2. ASSUME NEW k \in Loops, NEW fd \in Has(k)' PROVE fd \in 1..server'.made
    BY Zenon, <1>6, <1>10, <1>11, <1>12
  <2> QED
    BY Zenon, <2>1, <2>2
<1>14. ASSUME NEW k \in Loops, NEW m \in Loops, NEW fd \in Has(k)' \cap Has(m)' PROVE k = m
  <2>1. CASE fd = c
    <3>1. \A j \in Loops : c \notin Has(j)
      BY Zenon, <1>11, <1>12
    <3> QED
      BY Zenon, <2>1, <3>1, <1>10, <1>14
  <2>2. CASE fd # c
    <3>0. fd \in Has(k)' /\ fd \in Has(m)'
      BY Zenon, <1>14
    <3>1. \A j \in Loops : fd \in Has(j)' => fd \in Has(j)
      BY Zenon, <2>2, <1>10
    <3> QED
      BY Zenon, <3>0, <3>1, <1>11
  <2> QED
    BY Zenon, <2>1, <2>2
<1>15. ASSUME NEW k \in Loops PROVE DOMAIN out_queues'[k] \cap Range(new_fds'[k]) = {}
  <2>1. out_queues'[k] = out_queues[k]
    BY Zenon, <1>1
  <2>2. DOMAIN out_queues[k] \subseteq Has(k)
    BY Zenon DEF Has
  <2>3. c \notin DOMAIN out_queues[k]
    BY Zenon, <2>2, <1>11, <1>12
  <2> QED
    <3>1. \A fd \in Range(new_fds'[k]) : fd \in Range(new_fds[k]) \/ fd = c
      BY Zenon, <1>10
    <3>2. \A fd \in DOMAIN out_queues[k] : fd \notin Range(new_fds[k])
      BY Zenon, <1>11
    <3> QED
      BY Zenon, <2>1, <2>3, <3>1, <3>2
<1>16. ASSUME NEW k \in Loops, NEW fd \in Range(new_fds'[k]) PROVE received'[fd] = <<>>
  <2>1. fd \in Range(new_fds[k]) \/ fd = c
    BY Zenon, <1>10
  <2> QED
    BY Zenon, <2>1, <1>1, <1>5, <1>11, <1>12
<1>17. ASSUME NEW fd \in ConnIds, fd > c PROVE received'[fd] = <<>>
  BY Zenon, <1>1, <1>11, <1>12, <1>17
<1>18. Owned'
  BY Zenon, <1>2, <1>6, <1>13, <1>14, <1>15, <1>16, <1>17 DEF Owned
<1> QED
  BY Zenon, <1>2, <1>9, <1>18, EventFrame

-----------------------------------------------------------------------------
(* The places of events.                                                    *)

LEMMA InIs ==
  ASSUME NEW l, NEW fd
  PROVE  /\ In(<<"queue", l, 0>>) = Range(queues[l]) /\ In(<<"way", l, fd>>) = Way(l, fd)
         /\ In(<<"sent", 0, fd>>) = Range(received[fd]) /\ In(<<"lost", 0, 0>>) = lost
  BY DEF In

LEMMA InIsNext ==
  ASSUME NEW l, NEW fd
  PROVE  /\ In(<<"queue", l, 0>>)' = Range(queues'[l]) /\ In(<<"way", l, fd>>)' = Way(l, fd)'
         /\ In(<<"sent", 0, fd>>)' = Range(received'[fd]) /\ In(<<"lost", 0, 0>>)' = lost'
  BY DEF In

LEMMA PlacesAre ==
  ASSUME NEW p
  PROVE  p \in Places <=> \/ \E l \in Loops : p = <<"queue", l, 0>>
                          \/ \E l \in Loops, fd \in ConnIds : p = <<"way", l, fd>>
                          \/ \E fd \in ConnIds : p = <<"sent", 0, fd>>
                          \/ p = <<"lost", 0, 0>>
<1>1. p \in {"queue"} \X Loops \X {0} <=> \E l \in Loops : p = <<"queue", l, 0>>
  OBVIOUS
<1>2. p \in {"way"} \X Loops \X ConnIds <=> \E l \in Loops, fd \in ConnIds : p = <<"way", l, fd>>
  OBVIOUS
<1>3. p \in {"sent"} \X {0} \X ConnIds <=> \E fd \in ConnIds : p = <<"sent", 0, fd>>
  OBVIOUS
<1> QED
  BY Zenon, <1>1, <1>2, <1>3 DEF Places

\* The places outside X keep their events.
LEMMA InSame ==
  ASSUME NEW X,
         \A k \in Loops : <<"queue", k, 0>> \notin X => Range(queues'[k]) = Range(queues[k]),
         \A k \in Loops, fd \in ConnIds : <<"way", k, fd>> \notin X => Way(k, fd)' = Way(k, fd),
         \A fd \in ConnIds : <<"sent", 0, fd>> \notin X => Range(received'[fd]) = Range(received[fd]),
         <<"lost", 0, 0>> \notin X => lost' = lost
  PROVE  \A p \in Places : p \notin X => In(p)' = In(p)
<1> SUFFICES ASSUME NEW p \in Places, p \notin X PROVE In(p)' = In(p)
  BY Zenon
<1>1. CASE \E l \in Loops : p = <<"queue", l, 0>>
  <2>1. PICK l \in Loops : p = <<"queue", l, 0>>
    BY Zenon, <1>1
  <2>2. In(<<"queue", l, 0>>)' = Range(queues'[l]) /\ In(<<"queue", l, 0>>) = Range(queues[l])
    BY Zenon, InIs, InIsNext
  <2> QED
    BY Zenon, <2>1, <2>2
<1>2. CASE \E l \in Loops, fd \in ConnIds : p = <<"way", l, fd>>
  <2>1. PICK l \in Loops, fd \in ConnIds : p = <<"way", l, fd>>
    BY Zenon, <1>2
  <2>2. In(<<"way", l, fd>>)' = Way(l, fd)' /\ In(<<"way", l, fd>>) = Way(l, fd)
    BY Zenon, InIs, InIsNext
  <2> QED
    BY Zenon, <2>1, <2>2
<1>3. CASE \E fd \in ConnIds : p = <<"sent", 0, fd>>
  <2>1. PICK fd \in ConnIds : p = <<"sent", 0, fd>>
    BY Zenon, <1>3
  <2>2. In(<<"sent", 0, fd>>)' = Range(received'[fd]) /\ In(<<"sent", 0, fd>>) = Range(received[fd])
    BY Zenon, InIs, InIsNext
  <2> QED
    BY Zenon, <2>1, <2>2
<1>4. CASE p = <<"lost", 0, 0>>
  BY Zenon, <1>4, InIs, InIsNext
<1> QED
  BY Zenon, <1>1, <1>2, <1>3, <1>4, PlacesAre

\* Events M are moved from one place to another.
LEMMA PlacedMoves ==
  ASSUME Placed, Places' = Places, Events' = Events, NEW h \in Places, NEW g \in Places, h # g,
         NEW M, M \subseteq In(h),
         \A e : e \in In(h)' <=> e \in In(h) /\ e \notin M,
         \A e : e \in In(g)' <=> e \in In(g) \/ e \in M,
         \A p \in Places : p \notin {h, g} => In(p)' = In(p)
  PROVE  Placed'
<1> DEFINE From(p, e) == IF p = g /\ e \in M THEN h ELSE p
<1>1. ASSUME NEW p \in Places, NEW e, e \in In(p)'
      PROVE  e \in In(From(p, e)) /\ (p = h => e \notin M)
  <2>1. CASE p = h
    BY Zenon, <1>1, <2>1
  <2>2. CASE p = g
    BY Zenon, <1>1, <2>2
  <2>3. CASE p # h /\ p # g
    BY Zenon, <1>1, <2>3
  <2> QED
    BY Zenon, <2>1, <2>2, <2>3
<1>2. ASSUME NEW p \in Places, NEW q \in Places, NEW e, e \in In(p)', e \in In(q)' PROVE p = q
  <2>1. From(p, e) \in Places /\ From(q, e) \in Places
    BY Zenon
  <2>2. From(p, e) = From(q, e)
    BY Zenon, <1>1, <1>2, <2>1 DEF Placed
  <2>3. (p = h => e \notin M) /\ (q = h => e \notin M)
    BY Zenon, <1>1, <1>2
  <2> QED
    BY Zenon, <2>2, <2>3
<1>3. ASSUME NEW e \in Events PROVE \E p \in Places : e \in In(p)'
  <2>1. PICK p \in Places : e \in In(p)
    BY Zenon DEF Placed
  <2>2. CASE p = h
    BY Zenon, <2>1, <2>2
  <2>3. CASE p = g
    BY Zenon, <2>1, <2>3
  <2>4. CASE p # h /\ p # g
    BY Zenon, <2>1, <2>4
  <2> QED
    BY Zenon, <2>2, <2>3, <2>4
<1> QED
  BY Zenon, <1>2, <1>3 DEF Placed

\* Events that are on their way on a connection.
LEMMA LineIs ==
  ASSUME Types, NEW l \in Loops, NEW fd \in ConnIds, fd \in DOMAIN conn_maps[l], fd \in DOMAIN out_queues[l]
  PROVE  /\ conn_maps[l][fd] \in Buffers /\ conn_maps[l][fd].w \in Seq(Nat)
         /\ out_queues[l][fd] \in Seq(Seq(Nat)) /\ Joined(out_queues[l][fd]) \in Seq(Nat)
         /\ received[fd] \in Seq(Nat) /\ Line(l, fd) \in Seq(Nat)
         /\ \A e : e \in Range(Line(l, fd)) <=> e \in Range(received[fd]) \/ e \in Unsent(l, fd)
<1> DEFINE w == conn_maps[l][fd].w
           a == received[fd]
           b == Joined(out_queues[l][fd])
<1>1. /\ conn_maps[l] \in Maps(Buffers) /\ out_queues[l] \in Maps(Seq(Seq(Nat)))
      /\ a \in Seq(Nat)
  BY Zenon DEF Types, EventTypes
<1>2. conn_maps[l][fd] \in Buffers /\ out_queues[l][fd] \in Seq(Seq(Nat))
  BY Zenon, <1>1, MapsIs
<1>3. w \in Seq(Nat)
  BY <1>2 DEF Buffers
<1>4. b \in Seq(Nat)
  BY Zenon, <1>2, JoinedType
<1>5. Line(l, fd) = a \o w \o b /\ Unsent(l, fd) = Range(w) \cup Range(b)
  BY Zenon DEF Line, Unsent
<1> HIDE DEF w, a, b
<1>6. a \o w \in Seq(Nat) /\ \A e : e \in Range(a \o w) <=> e \in Range(a) \/ e \in Range(w)
  BY Zenon, <1>1, <1>3, RangeConcat
<1>7. a \o w \o b \in Seq(Nat) /\ \A e : e \in Range(a \o w \o b) <=> e \in Range(a \o w) \/ e \in Range(b)
  BY Zenon, <1>4, <1>6, RangeConcat
<1>8. ASSUME NEW e PROVE e \in Range(Line(l, fd)) <=> e \in Range(a) \/ e \in Unsent(l, fd)
  BY Zenon, <1>5, <1>6, <1>7
<1> QED
  BY Zenon, <1>1, <1>2, <1>3, <1>4, <1>5, <1>7, <1>8 DEF a, w, b

\* Whatever is in a place was pushed.
LEMMA InPushed ==
  ASSUME IInv, ~crashed, NEW p \in Places
  PROVE  In(p) \subseteq Events
<1>1. \A l \in Loops : Range(pushed[l]) \subseteq Events
  BY Zenon DEF Events
<1>2. CASE \E l \in Loops : p = <<"queue", l, 0>>
  <2>1. PICK l \in Loops : p = <<"queue", l, 0>>
    BY Zenon, <1>2
  <2>2. In(p) = Range(queues[l])
    BY Zenon, <2>1, InIs
  <2> QED
    BY Zenon, <1>1, <2>2 DEF IInv, OfLoop
<1>3. CASE \E l \in Loops, fd \in ConnIds : p = <<"way", l, fd>>
  <2>1. PICK l \in Loops, fd \in ConnIds : p = <<"way", l, fd>>
    BY Zenon, <1>3
  <2>2. In(p) = Way(l, fd)
    BY Zenon, <2>1, InIs
  <2>3. CASE fd \in DOMAIN fds[l]
    <3>1. fd \in DOMAIN conn_maps[l] /\ fd \in DOMAIN out_queues[l]
      BY Zenon, <2>3 DEF IInv, QueuesMatchConnections
    <3>2. Unsent(l, fd) \subseteq Range(Line(l, fd))
      BY Zenon, <3>1, LineIs DEF IInv
    <3>3. Range(Line(l, fd)) \subseteq Range(pushed[l])
      BY Zenon, <2>3 DEF IInv, OfLoop
    <3> QED
      BY Zenon, <1>1, <2>2, <2>3, <3>2, <3>3 DEF Way
  <2>4. CASE fd \notin DOMAIN fds[l]
    BY Zenon, <2>2, <2>4 DEF Way
  <2> QED
    BY Zenon, <2>3, <2>4
<1>4. CASE \E fd \in ConnIds : p = <<"sent", 0, fd>>
  <2>1. PICK fd \in ConnIds : p = <<"sent", 0, fd>>
    BY Zenon, <1>4
  <2>2. In(p) = Range(received[fd])
    BY Zenon, <2>1, InIs
  <2> QED
    BY Zenon, <2>2 DEF IInv, OfLoop
<1>5. CASE p = <<"lost", 0, 0>>
  <2>1. In(p) = lost
    BY Zenon, <1>5, InIs
  <2> QED
    BY Zenon, <2>1 DEF IInv, OfLoop
<1> QED
  BY Zenon, <1>2, <1>3, <1>4, <1>5, PlacesAre

\* A new event, the last of all, is put into place h.
LEMMA PlacedMore ==
  ASSUME IInv, Placed, ~crashed, Places' = Places, NEW h \in Places, NEW x, x \notin Events,
         \A e : e \in Events' <=> e \in Events \/ e = x,
         \A e : e \in In(h)' <=> e \in In(h) \/ e = x,
         \A p \in Places : p \notin {h} => In(p)' = In(p)
  PROVE  Placed'
<1>1. \A p \in Places : x \notin In(p)
  BY Zenon, InPushed
<1>2. ASSUME NEW p \in Places, NEW e, e \in In(p)' PROVE e \in In(p) \/ (e = x /\ p = h)
  BY Zenon, <1>2
<1>3. ASSUME NEW p \in Places, NEW q \in Places, NEW e, e \in In(p)', e \in In(q)' PROVE p = q
  <2>1. e \in In(p) \/ (e = x /\ p = h)
    BY Zenon, <1>2, <1>3
  <2>2. e \in In(q) \/ (e = x /\ q = h)
    BY Zenon, <1>2, <1>3
  <2>3. CASE e = x
    BY Zenon, <1>1, <2>1, <2>2, <2>3
  <2>4. CASE e # x
    <3>1. e \in In(p) \cap In(q)
      BY Zenon, <2>1, <2>2, <2>4
    <3> QED
      BY Zenon, <3>1 DEF Placed
  <2> QED
    BY Zenon, <2>3, <2>4
<1>4. ASSUME NEW p \in Places, NEW e \in In(p) PROVE e \in In(p)'
  BY Zenon, <1>4
<1>5. ASSUME NEW e, e \in Events' PROVE \E p \in Places : e \in In(p)'
  <2>1. CASE e = x
    BY Zenon, <2>1
  <2>2. CASE e \in Events
    BY Zenon, <2>2, <1>4 DEF Placed
  <2> QED
    BY Zenon, <1>5, <2>1, <2>2
<1> QED
  BY Zenon, <1>3, <1>5 DEF Placed

LEMMA IncreasingMore ==
  ASSUME NEW s \in Seq(Nat), NEW x \in Nat, Increasing(s), \A e \in Range(s) : e < x
  PROVE  Increasing(Append(s, x))
<1> DEFINE t == Append(s, x)
<1>1. DOMAIN t = 1..(Len(s) + 1) /\ DOMAIN s = 1..Len(s) /\ Len(s) \in Nat /\ t[Len(s) + 1] = x
  OBVIOUS
<1>2. \A i \in 1..Len(s) : t[i] = s[i]
  OBVIOUS
<1> HIDE DEF t
<1>3. ASSUME NEW i \in 1..(Len(s) + 1), NEW j \in 1..(Len(s) + 1), i < j PROVE t[i] < t[j]
  <2>1. i \in 1..Len(s)
    BY <1>1, <1>3
  <2>2. CASE j = Len(s) + 1
    BY Zenon, <1>1, <1>2, <2>1, <2>2 DEF Range
  <2>3. CASE j # Len(s) + 1
    <3>1. j \in 1..Len(s)
      BY <1>1, <2>3
    <3> QED
      BY Zenon, <1>1, <1>2, <1>3, <2>1, <3>1 DEF Increasing
  <2> QED
    BY Zenon, <2>2, <2>3
<1> QED
  BY Zenon, <1>1, <1>3 DEF Increasing, t

\* push_event queues the event behind all that were pushed before.
LEMMA InvPushEvent ==
  ASSUME IInv, NEW t \in Threads, PushEvent(t)
  PROVE  IInv'
<1>a. PICK l \in Loops : l = next_thread
  BY Zenon DEF IInv, Types, ControlTypes
<1>b. PICK x : x = Cardinality(Events) + 1
  BY Zenon
<1>1. /\ Len(queues[l]) < QueueCap
      /\ queues' = [queues EXCEPT ![l] = Append(queues[l], x)]
      /\ pushed' = [pushed EXCEPT ![l] = Append(pushed[l], x)]
      /\ pusher' = [pusher EXCEPT ![t] = [at |-> "signal", l |-> l]]
      /\ UNCHANGED <<next_thread, flush, pending, loop_vars>>
  BY Zenon, <1>a, <1>b DEF PushEvent, TryPush
<1>2. /\ scenario' = scenario /\ Loops' = Loops /\ next_thread' = next_thread
      /\ new_fds' = new_fds /\ fds' = fds /\ conn_maps' = conn_maps /\ out_queues' = out_queues
      /\ server' = server /\ received' = received /\ lost' = lost /\ failed' = failed
      /\ flush' = flush /\ pending' = pending /\ UNCHANGED crashed
  BY Zenon, <1>1 DEF loop_vars, Loops, NL
<1>3. /\ l \in Loops /\ queues \in [Loops -> Seq(Nat)] /\ pushed \in [Loops -> Seq(Nat)]
      /\ pusher \in [Threads -> [at : Steps, l : Loops]]
  BY Zenon DEF IInv, Types, ControlTypes, EventTypes
<1>4. PICK n \in Nat : \A e : e \in Events <=> e \in 1..n
  BY Zenon DEF IInv, Numbered
<1>5. x = n + 1 /\ x \in Nat
  <2>1. Events = 1..n
    BY Zenon, <1>4
  <2>2. Cardinality(1..n) = n
    BY FS_Interval
  <2> QED
    BY <1>b, <2>1, <2>2
<1>6. x \notin Events /\ \A e \in Events : e < x
  BY <1>4, <1>5
<1>7. queues[l] \in Seq(Nat) /\ pushed[l] \in Seq(Nat)
  BY Zenon, <1>3
<1>8. /\ Append(queues[l], x) \in Seq(Nat) /\ Append(pushed[l], x) \in Seq(Nat)
      /\ \A e : e \in Range(Append(queues[l], x)) <=> e \in Range(queues[l]) \/ e = x
      /\ \A e : e \in Range(Append(pushed[l], x)) <=> e \in Range(pushed[l]) \/ e = x
  BY Zenon, <1>5, <1>7, AppendRange
<1>9. ASSUME NEW k \in Loops
      PROVE  /\ queues'[k] = IF k = l THEN Append(queues[l], x) ELSE queues[k]
             /\ \A e : e \in Range(queues'[k]) <=> e \in Range(queues[k]) \/ (k = l /\ e = x)
             /\ \A e : e \in Range(pushed'[k]) <=> e \in Range(pushed[k]) \/ (k = l /\ e = x)
  <2>1. queues'[k] = IF k = l THEN Append(queues[l], x) ELSE queues[k]
    BY Zenon, <1>1, <1>3
  <2>2. pushed'[k] = IF k = l THEN Append(pushed[l], x) ELSE pushed[k]
    BY Zenon, <1>1, <1>3
  <2>3. CASE k = l
    BY Zenon, <2>1, <2>2, <2>3, <1>8
  <2>4. CASE k # l
    BY Zenon, <2>1, <2>2, <2>4
  <2> QED
    BY Zenon, <2>3, <2>4
<1>10. \A e : e \in Events <=> \E k \in Loops : e \in Range(pushed[k])
  BY Zenon DEF Events
<1>11. \A e : e \in Events' <=> e \in Events \/ e = x
  <2>1. \A e : e \in Events' <=> \E k \in Loops : e \in Range(pushed'[k])
    BY Zenon, <1>2 DEF Events
  <2> QED
    BY Zenon, <1>3, <1>9, <1>10, <2>1
<1>12. Types'
  <2>1. queues' \in [Loops -> Seq(Nat)] /\ pushed' \in [Loops -> Seq(Nat)]
    BY Zenon, <1>1, <1>3, <1>8
  <2>2. pusher' \in [Threads -> [at : Steps, l : Loops]]
    <3>1. [at |-> "signal", l |-> l] \in [at : Steps, l : Loops]
      BY <1>3 DEF Steps
    <3> QED
      BY Zenon, <1>1, <1>3, <3>1
  <2>3. ControlTypes'
    BY Zenon, <1>2, <2>2 DEF IInv, Types, ControlTypes
  <2>4. EventTypes'
    BY Zenon, <1>2, <2>1 DEF IInv, Types, EventTypes
  <2> QED
    BY Zenon, <2>3, <2>4 DEF Types
<1>13. Sizes'
  <2>1. ASSUME NEW k \in Loops PROVE Len(queues'[k]) <= QueueCap
    <3>1. CASE k = l
      <4>1. Len(Append(queues[l], x)) = Len(queues[l]) + 1 /\ Len(queues[l]) \in Nat
        BY <1>7
      <4>2. Len(Append(queues[l], x)) <= QueueCap
        BY <1>1, <4>1, Bounds
      <4> QED
        BY Zenon, <3>1, <4>2, <1>9
    <3>2. CASE k # l
      BY Zenon, <3>2, <1>9 DEF IInv, Sizes
    <3> QED
      BY Zenon, <3>1, <3>2
  <2> QED
    BY Zenon, <1>2, <2>1 DEF IInv, Sizes
<1>14. Owned' /\ QueuesMatchConnections'
  <2>1. Owned'
    BY Zenon, <1>2, OwnedFrame DEF IInv
  <2>2. QueuesMatchConnections'
    BY Zenon, <1>2 DEF IInv, QueuesMatchConnections
  <2> QED
    BY Zenon, <2>1, <2>2
<1>15. Numbered'
  <2>1. n + 1 \in Nat /\ \A e : e \in 1..(n + 1) <=> e \in 1..n \/ e = n + 1
    OBVIOUS
  <2>2. \A e : e \in Events' <=> e \in 1..(n + 1)
    BY Zenon, <1>4, <1>5, <1>11, <2>1
  <2>3. ASSUME NEW j \in Loops, NEW k \in Loops, NEW e \in Range(pushed'[j]) \cap Range(pushed'[k])
        PROVE  j = k
    <3>1. e \in Range(pushed[j]) \/ (j = l /\ e = x)
      BY Zenon, <1>9, <2>3
    <3>2. e \in Range(pushed[k]) \/ (k = l /\ e = x)
      BY Zenon, <1>9, <2>3
    <3>3. x \notin Range(pushed[j]) /\ x \notin Range(pushed[k])
      BY Zenon, <1>6, <1>10
    <3>4. e \in Range(pushed[j]) /\ e \in Range(pushed[k]) => j = k
      BY Zenon DEF IInv, Numbered
    <3> QED
      BY Zenon, <3>1, <3>2, <3>3, <3>4
  <2> QED
    BY Zenon, <1>2, <2>1, <2>2, <2>3 DEF Numbered
<1>16. \A k, fd : Line(k, fd)' = Line(k, fd) /\ Unsent(k, fd)' = Unsent(k, fd) /\ Way(k, fd)' = Way(k, fd)
  BY Zenon, <1>2 DEF Line, Unsent, Way
<1>17. OfLoop'
  <2>1. ASSUME NEW k \in Loops
        PROVE  /\ Range(queues'[k]) \subseteq Range(pushed'[k])
               /\ crashed' \/ \A fd \in DOMAIN fds'[k] : Range(Line(k, fd)') \subseteq Range(pushed'[k])
    <3>1. /\ Range(queues[k]) \subseteq Range(pushed[k])
          /\ crashed \/ \A fd \in DOMAIN fds[k] : Range(Line(k, fd)) \subseteq Range(pushed[k])
      BY Zenon DEF IInv, OfLoop
    <3>2. Range(pushed[k]) \subseteq Range(pushed'[k])
      BY Zenon, <1>9
    <3>3. Range(queues'[k]) \subseteq Range(pushed'[k])
      BY Zenon, <1>9, <3>1
    <3>4. crashed' \/ \A fd \in DOMAIN fds'[k] : Range(Line(k, fd)') \subseteq Range(pushed'[k])
      BY Zenon, <1>2, <1>16, <3>1, <3>2
    <3> QED
      BY Zenon, <3>3, <3>4
  <2>2. lost' \subseteq Events' /\ \A fd \in ConnIds : Range(received'[fd]) \subseteq Events'
    BY Zenon, <1>2, <1>11 DEF IInv, OfLoop
  <2> QED
    BY Zenon, <1>2, <2>1, <2>2 DEF OfLoop
<1>18. Ordered'
  <2>1. \A fd \in ConnIds : Increasing(received'[fd])
    BY Zenon, <1>2 DEF IInv, Ordered
  <2>2. ASSUME ~crashed, NEW k \in Loops
        PROVE  /\ Increasing(queues'[k])
               /\ \A fd \in DOMAIN fds'[k] : Increasing(Line(k, fd)')
               /\ \A fd \in DOMAIN fds'[k] : Below(Range(Line(k, fd)'), Range(queues'[k]))
    <3>1. /\ Increasing(queues[k])
          /\ \A fd \in DOMAIN fds[k] : Increasing(Line(k, fd)) /\ Below(Range(Line(k, fd)), Range(queues[k]))
      BY Zenon, <2>2 DEF IInv, Ordered
    <3>2. \A fd \in DOMAIN fds'[k] : Increasing(Line(k, fd)')
      BY Zenon, <1>2, <1>16, <3>1
    <3>3. Increasing(queues'[k])
      <4>1. CASE k = l
        <5>1. Range(queues[l]) \subseteq Events
          BY Zenon, <1>3, <1>10 DEF IInv, OfLoop
        <5>2. Increasing(Append(queues[l], x))
          BY Zenon, <1>5, <1>6, <1>7, <3>1, <4>1, <5>1, IncreasingMore
        <5> QED
          BY Zenon, <1>9, <4>1, <5>2
      <4>2. CASE k # l
        BY Zenon, <1>9, <3>1, <4>2
      <4> QED
        BY Zenon, <4>1, <4>2
    <3>4. ASSUME NEW fd \in DOMAIN fds[k], NEW a \in Range(Line(k, fd)), NEW b \in Range(queues'[k])
          PROVE  a < b
      <4>1. a \in Events
        BY Zenon, <1>10, <2>2 DEF IInv, OfLoop
      <4>2. CASE b = x
        BY Zenon, <1>6, <4>1, <4>2
      <4>3. CASE b \in Range(queues[k])
        BY Zenon, <3>1, <4>3 DEF Below
      <4> QED
        BY Zenon, <1>9, <4>2, <4>3
    <3>5. \A fd \in DOMAIN fds'[k] : Below(Range(Line(k, fd)'), Range(queues'[k]))
      BY Zenon, <1>2, <1>16, <3>4 DEF Below
    <3> QED
      BY Zenon, <3>2, <3>3, <3>5
  <2> QED
    BY Zenon, <1>2, <2>1, <2>2 DEF Ordered
<1>19. (crashed \/ Placed)'
  <2> SUFFICES ASSUME ~crashed PROVE Placed'
    BY Zenon, <1>2
  <2> DEFINE h == <<"queue", l, 0>>
  <2>1. h \in Places /\ Places' = Places
    BY Zenon, <1>2, <1>3, PlacesAre DEF Places
  <2>2. \A e : e \in In(h)' <=> e \in In(h) \/ e = x
    <3>1. In(h) = Range(queues[l]) /\ In(h)' = Range(queues'[l])
      BY Zenon, InIs, InIsNext
    <3> QED
      BY Zenon, <1>3, <1>9, <3>1
  <2>3. \A p \in Places : p \notin {h} => In(p)' = In(p)
    <3>1. ASSUME NEW k \in Loops, <<"queue", k, 0>> \notin {h} PROVE Range(queues'[k]) = Range(queues[k])
      BY Zenon, <1>9, <3>1
    <3> QED
      BY Zenon, <1>2, <1>16, <3>1, InSame
  <2>4. Placed
    BY Zenon DEF IInv
  <2> HIDE DEF h
  <2> QED
    BY Zenon, <1>6, <1>11, <2>1, <2>2, <2>3, <2>4, PlacedMore
<1> QED
  BY Zenon, <1>12, <1>13, <1>14, <1>15, <1>17, <1>18, <1>19 DEF IInv

-----------------------------------------------------------------------------
(* The steps of a loop.                                                     *)

\* What the invariant says of the order of a loop's events.
LoopOk(l) ==
  /\ Increasing(queues[l])
  /\ \A fd \in DOMAIN fds[l] : /\ Increasing(Line(l, fd)) /\ Below(Range(Line(l, fd)), Range(queues[l]))
                               /\ Range(Line(l, fd)) \subseteq Range(pushed[l])

LEMMA LoopIsOk ==
  ASSUME IInv, ~crashed, NEW l \in Loops
  PROVE  LoopOk(l)
  BY Zenon DEF IInv, Ordered, OfLoop, LoopOk

LEMMA LoopsAreOk ==
  ASSUME \A fd \in ConnIds : Increasing(received'[fd]) /\ Range(received'[fd]) \subseteq Events',
         lost' \subseteq Events', \A l \in Loops' : Range(queues'[l]) \subseteq Range(pushed'[l]),
         crashed' \/ \A l \in Loops' : LoopOk(l)'
  PROVE  Ordered' /\ OfLoop'
<1>1. Ordered'
  BY Zenon DEF Ordered, LoopOk
<1>2. OfLoop'
  BY Zenon DEF OfLoop, LoopOk
<1> QED
  BY Zenon, <1>1, <1>2

\* A loop none of whose events or connections is touched.
SameLoop(k) ==
  /\ queues'[k] = queues[k] /\ pushed'[k] = pushed[k] /\ fds'[k] = fds[k] /\ out_queues'[k] = out_queues[k]
  /\ conn_maps'[k] = conn_maps[k] /\ \A fd \in DOMAIN fds[k] : received'[fd] = received[fd]

LEMMA SameLoopOk ==
  ASSUME NEW k, LoopOk(k), SameLoop(k)
  PROVE  LoopOk(k)' /\ \A fd : Way(k, fd)' = Way(k, fd)
<1>1. \A fd \in DOMAIN fds[k] : Line(k, fd)' = Line(k, fd) /\ Unsent(k, fd)' = Unsent(k, fd)
  BY Zenon DEF SameLoop, Line, Unsent
<1>2. LoopOk(k)'
  BY Zenon, <1>1 DEF SameLoop, LoopOk
<1>3. \A fd : Way(k, fd)' = Way(k, fd)
  BY Zenon, <1>1 DEF SameLoop, Way
<1> QED
  BY Zenon, <1>2, <1>3

\* A connection belongs to one loop.
LEMMA OneLoop ==
  ASSUME IInv, NEW l \in Loops, NEW k \in Loops, NEW fd, fd \in DOMAIN out_queues[l],
         fd \in DOMAIN out_queues[k] \/ fd \in DOMAIN fds[k]
  PROVE  l = k
<1>1. fd \in DOMAIN out_queues[k]
  BY Zenon DEF IInv, QueuesMatchConnections
<1>2. fd \in Has(l) \cap Has(k)
  BY Zenon, <1>1 DEF Has
<1> QED
  BY Zenon, <1>2 DEF IInv, Owned

\* The connections of a loop have a place in all its maps.
LEMMA Watched ==
  ASSUME IInv, NEW l \in Loops, NEW fd \in DOMAIN fds[l]
  PROVE  fd \in ConnIds /\ fd \in DOMAIN conn_maps[l] /\ fd \in DOMAIN out_queues[l]
<1>1. fd \in DOMAIN conn_maps[l] /\ fd \in DOMAIN out_queues[l]
  BY Zenon DEF IInv, QueuesMatchConnections
<1>2. fds[l] \in Maps(Modes)
  BY Zenon DEF IInv, Types, EventTypes
<1> QED
  BY Zenon, <1>1, <1>2, MapsIs

\* Connections are only given up, and events only received on one that a loop has.
LEMMA OwnedKept ==
  ASSUME Owned, server.made \in 0..MaxConns, UNCHANGED <<scenario, new_fds, server>>,
         \A k \in Loops : DOMAIN out_queues'[k] \subseteq DOMAIN out_queues[k],
         \A fd \in ConnIds : received'[fd] = received[fd] \/ \E k \in Loops : fd \in DOMAIN out_queues[k]
  PROVE  Owned'
<1>1. scenario' = scenario /\ new_fds' = new_fds /\ server' = server
  BY Zenon
<1>2. Loops' = Loops
  BY Zenon, <1>1 DEF Loops, NL
<1>3. \A k \in Loops : Has(k)' \subseteq Has(k) /\ Range(new_fds'[k]) = Range(new_fds[k])
  BY Zenon, <1>1 DEF Has
<1>4. /\ server'.closed \subseteq 1..server'.made
      /\ \A l \in Loops : Has(l)' \subseteq 1..server'.made
  BY Zenon, <1>1, <1>3 DEF Owned
<1>5. ASSUME NEW l \in Loops, NEW k \in Loops, NEW fd, fd \in Has(l)', fd \in Has(k)' PROVE l = k
  <2>1. fd \in Has(l) \cap Has(k)
    BY Zenon, <1>3, <1>5
  <2> QED
    BY Zenon, <2>1 DEF Owned
<1>6. ASSUME NEW l \in Loops PROVE DOMAIN out_queues'[l] \cap Range(new_fds'[l]) = {}
  <2>1. DOMAIN out_queues[l] \cap Range(new_fds[l]) = {}
    BY Zenon DEF Owned
  <2> QED
    BY Zenon, <1>3, <2>1
<1>7. ASSUME NEW fd \in ConnIds, fd > server.made \/ \E l \in Loops : fd \in Range(new_fds[l])
      PROVE  received'[fd] = <<>>
  <2>1. received[fd] = <<>>
    BY Zenon, <1>7 DEF Owned
  <2>2. ASSUME NEW k \in Loops, fd \in DOMAIN out_queues[k] PROVE FALSE
    <3>1. fd \in Has(k) /\ fd \in 1..server.made
      BY Zenon, <2>2 DEF Has, Owned
    <3>2. CASE fd > server.made
      BY <3>1, <3>2, Bounds
    <3>3. ASSUME NEW l \in Loops, fd \in Range(new_fds[l]) PROVE FALSE
      <4>1. fd \in Has(l) \cap Has(k)
        BY Zenon, <3>1, <3>3 DEF Has
      <4>2. l = k
        BY Zenon, <4>1 DEF Owned
      <4> QED
        BY Zenon, <2>2, <3>3, <4>2 DEF Owned
    <3> QED
      BY Zenon, <1>7, <3>2, <3>3
  <2> QED
    BY Zenon, <2>1, <2>2
<1>8. \A fd \in ConnIds : fd > server'.made => received'[fd] = <<>>
  BY Zenon, <1>1, <1>7
<1>9. ASSUME NEW l \in Loops, NEW fd \in Range(new_fds'[l]) PROVE received'[fd] = <<>>
  <2>1. fd \in Range(new_fds[l]) /\ fd \in Has(l)
    BY Zenon, <1>3 DEF Has
  <2>2. fd \in 1..server.made
    BY Zenon, <2>1 DEF Owned
  <2>3. CASE fd \in ConnIds
    BY Zenon, <1>7, <2>1, <2>3
  <2>4. CASE fd \notin ConnIds
    BY <2>2, <2>4, Bounds DEF ConnIds
  <2> QED
    BY Zenon, <2>3, <2>4
<1> QED
  BY Zenon, <1>2, <1>4, <1>5, <1>6, <1>8, <1>9 DEF Owned

\* Loop l has the queues o when the connection fd is closed.
Closing(l, fd, o) ==
  /\ o \in Maps(Seq(Seq(Nat))) /\ DOMAIN o \subseteq DOMAIN out_queues[l]
  /\ DOMAIN out_queues[l] \ {fd} \subseteq DOMAIN o
  /\ \A g \in DOMAIN out_queues[l] \ {fd} : o[g] = out_queues[l][g]
  /\ \A g \in DOMAIN o : Len(o[g]) <= QueueCap + 1
  /\ \/ failed' = [failed EXCEPT ![l] = TRUE]
     \/ failed' = failed /\ fd \notin DOMAIN o

\* A connection is closed: what was on its way is lost.
LEMMA InvClose ==
  ASSUME IInv, ~crashed, NEW l \in Loops, NEW fd \in DOMAIN fds[l], NEW o, Closing(l, fd, o),
         lost' = lost \cup Unsent(l, fd), Close(l, fd), out_queues' = [out_queues EXCEPT ![l] = o],
         UNCHANGED <<scenario, next_thread, pusher, queues, flush, pending, new_fds, server, crashed, pushed,
                     received>>
  PROVE  IInv'
<1>1. /\ scenario' = scenario /\ queues' = queues /\ pushed' = pushed /\ received' = received
      /\ server' = server /\ new_fds' = new_fds /\ Loops' = Loops /\ Events' = Events /\ ~crashed'
  BY Zenon DEF Loops, NL, Events
<1>2. /\ fds \in [Loops -> Maps(Modes)] /\ conn_maps \in [Loops -> Maps(Buffers)]
      /\ out_queues \in [Loops -> Maps(Seq(Seq(Nat)))]
  BY Zenon DEF IInv, Types, EventTypes
<1>3. /\ fds[l] \in Maps(Modes) /\ conn_maps[l] \in Maps(Buffers)
      /\ out_queues[l] \in Maps(Seq(Seq(Nat)))
  BY Zenon, <1>2
<1>4. fd \in ConnIds /\ fd \in DOMAIN conn_maps[l] /\ fd \in DOMAIN out_queues[l]
  BY Zenon, Watched
<1>5. /\ fds'[l] = Drop(fds[l], fd) /\ conn_maps'[l] = Drop(conn_maps[l], fd) /\ out_queues'[l] = o
      /\ \A k \in Loops : k # l => /\ fds'[k] = fds[k] /\ conn_maps'[k] = conn_maps[k]
                                   /\ out_queues'[k] = out_queues[k]
  BY Zenon, <1>2 DEF Close
<1>6. Drop(fds[l], fd) \in Maps(Modes) /\ DOMAIN Drop(fds[l], fd) = DOMAIN fds[l] \ {fd}
  <2>1. ASSUME NEW m \in Maps(Modes) PROVE Drop(m, fd) \in Maps(Modes) /\ DOMAIN Drop(m, fd) = DOMAIN m \ {fd}
    BY Zenon, DropIs
  <2> QED
    BY Zenon, <1>3, <2>1
<1>7. /\ Drop(conn_maps[l], fd) \in Maps(Buffers)
      /\ DOMAIN Drop(conn_maps[l], fd) = DOMAIN conn_maps[l] \ {fd}
      /\ \A g \in DOMAIN conn_maps[l] \ {fd} : Drop(conn_maps[l], fd)[g] = conn_maps[l][g]
  <2>1. ASSUME NEW m \in Maps(Buffers)
        PROVE  /\ Drop(m, fd) \in Maps(Buffers) /\ DOMAIN Drop(m, fd) = DOMAIN m \ {fd}
               /\ \A g \in DOMAIN m \ {fd} : Drop(m, fd)[g] = m[g]
    BY Zenon, DropIs
  <2> QED
    BY Zenon, <1>3, <2>1
<1>8. Unsent(l, fd) \subseteq Events /\ lost \subseteq Events /\ Events \subseteq Nat
  <2>1. Unsent(l, fd) \subseteq Range(Line(l, fd))
    BY Zenon, <1>4, LineIs DEF IInv
  <2>2. Range(Line(l, fd)) \subseteq Range(pushed[l])
    BY Zenon, LoopIsOk DEF LoopOk
  <2>3. Range(pushed[l]) \subseteq Events
    BY Zenon DEF Events
  <2>4. PICK n \in Nat : \A e : e \in Events <=> e \in 1..n
    BY Zenon DEF IInv, Numbered
  <2>5. Events \subseteq Nat
    BY <2>4
  <2> QED
    BY Zenon, <2>1, <2>2, <2>3, <2>5 DEF IInv, OfLoop
<1>9. Types'
  <2>1. fds' \in [Loops -> Maps(Modes)] /\ conn_maps' \in [Loops -> Maps(Buffers)]
    BY Zenon, <1>2, <1>6, <1>7 DEF Close
  <2>2. out_queues' \in [Loops -> Maps(Seq(Seq(Nat)))]
    BY Zenon, <1>2 DEF Closing
  <2>3. failed' \in [Loops -> BOOLEAN]
    BY Zenon DEF Closing, IInv, Types, ControlTypes
  <2>4. EventTypes'
    BY Zenon, <1>1, <1>8, <2>1, <2>2 DEF IInv, Types, EventTypes
  <2>5. ControlTypes'
    BY Zenon, <1>1, <2>3 DEF IInv, Types, ControlTypes
  <2> QED
    BY Zenon, <2>4, <2>5 DEF Types
<1>10. Sizes'
  <2>1. ASSUME NEW k \in Loops, NEW g \in DOMAIN conn_maps'[k] PROVE Len(conn_maps'[k][g].w) <= BuffSize
    <3>1. g \in DOMAIN conn_maps[k] /\ conn_maps'[k][g] = conn_maps[k][g]
      BY Zenon, <1>5, <1>7
    <3> QED
      BY Zenon, <3>1 DEF IInv, Sizes
  <2>2. ASSUME NEW k \in Loops, NEW g \in DOMAIN out_queues'[k] PROVE Len(out_queues'[k][g]) <= QueueCap + 1
    BY Zenon, <1>5 DEF Closing, IInv, Sizes
  <2> QED
    BY Zenon, <1>1, <2>1, <2>2 DEF IInv, Sizes
<1>11. Owned'
  <2>1. \A k \in Loops : DOMAIN out_queues'[k] \subseteq DOMAIN out_queues[k]
    BY Zenon, <1>5 DEF Closing
  <2>2. server.made \in 0..MaxConns
    BY DEF IInv, Types, ControlTypes
  <2> QED
    BY Zenon, <1>1, <2>1, <2>2, OwnedKept DEF IInv
<1>12. Numbered'
  BY Zenon, <1>1 DEF IInv, Numbered
<1>13. QueuesMatchConnections'
  <2>1. ASSUME NEW k \in Loops
        PROVE  /\ DOMAIN fds'[k] = DOMAIN conn_maps'[k] /\ DOMAIN fds'[k] \subseteq DOMAIN out_queues'[k]
               /\ ~failed'[k] => DOMAIN out_queues'[k] = DOMAIN fds'[k]
    <3>1. /\ DOMAIN fds[k] = DOMAIN conn_maps[k] /\ DOMAIN fds[k] \subseteq DOMAIN out_queues[k]
          /\ ~failed[k] => DOMAIN out_queues[k] = DOMAIN fds[k]
      BY Zenon DEF IInv, QueuesMatchConnections
    <3>2. failed \in [Loops -> BOOLEAN]
      BY Zenon DEF IInv, Types, ControlTypes
    <3>3. CASE k # l
      <4>1. ~failed'[k] => ~failed[k]
        BY Zenon, <3>2, <3>3 DEF Closing
      <4> QED
        BY Zenon, <1>5, <3>1, <3>3, <4>1
    <3>4. CASE k = l
      <4>1. DOMAIN fds'[l] = DOMAIN fds[l] \ {fd} /\ DOMAIN conn_maps'[l] = DOMAIN fds[l] \ {fd}
        BY Zenon, <1>5, <1>6, <1>7, <3>1, <3>4
      <4>2. DOMAIN fds'[l] \subseteq DOMAIN out_queues'[l]
        BY Zenon, <1>5, <3>1, <3>4, <4>1 DEF Closing
      <4>3. ASSUME ~failed'[l] PROVE DOMAIN out_queues'[l] = DOMAIN fds'[l]
        <5>1. failed' = failed /\ fd \notin DOMAIN o
          BY Zenon, <3>2, <4>3 DEF Closing
        <5>2. DOMAIN out_queues[l] = DOMAIN fds[l]
          BY Zenon, <3>1, <3>4, <4>3, <5>1
        <5> QED
          BY Zenon, <1>5, <4>1, <5>1, <5>2 DEF Closing
      <4> QED
        BY Zenon, <3>4, <4>1, <4>2, <4>3
    <3> QED
      BY Zenon, <3>3, <3>4
  <2> QED
    BY Zenon, <1>1, <2>1 DEF QueuesMatchConnections
<1>14. ASSUME NEW g \in DOMAIN fds'[l]
       PROVE  /\ g \in DOMAIN fds[l] /\ g # fd
              /\ Line(l, g)' = Line(l, g) /\ Unsent(l, g)' = Unsent(l, g)
  <2>1. g \in DOMAIN fds[l] /\ g # fd
    BY Zenon, <1>5, <1>6
  <2>2. g \in DOMAIN conn_maps[l] /\ g \in DOMAIN out_queues[l]
    BY Zenon, <2>1, Watched
  <2>3. conn_maps'[l][g] = conn_maps[l][g] /\ out_queues'[l][g] = out_queues[l][g]
    BY Zenon, <1>5, <1>7, <2>1, <2>2 DEF Closing
  <2> QED
    BY Zenon, <1>1, <2>1, <2>3 DEF Line, Unsent
<1>15. ASSUME NEW k \in Loops, k # l PROVE SameLoop(k)
  BY Zenon, <1>1, <1>5, <1>15 DEF SameLoop
<1>16. Ordered' /\ OfLoop'
  <2>1. ASSUME NEW k \in Loops PROVE LoopOk(k)'
    <3>1. LoopOk(k)
      BY Zenon, LoopIsOk
    <3>2. CASE k # l
      BY Zenon, <1>15, <3>1, <3>2, SameLoopOk
    <3>3. CASE k = l
      BY Zenon, <1>1, <1>14, <3>1, <3>3 DEF LoopOk
    <3> QED
      BY Zenon, <3>2, <3>3
  <2>2. \A g \in ConnIds : Increasing(received'[g]) /\ Range(received'[g]) \subseteq Events'
    BY Zenon, <1>1 DEF IInv, Ordered, OfLoop
  <2>3. lost' \subseteq Events' /\ \A k \in Loops : Range(queues'[k]) \subseteq Range(pushed'[k])
    BY Zenon, <1>1, <1>8 DEF IInv, OfLoop
  <2> QED
    BY Zenon, <1>1, <2>1, <2>2, <2>3, LoopsAreOk
<1>17. Placed'
  <2> DEFINE h == <<"way", l, fd>>
             g == <<"lost", 0, 0>>
  <2>0. PICK M : M = Unsent(l, fd)
    BY Zenon
  <2>1. h \in Places /\ g \in Places /\ h # g /\ Places' = Places
    <3>1. h # g
      OBVIOUS
    <3> QED
      BY Zenon, <1>1, <1>4, <3>1, PlacesAre DEF Places
  <2>2. In(h) = M /\ In(h)' = {} /\ In(g) = lost /\ In(g)' = lost \cup M
    <3>1. Way(l, fd) = M /\ Way(l, fd)' = {}
      BY Zenon, <2>0, <1>14 DEF Way
    <3>2. In(h) = Way(l, fd) /\ In(h)' = Way(l, fd)' /\ In(g) = lost /\ In(g)' = lost'
      BY Zenon, InIs, InIsNext
    <3> QED
      BY Zenon, <2>0, <3>1, <3>2
  <2>3. \A p \in Places : p \notin {h, g} => In(p)' = In(p)
    <3>1. ASSUME NEW k \in Loops, NEW c \in ConnIds, <<"way", k, c>> \notin {h, g}
          PROVE  Way(k, c)' = Way(k, c)
      <4>1. CASE k # l
        <5>1. LoopOk(k)
          BY Zenon, LoopIsOk
        <5> QED
          BY Zenon, <1>15, <4>1, <5>1, SameLoopOk
      <4>2. CASE k = l
        <5>1. c # fd
          BY Zenon, <3>1, <4>2
        <5>2. c \in DOMAIN fds'[l] <=> c \in DOMAIN fds[l]
          BY Zenon, <1>5, <1>6, <5>1
        <5> QED
          BY Zenon, <1>14, <4>2, <5>2 DEF Way
      <4> QED
        BY Zenon, <4>1, <4>2
    <3>2. g \in {h, g}
      BY Zenon
    <3> QED
      BY Zenon, <1>1, <3>1, <3>2, InSame
  <2>4. Placed
    BY Zenon DEF IInv
  <2> HIDE DEF h, g
  <2>5. M \subseteq In(h) /\ (\A e : e \in In(h)' <=> e \in In(h) /\ e \notin M)
    BY Zenon, <2>2
  <2>6. \A e : e \in In(g)' <=> e \in In(g) \/ e \in M
    BY Zenon, <2>2
  <2> QED
    BY Zenon, <1>1, <2>1, <2>3, <2>4, <2>5, <2>6, PlacedMoves
<1> QED
  BY Zenon, <1>9, <1>10, <1>11, <1>12, <1>13, <1>16, <1>17 DEF IInv

LEMMA InvReadClosed ==
  ASSUME IInv, NEW l \in Loops, NEW fd \in ConnIds, ReadClosed(l, fd)
  PROVE  IInv'
<1>1. /\ ~crashed /\ fd \in DOMAIN fds[l] /\ lost' = lost \cup Unsent(l, fd) /\ Close(l, fd)
      /\ EraseOut(l, fd) /\ failed' = failed
      /\ UNCHANGED <<scenario, next_thread, pusher, queues, flush, pending, new_fds, server, crashed, pushed,
                     received>>
  BY Zenon DEF ReadClosed
<1> DEFINE o == Drop(out_queues[l], fd)
<1>2. out_queues' = [out_queues EXCEPT ![l] = o]
  BY Zenon, <1>1 DEF EraseOut
<1>3. out_queues[l] \in Maps(Seq(Seq(Nat)))
  BY Zenon DEF IInv, Types, EventTypes
<1>4. /\ o \in Maps(Seq(Seq(Nat))) /\ DOMAIN o = DOMAIN out_queues[l] \ {fd}
      /\ \A g \in DOMAIN out_queues[l] \ {fd} : o[g] = out_queues[l][g]
  BY Zenon, <1>3, DropIs
<1> HIDE DEF o
<1>5. Closing(l, fd, o)
  <2>1. \A g \in DOMAIN o : Len(o[g]) <= QueueCap + 1
    BY Zenon, <1>4 DEF IInv, Sizes
  <2> QED
    BY Zenon, <1>1, <1>4, <2>1 DEF Closing
<1> QED
  BY Zenon, <1>1, <1>2, <1>5, InvClose

-----------------------------------------------------------------------------
(* A connection is written to, or only read from.                           *)

\* The map of loop l has v for fd, and is otherwise as it was.
PutAt(S, f, i, l, fd, v) ==
  /\ i \in [Loops -> Maps(S)] /\ DOMAIN i[l] = DOMAIN f[l] /\ i[l][fd] = v
  /\ \A g \in DOMAIN f[l] : g # fd => i[l][g] = f[l][g]
  /\ \A k \in Loops : k # l => i[k] = f[k]

LEMMA PutAtIs ==
  ASSUME NEW S, NEW f \in [Loops -> Maps(S)], NEW l \in Loops, NEW fd \in DOMAIN f[l], NEW v \in S
  PROVE  /\ PutAt(S, f, [f EXCEPT ![l][fd] = v], l, fd, v) /\ PutAt(S, f, f, l, fd, f[l][fd])
         /\ [f EXCEPT ![l][fd] = v] = [f EXCEPT ![l] = [f[l] EXCEPT ![fd] = v]]
<1> DEFINE m == [f[l] EXCEPT ![fd] = v]
           i == [f EXCEPT ![l] = m]
<1>1. [f EXCEPT ![l][fd] = v] = i
  BY Zenon
<1>2. f[l] \in Maps(S)
  BY Zenon
<1>3. m \in Maps(S) /\ DOMAIN m = DOMAIN f[l] /\ m[fd] = v /\ \A g \in DOMAIN f[l] \ {fd} : m[g] = f[l][g]
  BY Zenon, <1>2, PutIs
<1> HIDE DEF m
<1>4. i \in [Loops -> Maps(S)] /\ i[l] = m /\ \A k \in Loops : k # l => i[k] = f[k]
  BY Zenon, <1>3
<1> HIDE DEF i
<1>5. PutAt(S, f, i, l, fd, v)
  BY Zenon, <1>3, <1>4 DEF PutAt
<1>6. PutAt(S, f, f, l, fd, f[l][fd])
  BY Zenon DEF PutAt
<1> QED
  BY Zenon, <1>1, <1>5, <1>6 DEF i, m

\* s is what the server gets on fd, x is what is then in the buffers and o what is
\* in the queue.
Writing(l, fd, x, o, s) ==
  /\ \E mode \in Modes : PutAt(Modes, fds, fds', l, fd, mode)
  /\ PutAt(Buffers, conn_maps, conn_maps', l, fd, x)
  /\ PutAt(Seq(Seq(Nat)), out_queues, out_queues', l, fd, o)
  /\ received' \in [ConnIds -> Seq(Nat)] /\ received'[fd] = received[fd] \o s
  /\ \A g \in ConnIds : g # fd => received'[g] = received[g]
  /\ x \in Buffers /\ o \in Seq(Seq(Nat)) /\ s \in Seq(Nat)
  /\ Len(x.w) <= BuffSize /\ Len(o) <= QueueCap + 1
  /\ conn_maps[l][fd].w \o Joined(out_queues[l][fd]) = s \o (x.w \o Joined(o))

\* What is sent is the first of what was on its way.
LEMMA WritingLine ==
  ASSUME IInv, ~crashed, NEW l \in Loops, NEW fd \in DOMAIN fds[l], NEW x, NEW o, NEW s,
         Writing(l, fd, x, o, s)
  PROVE  /\ Line(l, fd)' = Line(l, fd) /\ Increasing(received'[fd])
         /\ Range(s) \subseteq Unsent(l, fd)
         /\ \A e : e \in Range(received'[fd]) <=> e \in Range(received[fd]) \/ e \in Range(s)
         /\ \A e : e \in Unsent(l, fd)' <=> e \in Unsent(l, fd) /\ e \notin Range(s)
<1>1. fd \in ConnIds /\ fd \in DOMAIN conn_maps[l] /\ fd \in DOMAIN out_queues[l]
  BY Zenon, Watched
<1> DEFINE r == received[fd]
           w == conn_maps[l][fd].w
           b == Joined(out_queues[l][fd])
           v == x.w
           c == Joined(o)
<1>2. r \in Seq(Nat) /\ w \in Seq(Nat) /\ b \in Seq(Nat)
  BY Zenon, <1>1, LineIs DEF IInv
<1>3. v \in Seq(Nat) /\ s \in Seq(Nat) /\ o \in Seq(Seq(Nat))
  BY DEF Writing, Buffers
<1>4. c \in Seq(Nat)
  BY Zenon, <1>3, JoinedType
<1>5. w \o b = s \o (v \o c)
  BY Zenon DEF Writing
<1>6. Line(l, fd) = (r \o w) \o b
  BY Zenon DEF Line
<1>7. Line(l, fd)' = ((r \o s) \o v) \o c
  BY Zenon DEF Line, Writing, PutAt
<1>8. received'[fd] = r \o s
  BY Zenon DEF Writing
<1>9. Unsent(l, fd) = Range(w) \cup Range(b)
  BY Zenon DEF Unsent
<1>10. Unsent(l, fd)' = Range(v) \cup Range(c)
  BY Zenon DEF Unsent, Writing, PutAt
<1>11. Increasing(Line(l, fd))
  BY Zenon, LoopIsOk DEF LoopOk
<1> HIDE DEF r, w, b, v, c
<1>12. r \o s \in Seq(Nat) /\ v \o c \in Seq(Nat) /\ w \o b \in Seq(Nat)
  BY Zenon, <1>2, <1>3, <1>4, RangeConcat
<1>13. (r \o w) \o b = r \o (w \o b) /\ ((r \o s) \o v) \o c = (r \o s) \o (v \o c)
  <2>1. (r \o w) \o b = r \o (w \o b)
    BY Zenon, <1>2, ConcatAssoc
  <2>2. ASSUME NEW t \in Seq(Nat) PROVE (t \o v) \o c = t \o (v \o c)
    BY ZenonT(40), <1>3, <1>4, ConcatAssoc
  <2>3. ((r \o s) \o v) \o c = (r \o s) \o (v \o c)
    BY Zenon, <1>12, <2>2
  <2> QED
    BY Zenon, <2>1, <2>3
<1>14. (r \o s) \o (v \o c) = r \o (s \o (v \o c))
  <2>1. ASSUME NEW t \in Seq(Nat) PROVE (r \o s) \o t = r \o (s \o t)
    BY ZenonT(40), <1>2, <1>3, ConcatAssoc
  <2> QED
    BY Zenon, <1>12, <2>1
<1>15. Line(l, fd) = (r \o s) \o (v \o c) /\ Line(l, fd)' = (r \o s) \o (v \o c)
  BY Zenon, <1>5, <1>6, <1>7, <1>13, <1>14
<1>16. Increasing(r \o s) /\ Below(Range(r \o s), Range(v \o c))
  BY Zenon, <1>11, <1>12, <1>15, IncreasingConcat
<1>17. \A e : e \in Range(r \o s) <=> e \in Range(r) \/ e \in Range(s)
  BY Zenon, <1>2, <1>3, RangeConcat
<1>18. \A e : e \in Range(v \o c) <=> e \in Range(v) \/ e \in Range(c)
  BY Zenon, <1>3, <1>4, RangeConcat
<1>19. \A e : e \in Range(w \o b) <=> e \in Range(w) \/ e \in Range(b)
  BY Zenon, <1>2, RangeConcat
<1>20. \A e : e \in Range(w \o b) <=> e \in Range(s) \/ e \in Range(v \o c)
  BY Zenon, <1>3, <1>5, <1>12, RangeConcat
<1>21. ASSUME NEW e, e \in Range(s), e \in Range(v \o c) PROVE FALSE
  <2>1. e < e
    BY Zenon, <1>16, <1>17, <1>21 DEF Below
  <2>2. e \in Nat
    BY <1>3, <1>21 DEF Range
  <2> QED
    BY <2>1, <2>2
<1>22. Range(s) \subseteq Unsent(l, fd)
  BY Zenon, <1>9, <1>19, <1>20
<1>23. \A e : e \in Unsent(l, fd)' <=> e \in Unsent(l, fd) /\ e \notin Range(s)
  BY Zenon, <1>9, <1>10, <1>18, <1>19, <1>20, <1>21
<1> QED
  BY Zenon, <1>8, <1>15, <1>16, <1>17, <1>22, <1>23 DEF r

LEMMA InvWrite ==
  ASSUME IInv, ~crashed, NEW l \in Loops, NEW fd \in DOMAIN fds[l], NEW x, NEW o, NEW s,
         Writing(l, fd, x, o, s),
         UNCHANGED <<scenario, next_thread, pusher, queues, flush, pending, new_fds, server, crashed, pushed,
                     lost, failed>>
  PROVE  IInv'
<1>1. /\ scenario' = scenario /\ queues' = queues /\ pushed' = pushed /\ lost' = lost /\ failed' = failed
      /\ server' = server /\ new_fds' = new_fds /\ Loops' = Loops /\ Events' = Events /\ ~crashed'
  BY Zenon DEF Loops, NL, Events
<1>2. fd \in ConnIds /\ fd \in DOMAIN conn_maps[l] /\ fd \in DOMAIN out_queues[l]
  BY Zenon, Watched
<1>3. /\ DOMAIN fds'[l] = DOMAIN fds[l] /\ DOMAIN conn_maps'[l] = DOMAIN conn_maps[l]
      /\ DOMAIN out_queues'[l] = DOMAIN out_queues[l]
  BY Zenon DEF Writing, PutAt
<1>4. \A k \in Loops : k # l => /\ fds'[k] = fds[k] /\ conn_maps'[k] = conn_maps[k]
                                /\ out_queues'[k] = out_queues[k]
  BY Zenon DEF Writing, PutAt
<1>5. Types'
  <2>1. /\ fds' \in [Loops -> Maps(Modes)] /\ conn_maps' \in [Loops -> Maps(Buffers)]
        /\ out_queues' \in [Loops -> Maps(Seq(Seq(Nat)))] /\ received' \in [ConnIds -> Seq(Nat)]
    BY Zenon DEF Writing, PutAt
  <2>2. EventTypes'
    BY Zenon, <1>1, <2>1 DEF IInv, Types, EventTypes
  <2>3. ControlTypes'
    BY Zenon, <1>1 DEF IInv, Types, ControlTypes
  <2> QED
    BY Zenon, <2>2, <2>3 DEF Types
<1>6. Sizes'
  <2>1. ASSUME NEW k \in Loops, NEW g \in DOMAIN conn_maps'[k] PROVE Len(conn_maps'[k][g].w) <= BuffSize
    <3>1. CASE k = l /\ g = fd
      BY Zenon, <3>1 DEF Writing, PutAt
    <3>2. CASE k # l \/ g # fd
      <4>1. g \in DOMAIN conn_maps[k] /\ conn_maps'[k][g] = conn_maps[k][g]
        BY Zenon, <1>3, <1>4, <3>2 DEF Writing, PutAt
      <4> QED
        BY Zenon, <4>1 DEF IInv, Sizes
    <3> QED
      BY Zenon, <3>1, <3>2
  <2>2. ASSUME NEW k \in Loops, NEW g \in DOMAIN out_queues'[k] PROVE Len(out_queues'[k][g]) <= QueueCap + 1
    <3>1. CASE k = l /\ g = fd
      BY Zenon, <3>1 DEF Writing, PutAt
    <3>2. CASE k # l \/ g # fd
      <4>1. g \in DOMAIN out_queues[k] /\ out_queues'[k][g] = out_queues[k][g]
        BY Zenon, <1>3, <1>4, <3>2 DEF Writing, PutAt
      <4> QED
        BY Zenon, <4>1 DEF IInv, Sizes
    <3> QED
      BY Zenon, <3>1, <3>2
  <2> QED
    BY Zenon, <1>1, <2>1, <2>2 DEF IInv, Sizes
<1>7. Owned'
  <2>1. \A k \in Loops : DOMAIN out_queues'[k] \subseteq DOMAIN out_queues[k]
    BY Zenon, <1>3, <1>4
  <2>2. server.made \in 0..MaxConns
    BY DEF IInv, Types, ControlTypes
  <2>3. \A g \in ConnIds : received'[g] = received[g] \/ \E k \in Loops : g \in DOMAIN out_queues[k]
    BY Zenon, <1>2 DEF Writing
  <2> QED
    BY Zenon, <1>1, <2>1, <2>2, <2>3, OwnedKept DEF IInv
<1>8. Numbered'
  BY Zenon, <1>1 DEF IInv, Numbered
<1>9. QueuesMatchConnections'
  <2>1. \A k \in Loops : /\ DOMAIN fds'[k] = DOMAIN fds[k] /\ DOMAIN conn_maps'[k] = DOMAIN conn_maps[k]
                         /\ DOMAIN out_queues'[k] = DOMAIN out_queues[k]
    BY Zenon, <1>3, <1>4
  <2> QED
    BY Zenon, <1>1, <2>1 DEF IInv, QueuesMatchConnections
<1>10. /\ Line(l, fd)' = Line(l, fd) /\ Increasing(received'[fd])
       /\ Range(s) \subseteq Unsent(l, fd)
       /\ \A e : e \in Range(received'[fd]) <=> e \in Range(received[fd]) \/ e \in Range(s)
       /\ \A e : e \in Unsent(l, fd)' <=> e \in Unsent(l, fd) /\ e \notin Range(s)
  BY Zenon, WritingLine
<1>11. ASSUME NEW g \in DOMAIN fds[l], g # fd
       PROVE  Line(l, g)' = Line(l, g) /\ Unsent(l, g)' = Unsent(l, g)
  <2>1. g \in ConnIds /\ g \in DOMAIN conn_maps[l] /\ g \in DOMAIN out_queues[l]
    BY Zenon, Watched
  <2>2. /\ conn_maps'[l][g] = conn_maps[l][g] /\ out_queues'[l][g] = out_queues[l][g]
        /\ received'[g] = received[g]
    BY Zenon, <1>11, <2>1 DEF Writing, PutAt
  <2> QED
    BY Zenon, <2>2 DEF Line, Unsent
<1>12. ASSUME NEW k \in Loops, k # l PROVE SameLoop(k)
  <2>1. ASSUME NEW g \in DOMAIN fds[k] PROVE received'[g] = received[g]
    <3>1. g # fd
      BY Zenon, <1>2, <1>12, OneLoop
    <3>2. g \in ConnIds
      BY Zenon, Watched
    <3> QED
      BY Zenon, <3>1, <3>2 DEF Writing
  <2> QED
    BY Zenon, <1>1, <1>4, <1>12, <2>1 DEF SameLoop
<1>13. Ordered' /\ OfLoop'
  <2>1. ASSUME NEW k \in Loops PROVE LoopOk(k)'
    <3>1. LoopOk(k)
      BY Zenon, LoopIsOk
    <3>2. CASE k # l
      BY Zenon, <1>12, <3>1, <3>2, SameLoopOk
    <3>3. CASE k = l
      <4>1. \A g \in DOMAIN fds[l] : Line(l, g)' = Line(l, g)
        BY Zenon, <1>10, <1>11
      <4> QED
        BY Zenon, <1>1, <1>3, <3>1, <3>3, <4>1 DEF LoopOk
    <3> QED
      BY Zenon, <3>2, <3>3
  <2>2. ASSUME NEW g \in ConnIds PROVE Increasing(received'[g]) /\ Range(received'[g]) \subseteq Events'
    <3>1. CASE g = fd
      <4>1. Unsent(l, fd) \subseteq Events
        <5>1. <<"way", l, fd>> \in Places
          BY Zenon, <1>2, PlacesAre
        <5>2. In(<<"way", l, fd>>) = Unsent(l, fd)
          BY Zenon, InIs DEF Way
        <5> QED
          BY Zenon, <5>1, <5>2, InPushed
      <4> QED
        BY Zenon, <1>1, <1>10, <3>1, <4>1 DEF IInv, OfLoop
    <3>2. CASE g # fd
      <4>1. received'[g] = received[g]
        BY Zenon, <3>2 DEF Writing
      <4> QED
        BY Zenon, <1>1, <4>1 DEF IInv, Ordered, OfLoop
    <3> QED
      BY Zenon, <3>1, <3>2
  <2>3. lost' \subseteq Events' /\ \A k \in Loops : Range(queues'[k]) \subseteq Range(pushed'[k])
    BY Zenon, <1>1 DEF IInv, OfLoop
  <2> QED
    BY Zenon, <1>1, <2>1, <2>2, <2>3, LoopsAreOk
<1>14. Placed'
  <2> DEFINE h == <<"way", l, fd>>
             g == <<"sent", 0, fd>>
  <2>0. PICK M : M = Range(s)
    BY Zenon
  <2>1. h \in Places /\ g \in Places /\ h # g /\ Places' = Places
    <3>1. h # g
      OBVIOUS
    <3> QED
      BY Zenon, <1>1, <1>2, <3>1, PlacesAre DEF Places
  <2>2. /\ In(h) = Unsent(l, fd) /\ In(h)' = Unsent(l, fd)'
        /\ In(g) = Range(received[fd]) /\ In(g)' = Range(received'[fd])
    <3>1. Way(l, fd) = Unsent(l, fd) /\ Way(l, fd)' = Unsent(l, fd)'
      BY Zenon, <1>3 DEF Way
    <3>2. /\ In(h) = Way(l, fd) /\ In(h)' = Way(l, fd)'
          /\ In(g) = Range(received[fd]) /\ In(g)' = Range(received'[fd])
      BY Zenon, InIs, InIsNext
    <3> QED
      BY Zenon, <3>1, <3>2
  <2>3. \A p \in Places : p \notin {h, g} => In(p)' = In(p)
    <3>1. ASSUME NEW k \in Loops, NEW c \in ConnIds, <<"way", k, c>> \notin {h, g}
          PROVE  Way(k, c)' = Way(k, c)
      <4>1. CASE k # l
        <5>1. LoopOk(k)
          BY Zenon, LoopIsOk
        <5> QED
          BY Zenon, <1>12, <4>1, <5>1, SameLoopOk
      <4>2. CASE k = l
        <5>1. c # fd
          BY Zenon, <3>1, <4>2
        <5> QED
          BY Zenon, <1>3, <1>11, <4>2, <5>1 DEF Way
      <4> QED
        BY Zenon, <4>1, <4>2
    <3>2. ASSUME NEW c \in ConnIds, <<"sent", 0, c>> \notin {h, g}
          PROVE  Range(received'[c]) = Range(received[c])
      <4>1. c # fd
        BY Zenon, <3>2
      <4> QED
        BY Zenon, <4>1 DEF Writing
    <3> QED
      BY Zenon, <1>1, <3>1, <3>2, InSame
  <2>4. Placed
    BY Zenon DEF IInv
  <2> HIDE DEF h, g
  <2>5. M \subseteq In(h) /\ (\A e : e \in In(h)' <=> e \in In(h) /\ e \notin M)
    BY Zenon, <1>10, <2>0, <2>2
  <2>6. \A e : e \in In(g)' <=> e \in In(g) \/ e \in M
    BY Zenon, <1>10, <2>0, <2>2
  <2> QED
    BY Zenon, <1>1, <2>1, <2>3, <2>4, <2>5, <2>6, PlacedMoves
<1> QED
  BY Zenon, <1>5, <1>6, <1>7, <1>8, <1>9, <1>13, <1>14 DEF IInv

\* The buffers after an ack was read, or not.
LEMMA AckIs ==
  ASSUME NEW c \in Buffers, NEW ack \in BOOLEAN, ack => c.r < BuffSize
  PROVE  /\ [c EXCEPT !.r = IF ack THEN @ + 1 ELSE @] \in Buffers
         /\ [c EXCEPT !.r = IF ack THEN @ + 1 ELSE @].w = c.w
<1>1. CASE ack
  BY <1>1, Bounds DEF Buffers
<1>2. CASE ~ack
  BY <1>2, Bounds DEF Buffers
<1> QED
  BY Zenon, <1>1, <1>2

LEMMA LenIsNat ==
  ASSUME NEW S, NEW s \in Seq(S)
  PROVE  Len(s) \in Nat
  OBVIOUS

LEMMA WriteBuffer ==
  ASSUME NEW x \in Buffers, Len(x.w) <= BuffSize, NEW outs \in Seq(Seq(Nat))
  PROVE  x.w \o Joined(SubSeq(outs, 1, Fitting(x.w, outs))) \in Seq(Nat)
<1>1. x.w \in Seq(Nat)
  BY DEF Buffers
<1>2. Fitting(x.w, outs) \in 0..Len(outs)
  BY Zenon, <1>1, FittingIs
<1>3. ASSUME NEW S, NEW q \in Seq(S), NEW i \in 0..Len(q) PROVE SubSeq(q, 1, i) \in Seq(S)
  OBVIOUS
<1>4. Joined(SubSeq(outs, 1, Fitting(x.w, outs))) \in Seq(Nat)
  BY Zenon, <1>2, <1>3, JoinedType
<1> QED
  BY Zenon, <1>1, <1>4, RangeConcat

\* What the write takes, what stays in the buffer and what stays in the queue.
Splits(x, outs, n, w, k) ==
  LET y == [x EXCEPT !.w = SubSeq(w, k + 1, Len(w))]
  IN  /\ y \in Buffers /\ Len(y.w) <= BuffSize
      /\ Rest(outs, n) \in Seq(Seq(Nat)) /\ Len(Rest(outs, n)) <= QueueCap + 1
      /\ SubSeq(w, 1, k) \in Seq(Nat)
      /\ x.w \o Joined(outs) = SubSeq(w, 1, k) \o (y.w \o Joined(Rest(outs, n)))

LEMMA WriteSplits ==
  ASSUME NEW x \in Buffers, Len(x.w) <= BuffSize, NEW outs \in Seq(Seq(Nat)), Len(outs) <= QueueCap + 1,
         NEW n, n = Fitting(x.w, outs), NEW w, w = x.w \o Joined(SubSeq(outs, 1, n)),
         NEW k \in IF w = <<>> THEN {0} ELSE 1..Len(w)
  PROVE  Splits(x, outs, n, w, k)
<1> DEFINE u == x.w
           first == SubSeq(outs, 1, n)
           rest == Rest(outs, n)
           a == Joined(first)
           b == Joined(rest)
           s == SubSeq(w, 1, k)
           v == SubSeq(w, k + 1, Len(w))
<1>1. u \in Seq(Nat) /\ x.r \in 0..BuffSize
  BY DEF Buffers
<1>2. n \in 0..Len(outs) /\ Len(w) <= BuffSize
  BY Zenon, <1>1, FittingIs
<1>3. first \in Seq(Seq(Nat)) /\ rest \in Seq(Seq(Nat)) /\ Len(rest) <= QueueCap + 1
  <2>1. ASSUME NEW S, NEW q \in Seq(S), NEW i \in 0..Len(q)
        PROVE  /\ SubSeq(q, 1, i) \in Seq(S) /\ SubSeq(q, i + 1, Len(q)) \in Seq(S)
               /\ Len(SubSeq(q, i + 1, Len(q))) = Len(q) - i
    OBVIOUS
  <2>2. /\ first \in Seq(Seq(Nat)) /\ SubSeq(outs, n + 1, Len(outs)) \in Seq(Seq(Nat))
        /\ Len(SubSeq(outs, n + 1, Len(outs))) = Len(outs) - n
    BY Zenon, <1>2, <2>1
  <2>3. rest = SubSeq(outs, n + 1, Len(outs))
    BY Zenon DEF Rest
  <2>4. Len(rest) = Len(outs) - n
    BY Zenon, <2>2, <2>3
  <2>5. Len(rest) <= QueueCap + 1
    <3> HIDE DEF rest
    <3>1. Len(outs) \in Nat
      OBVIOUS
    <3> QED
      BY <1>2, <2>4, <3>1, Bounds
  <2> QED
    BY Zenon, <2>2, <2>3, <2>5
<1>4. a \in Seq(Nat) /\ b \in Seq(Nat) /\ Joined(outs) \in Seq(Nat)
  BY Zenon, <1>3, JoinedType
<1>5. a \o b = Joined(outs)
  BY Zenon, <1>2, JoinedSplit DEF Rest
<1>6. w = u \o a
  BY Zenon
<1> HIDE DEF a, b, u, rest, first
<1>7. w \in Seq(Nat)
  BY Zenon, <1>1, <1>4, <1>6, RangeConcat
<1>8. k \in 0..Len(w)
  <2>1. Len(w) \in Nat
    BY Zenon, <1>7, LenIsNat
  <2>2. k \in {0} \/ k \in 1..Len(w)
    BY Zenon
  <2>3. ASSUME NEW i \in Nat, NEW j, j \in {0} \/ j \in 1..i PROVE j \in 0..i
    BY <2>3
  <2> QED
    BY Zenon, <2>1, <2>2, <2>3
<1>9. s \in Seq(Nat) /\ v \in Seq(Nat) /\ s \o v = w /\ Len(v) = Len(w) - k
  BY Zenon, <1>7, <1>8, SplitAt
<1> HIDE DEF s, v
<1>10. Len(v) <= BuffSize
  <2>1. Len(w) \in Nat
    BY Zenon, <1>7, LenIsNat
  <2>2. Len(v) = Len(w) - k /\ Len(w) <= BuffSize /\ k \in 0..Len(w)
    BY Zenon, <1>2, <1>8, <1>9
  <2>3. ASSUME NEW i \in Nat, NEW j \in 0..i, i <= BuffSize PROVE i - j <= BuffSize
    BY <2>3, Bounds
  <2> QED
    BY Zenon, <2>1, <2>2, <2>3
<1>11. [x EXCEPT !.w = v] \in Buffers /\ [x EXCEPT !.w = v].w = v
  BY <1>9 DEF Buffers
<1>12. u \o Joined(outs) = s \o (v \o b)
  <2>1. u \o (a \o b) = (u \o a) \o b
    BY Zenon, <1>1, <1>4, ConcatAssoc
  <2>2. (s \o v) \o b = s \o (v \o b)
    BY Zenon, <1>4, <1>9, ConcatAssoc
  <2> QED
    BY Zenon, <1>5, <1>6, <1>9, <2>1, <2>2
<1>13. Len([x EXCEPT !.w = v].w) <= BuffSize
  BY Zenon, <1>10, <1>11
<1>14. u \o Joined(outs) = s \o ([x EXCEPT !.w = v].w \o b)
  BY Zenon, <1>11, <1>12
<1> QED
  BY Zenon, <1>3, <1>9, <1>11, <1>13, <1>14 DEF Splits, u, s, v, b, rest

\* Nothing is written.
LEMMA NothingWritten ==
  ASSUME IInv, NEW l \in Loops, NEW fd \in DOMAIN fds[l], NEW x \in Buffers, x.w = conn_maps[l][fd].w,
         conn_maps' = [conn_maps EXCEPT ![l][fd] = x],
         fds' = fds \/ \E mode \in Modes : fds' = [fds EXCEPT ![l][fd] = mode],
         UNCHANGED <<out_queues, received>>
  PROVE  Writing(l, fd, x, out_queues[l][fd], <<>>)
<1>1. fd \in ConnIds /\ fd \in DOMAIN conn_maps[l] /\ fd \in DOMAIN out_queues[l]
  BY Zenon, Watched
<1>2. /\ fds \in [Loops -> Maps(Modes)] /\ conn_maps \in [Loops -> Maps(Buffers)]
      /\ out_queues \in [Loops -> Maps(Seq(Seq(Nat)))] /\ received \in [ConnIds -> Seq(Nat)]
  BY Zenon DEF IInv, Types, EventTypes
<1>3. PutAt(Buffers, conn_maps, conn_maps', l, fd, x)
  BY Zenon, <1>1, <1>2, PutAtIs
<1>4. \E mode \in Modes : PutAt(Modes, fds, fds', l, fd, mode)
  <2>1. fds[l][fd] \in Modes
    BY Zenon, <1>2, MapsIs
  <2>2. CASE fds' = fds
    BY Zenon, <1>2, <2>1, <2>2, PutAtIs
  <2>3. CASE \E mode \in Modes : fds' = [fds EXCEPT ![l][fd] = mode]
    <3>1. PICK mode \in Modes : fds' = [fds EXCEPT ![l][fd] = mode]
      BY Zenon, <2>3
    <3> QED
      BY Zenon, <1>2, <3>1, PutAtIs
  <2> QED
    BY Zenon, <2>2, <2>3
<1>5. /\ out_queues[l][fd] \in Seq(Seq(Nat)) /\ conn_maps[l][fd].w \in Seq(Nat)
      /\ Joined(out_queues[l][fd]) \in Seq(Nat) /\ received[fd] \in Seq(Nat)
  BY Zenon, <1>1, LineIs DEF IInv
<1>6. PutAt(Seq(Seq(Nat)), out_queues, out_queues', l, fd, out_queues[l][fd])
  BY Zenon, <1>1, <1>2, <1>5, PutAtIs
<1>7. /\ received' \in [ConnIds -> Seq(Nat)] /\ \A g \in ConnIds : g # fd => received'[g] = received[g]
      /\ received'[fd] = received[fd]
  BY Zenon, <1>2
<1>8. /\ received[fd] = received[fd] \o <<>>
      /\ \A q \in Seq(Nat) : q = <<>> \o q
      /\ <<>> \in Seq(Nat)
  BY <1>5
<1>9. conn_maps[l][fd].w \o Joined(out_queues[l][fd]) \in Seq(Nat)
  BY Zenon, <1>5, RangeConcat
<1>10. conn_maps[l][fd].w \o Joined(out_queues[l][fd]) = <<>> \o (x.w \o Joined(out_queues[l][fd]))
  BY Zenon, <1>8, <1>9
<1>11. Len(x.w) <= BuffSize /\ Len(out_queues[l][fd]) <= QueueCap + 1
  BY Zenon, <1>1 DEF IInv, Sizes
<1>12. received'[fd] = received[fd] \o <<>>
  BY Zenon, <1>7, <1>8
<1> QED
  BY Zenon, <1>3, <1>4, <1>5, <1>6, <1>7, <1>8, <1>10, <1>11, <1>12 DEF Writing

LEMMA InvDataReady ==
  ASSUME IInv, NEW l \in Loops, NEW fd \in ConnIds, NEW ack \in BOOLEAN, NEW wr \in BOOLEAN,
         DataReady(l, fd, ack, wr)
  PROVE  IInv'
<1> DEFINE c == conn_maps[l][fd]
           x == [c EXCEPT !.r = IF ack THEN @ + 1 ELSE @]
           outs == out_queues[l][fd]
           n == Fitting(x.w, outs)
           w == x.w \o Joined(SubSeq(outs, 1, n))
           keep == UNCHANGED <<scenario, next_thread, pusher, queues, flush, pending, new_fds, server, crashed,
                               pushed>>
           Idles == /\ conn_maps' = [conn_maps EXCEPT ![l][fd] = x]
                    /\ fds' = [fds EXCEPT ![l][fd] = IdleMode]
                    /\ UNCHANGED <<out_queues, received, lost, failed>>
           Waits == /\ conn_maps' = [conn_maps EXCEPT ![l][fd] = x]
                    /\ UNCHANGED <<fds, out_queues, received, lost, failed>>
           Writes(k) == /\ conn_maps' = [conn_maps EXCEPT ![l][fd] = [x EXCEPT !.w = SubSeq(w, k + 1, Len(w))]]
                        /\ received' = [received EXCEPT ![fd] = @ \o SubSeq(w, 1, k)]
                        /\ out_queues' = [out_queues EXCEPT ![l][fd] = Rest(outs, n)]
                        /\ UNCHANGED <<fds, lost, failed>>
           Fails == /\ lost' = lost \cup Unsent(l, fd)
                    /\ out_queues' = [out_queues EXCEPT ![l][fd] = Rest(outs, n)]
                    /\ failed' = [failed EXCEPT ![l] = TRUE]
                    /\ Close(l, fd)
                    /\ UNCHANGED received
<1>1. /\ ~crashed /\ fd \in DOMAIN fds[l] /\ (ack => c.r < BuffSize) /\ keep
      /\ Idles \/ Waits \/ (\E k \in IF w = <<>> THEN {0} ELSE 1..Len(w) : Writes(k)) \/ Fails
  BY Zenon DEF DataReady
<1>2. fd \in DOMAIN conn_maps[l] /\ fd \in DOMAIN out_queues[l]
  BY Zenon, <1>1, Watched
<1>3. c \in Buffers /\ outs \in Seq(Seq(Nat))
  BY Zenon, <1>2, LineIs DEF IInv
<1>4. x \in Buffers /\ x.w = c.w
  BY Zenon, <1>1, <1>3, AckIs
<1>5. Len(x.w) <= BuffSize /\ Len(outs) <= QueueCap + 1
  BY Zenon, <1>2, <1>4 DEF IInv, Sizes
<1>6. /\ fds \in [Loops -> Maps(Modes)] /\ conn_maps \in [Loops -> Maps(Buffers)]
      /\ out_queues \in [Loops -> Maps(Seq(Seq(Nat)))] /\ received \in [ConnIds -> Seq(Nat)]
  BY Zenon DEF IInv, Types, EventTypes
<1> HIDE DEF x
<1>7. CASE Idles
  <2>1. IdleMode \in Modes
    BY DEF IdleMode, Modes
  <2>2. Writing(l, fd, x, outs, <<>>)
    BY Zenon, <1>1, <1>4, <1>7, <2>1, NothingWritten
  <2> QED
    BY Zenon, <1>1, <1>7, <2>2, InvWrite
<1>8. CASE Waits
  <2>2. Writing(l, fd, x, outs, <<>>)
    BY Zenon, <1>1, <1>4, <1>8, NothingWritten
  <2> QED
    BY Zenon, <1>1, <1>8, <2>2, InvWrite
<1>9. CASE \E k \in IF w = <<>> THEN {0} ELSE 1..Len(w) : Writes(k)
  <2>1. PICK k \in IF w = <<>> THEN {0} ELSE 1..Len(w) : Writes(k)
    BY Zenon, <1>9
  <2> DEFINE y == [x EXCEPT !.w = SubSeq(w, k + 1, Len(w))]
             o == Rest(outs, n)
             s == SubSeq(w, 1, k)
  <2>2. /\ y \in Buffers /\ Len(y.w) <= BuffSize /\ o \in Seq(Seq(Nat)) /\ Len(o) <= QueueCap + 1
        /\ s \in Seq(Nat) /\ x.w \o Joined(outs) = s \o (y.w \o Joined(o))
    <3>1. x \in Buffers /\ Len(x.w) <= BuffSize /\ outs \in Seq(Seq(Nat)) /\ Len(outs) <= QueueCap + 1
      BY Zenon, <1>3, <1>4, <1>5
    <3>2. n = Fitting(x.w, outs) /\ w = x.w \o Joined(SubSeq(outs, 1, n))
      BY Zenon
    <3> HIDE DEF outs, n, w
    <3>3. Splits(x, outs, n, w, k)
      BY Zenon, <3>1, <3>2, WriteSplits
    <3> QED
      BY Zenon, <3>3 DEF Splits
  <2>3. /\ conn_maps' = [conn_maps EXCEPT ![l][fd] = y] /\ out_queues' = [out_queues EXCEPT ![l][fd] = o]
        /\ received' = [received EXCEPT ![fd] = @ \o s] /\ UNCHANGED <<fds, lost, failed>>
    BY Zenon, <2>1
  <2> HIDE DEF y, o, s
  <2>4. PutAt(Buffers, conn_maps, conn_maps', l, fd, y)
    BY Zenon, <1>2, <1>6, <2>2, <2>3, PutAtIs
  <2>5. PutAt(Seq(Seq(Nat)), out_queues, out_queues', l, fd, o)
    BY Zenon, <1>2, <1>6, <2>2, <2>3, PutAtIs
  <2>6. \E mode \in Modes : PutAt(Modes, fds, fds', l, fd, mode)
    <3>1. fds[l][fd] \in Modes
      BY Zenon, <1>1, <1>6, MapsIs
    <3>2. PutAt(Modes, fds, fds, l, fd, fds[l][fd])
      BY Zenon, <1>1, <1>6, <3>1, PutAtIs
    <3> QED
      BY Zenon, <2>3, <3>1, <3>2
  <2>7. /\ received' \in [ConnIds -> Seq(Nat)] /\ received'[fd] = received[fd] \o s
        /\ \A g \in ConnIds : g # fd => received'[g] = received[g]
    <3>1. received[fd] \o s \in Seq(Nat)
      BY Zenon, <1>6, <2>2, RangeConcat
    <3> QED
      BY Zenon, <1>6, <2>3, <3>1
  <2>8. conn_maps[l][fd].w \o Joined(out_queues[l][fd]) = s \o (y.w \o Joined(o))
    BY Zenon, <1>4, <2>2
  <2>9. Writing(l, fd, y, o, s)
    BY Zenon, <2>2, <2>4, <2>5, <2>6, <2>7, <2>8 DEF Writing
  <2> QED
    BY Zenon, <1>1, <2>3, <2>9, InvWrite
<1>10. CASE Fails
  <2> DEFINE rest == Rest(outs, n)
             o == [out_queues[l] EXCEPT ![fd] = rest]
  <2>1. rest \in Seq(Seq(Nat)) /\ Len(rest) <= QueueCap + 1
    <3>1. x \in Buffers /\ Len(x.w) <= BuffSize /\ outs \in Seq(Seq(Nat)) /\ Len(outs) <= QueueCap + 1
      BY Zenon, <1>3, <1>4, <1>5
    <3>2. PICK k : k \in IF w = <<>> THEN {0} ELSE 1..Len(w)
      <4>1. CASE w = <<>>
        BY Zenon, <4>1
      <4>2. CASE w # <<>>
        <5>1. w \in Seq(Nat)
          BY Zenon, <3>1, WriteBuffer
        <5>2. \A q \in Seq(Nat) : q # <<>> => 1 \in 1..Len(q)
          OBVIOUS
        <5> QED
          BY Zenon, <4>2, <5>1, <5>2
      <4> QED
        BY Zenon, <4>1, <4>2
    <3>3. n = Fitting(x.w, outs) /\ w = x.w \o Joined(SubSeq(outs, 1, n))
      BY Zenon
    <3> HIDE DEF outs, n, w
    <3>4. Splits(x, outs, n, w, k)
      BY Zenon, <3>1, <3>2, <3>3, WriteSplits
    <3> QED
      BY Zenon, <3>4 DEF Splits
  <2> HIDE DEF rest
  <2>2. out_queues' = [out_queues EXCEPT ![l] = o]
    BY Zenon, <1>2, <1>6, <1>10, <2>1, PutAtIs DEF rest
  <2>3. out_queues[l] \in Maps(Seq(Seq(Nat)))
    BY Zenon, <1>6
  <2>4. /\ o \in Maps(Seq(Seq(Nat))) /\ DOMAIN o = DOMAIN out_queues[l] /\ o[fd] = rest
        /\ \A g \in DOMAIN out_queues[l] \ {fd} : o[g] = out_queues[l][g]
    BY Zenon, <1>2, <2>1, <2>3, PutIs
  <2> HIDE DEF o
  <2>5. \A g \in DOMAIN o : Len(o[g]) <= QueueCap + 1
    BY Zenon, <2>1, <2>4 DEF IInv, Sizes
  <2>6. Closing(l, fd, o)
    BY Zenon, <1>10, <2>4, <2>5 DEF Closing
  <2>7. lost' = lost \cup Unsent(l, fd) /\ Close(l, fd) /\ received' = received
    BY Zenon, <1>10
  <2> QED
    BY Zenon, <1>1, <2>2, <2>6, <2>7, InvClose
<1> QED
  BY Zenon, <1>1, <1>7, <1>8, <1>9, <1>10

-----------------------------------------------------------------------------
(* The async callback.                                                      *)

Fresh == [r |-> 0, w |-> <<>>]

\* Loop l takes the connections handed to it: it then watches m, and has the
\* queues o.  Its events stay in the queue or leave it.
Taking(l, m, o) ==
  /\ m \in Maps(Modes) /\ DOMAIN m = DOMAIN fds[l] \cup Range(new_fds[l])
  /\ o \in Maps(Seq(Seq(Nat))) /\ DOMAIN o = DOMAIN out_queues[l] \cup Range(new_fds[l])
  /\ \A g \in DOMAIN o : Len(o[g]) <= QueueCap + 1
  /\ fds' = [fds EXCEPT ![l] = m] /\ out_queues' = [out_queues EXCEPT ![l] = o]
  /\ conn_maps' = [conn_maps EXCEPT ![l] = Insert(@, Range(new_fds[l]), Fresh)]
  /\ new_fds' = [new_fds EXCEPT ![l] = <<>>]
  /\ pending' \in [Loops -> BOOLEAN] /\ flush' \in [Loops -> BOOLEAN]
  /\ queues' = queues \/ queues' = [queues EXCEPT ![l] = <<>>]
  /\ lost' = lost \/ lost' = lost \cup Range(queues[l])
  /\ crashed' \in BOOLEAN /\ (crashed' => failed[l])
  /\ UNCHANGED <<scenario, next_thread, pusher, server, pushed, received, failed>>

\* What it then has for the connections.
Taken(l, m, o) ==
  /\ Range(new_fds[l]) \subseteq ConnIds
  /\ fds'[l] = m /\ out_queues'[l] = o /\ new_fds'[l] = <<>>
  /\ conn_maps' \in [Loops -> Maps(Buffers)]
  /\ DOMAIN conn_maps'[l] = DOMAIN conn_maps[l] \cup Range(new_fds[l])
  /\ \A g \in DOMAIN conn_maps[l] : conn_maps'[l][g] = conn_maps[l][g]
  /\ \A g \in Range(new_fds[l]) \ DOMAIN conn_maps[l] : conn_maps'[l][g] = Fresh
  /\ \A k \in Loops : k # l => /\ fds'[k] = fds[k] /\ conn_maps'[k] = conn_maps[k]
                               /\ out_queues'[k] = out_queues[k] /\ new_fds'[k] = new_fds[k]

LEMMA TakingMaps ==
  ASSUME IInv, NEW l \in Loops, NEW m, NEW o, Taking(l, m, o)
  PROVE  Taken(l, m, o)
<1>1. /\ fds \in [Loops -> Maps(Modes)] /\ conn_maps \in [Loops -> Maps(Buffers)]
      /\ out_queues \in [Loops -> Maps(Seq(Seq(Nat)))] /\ new_fds \in [Loops -> Seq(ConnIds)]
  BY Zenon DEF IInv, Types, EventTypes, ControlTypes
<1>2. Range(new_fds[l]) \subseteq ConnIds
  <2>1. ASSUME NEW S, NEW q \in Seq(S) PROVE Range(q) \subseteq S
    BY DEF Range
  <2> QED
    BY Zenon, <1>1, <2>1
<1>3. Fresh \in Buffers
  BY Bounds DEF Fresh, Buffers
<1> DEFINE i == Insert(conn_maps[l], Range(new_fds[l]), Fresh)
<1>4. conn_maps[l] \in Maps(Buffers)
  BY Zenon, <1>1
<1>5. Inserted(Buffers, conn_maps[l], Range(new_fds[l]), Fresh, i)
  BY Zenon, <1>2, <1>3, <1>4, InsertIs
<1>6. /\ i \in Maps(Buffers) /\ DOMAIN i = DOMAIN conn_maps[l] \cup Range(new_fds[l])
      /\ \A g \in DOMAIN conn_maps[l] : i[g] = conn_maps[l][g]
      /\ \A g \in Range(new_fds[l]) \ DOMAIN conn_maps[l] : i[g] = Fresh
  BY Zenon, <1>5 DEF Inserted
<1>7. conn_maps' = [conn_maps EXCEPT ![l] = i]
  BY Zenon DEF Taking
<1> HIDE DEF i
<1>8. /\ conn_maps' \in [Loops -> Maps(Buffers)] /\ conn_maps'[l] = i
      /\ \A k \in Loops : k # l => conn_maps'[k] = conn_maps[k]
  BY Zenon, <1>1, <1>6, <1>7
<1>9. fds'[l] = m /\ \A k \in Loops : k # l => fds'[k] = fds[k]
  BY Zenon, <1>1 DEF Taking
<1>10. out_queues'[l] = o /\ \A k \in Loops : k # l => out_queues'[k] = out_queues[k]
  BY Zenon, <1>1 DEF Taking
<1>11. new_fds'[l] = <<>> /\ \A k \in Loops : k # l => new_fds'[k] = new_fds[k]
  BY Zenon, <1>1 DEF Taking
<1>12. DOMAIN conn_maps'[l] = DOMAIN conn_maps[l] \cup Range(new_fds[l])
  BY Zenon, <1>6, <1>8
<1>13. /\ \A g \in DOMAIN conn_maps[l] : conn_maps'[l][g] = conn_maps[l][g]
       /\ \A g \in Range(new_fds[l]) \ DOMAIN conn_maps[l] : conn_maps'[l][g] = Fresh
  BY Zenon, <1>6, <1>8
<1> QED
  BY Zenon, <1>2, <1>8, <1>9, <1>10, <1>11, <1>12, <1>13 DEF Taken

LEMMA TakingTypes ==
  ASSUME IInv, NEW l \in Loops, NEW m, NEW o, Taking(l, m, o)
  PROVE  /\ Types' /\ Sizes' /\ Numbered' /\ Loops' = Loops /\ Events' = Events
         /\ lost' \subseteq Events' /\ \A k \in Loops : Range(queues'[k]) \subseteq Range(pushed'[k])
         /\ \A fd \in ConnIds : Increasing(received'[fd]) /\ Range(received'[fd]) \subseteq Events'
         /\ \A k \in Loops : k # l => SameLoop(k)
<1>0. Taken(l, m, o)
  BY Zenon, TakingMaps
<1>1. /\ scenario' = scenario /\ pushed' = pushed /\ received' = received /\ failed' = failed
      /\ server' = server /\ next_thread' = next_thread /\ pusher' = pusher
  BY Zenon DEF Taking
<1>2. Loops' = Loops /\ Events' = Events
  BY Zenon, <1>1 DEF Loops, NL, Events
<1>3. /\ queues \in [Loops -> Seq(Nat)] /\ \A k \in Loops : Len(queues[k]) <= QueueCap
      /\ \A k \in Loops : Range(queues[k]) \subseteq Range(pushed[k])
  BY Zenon DEF IInv, Types, EventTypes, Sizes, OfLoop
<1>4. queues' \in [Loops -> Seq(Nat)] /\ \A k \in Loops : k # l => queues'[k] = queues[k]
  <2>1. <<>> \in Seq(Nat)
    OBVIOUS
  <2> QED
    BY Zenon, <1>3, <2>1 DEF Taking
<1>5. queues'[l] = queues[l] \/ queues'[l] = <<>>
  BY Zenon, <1>3 DEF Taking
<1>6. Len(<<>>) <= QueueCap /\ Range(<<>>) = {}
  BY Bounds DEF Range
<1>7. /\ \A k \in Loops : Len(queues'[k]) <= QueueCap
      /\ \A k \in Loops : Range(queues'[k]) \subseteq Range(pushed'[k])
  BY Zenon, <1>1, <1>3, <1>4, <1>5, <1>6
<1>8. lost' \subseteq Events' /\ lost' \subseteq Nat
  <2>1. lost \subseteq Events /\ Range(pushed[l]) \subseteq Events
    BY Zenon DEF IInv, OfLoop, Events
  <2>2. Range(queues[l]) \subseteq Events
    BY Zenon, <1>3, <2>1
  <2>3. PICK n \in Nat : \A e : e \in Events <=> e \in 1..n
    BY Zenon DEF IInv, Numbered
  <2>4. Events \subseteq Nat
    BY <2>3
  <2>5. lost' \subseteq Events
    BY Zenon, <2>1, <2>2 DEF Taking
  <2> QED
    BY Zenon, <1>2, <2>4, <2>5
<1>9. /\ conn_maps' \in [Loops -> Maps(Buffers)] /\ fds'[l] = m /\ out_queues'[l] = o
      /\ \A k \in Loops : k # l => /\ fds'[k] = fds[k] /\ conn_maps'[k] = conn_maps[k]
                                   /\ out_queues'[k] = out_queues[k]
  BY Zenon, <1>0 DEF Taken
<1>10. Types'
  <2>1. fds' \in [Loops -> Maps(Modes)] /\ out_queues' \in [Loops -> Maps(Seq(Seq(Nat)))]
    BY Zenon DEF Taking, IInv, Types, EventTypes
  <2>2. new_fds' \in [Loops -> Seq(ConnIds)]
    <3>1. <<>> \in Seq(ConnIds)
      OBVIOUS
    <3> QED
      BY Zenon, <3>1 DEF Taking, IInv, Types, ControlTypes
  <2>3. EventTypes'
    BY Zenon, <1>1, <1>2, <1>4, <1>8, <1>9, <2>1 DEF IInv, Types, EventTypes
  <2>4. ControlTypes'
    <3>1. pending' \in [Loops -> BOOLEAN] /\ flush' \in [Loops -> BOOLEAN] /\ crashed' \in BOOLEAN
      BY Zenon DEF Taking
    <3> QED
      BY Zenon, <1>1, <1>2, <2>2, <3>1 DEF IInv, Types, ControlTypes
  <2> QED
    BY Zenon, <2>3, <2>4 DEF Types
<1>11. Sizes'
  <2>1. ASSUME NEW k \in Loops, NEW g \in DOMAIN conn_maps'[k] PROVE Len(conn_maps'[k][g].w) <= BuffSize
    <3>1. CASE g \in DOMAIN conn_maps[k]
      <4>1. conn_maps'[k][g] = conn_maps[k][g]
        BY Zenon, <1>0, <3>1 DEF Taken
      <4> QED
        BY Zenon, <3>1, <4>1 DEF IInv, Sizes
    <3>2. CASE g \notin DOMAIN conn_maps[k]
      <4>1. conn_maps'[k][g] = Fresh
        BY Zenon, <1>0, <3>2 DEF Taken
      <4>2. Len(Fresh.w) <= BuffSize
        BY Bounds DEF Fresh
      <4> QED
        BY Zenon, <4>1, <4>2
    <3> QED
      BY Zenon, <3>1, <3>2
  <2>2. ASSUME NEW k \in Loops, NEW g \in DOMAIN out_queues'[k] PROVE Len(out_queues'[k][g]) <= QueueCap + 1
    BY Zenon, <1>9 DEF Taking, IInv, Sizes
  <2> QED
    BY Zenon, <1>2, <1>7, <2>1, <2>2 DEF Sizes
<1>12. Numbered'
  BY Zenon, <1>1, <1>2 DEF IInv, Numbered
<1>13. \A fd \in ConnIds : Increasing(received'[fd]) /\ Range(received'[fd]) \subseteq Events'
  BY Zenon, <1>1, <1>2 DEF IInv, Ordered, OfLoop
<1>14. \A k \in Loops : k # l => SameLoop(k)
  BY Zenon, <1>1, <1>4, <1>9 DEF SameLoop
<1> QED
  BY Zenon, <1>2, <1>7, <1>8, <1>10, <1>11, <1>12, <1>13, <1>14

LEMMA TakingConnections ==
  ASSUME IInv, NEW l \in Loops, NEW m, NEW o, Taking(l, m, o)
  PROVE  Owned' /\ QueuesMatchConnections'
<1>0. Taken(l, m, o)
  BY Zenon, TakingMaps
<1>1. /\ scenario' = scenario /\ received' = received /\ server' = server /\ failed' = failed
      /\ crashed' => failed[l]
  BY Zenon DEF Taking
<1>2. Loops' = Loops
  BY Zenon, <1>1 DEF Loops, NL
<1>3. Range(<<>>) = {}
  BY DEF Range
<1>4. \A k \in Loops : Has(k)' = Has(k) /\ Range(new_fds'[k]) \subseteq Range(new_fds[k])
  <2>1. Has(l)' = Has(l) /\ Range(new_fds'[l]) = {}
    <3>1. out_queues'[l] = o /\ new_fds'[l] = <<>> /\ DOMAIN o = DOMAIN out_queues[l] \cup Range(new_fds[l])
      BY Zenon, <1>0 DEF Taken, Taking
    <3>2. DOMAIN out_queues'[l] \cup Range(new_fds'[l]) = DOMAIN out_queues[l] \cup Range(new_fds[l])
      BY Zenon, <1>3, <3>1
    <3> QED
      BY Zenon, <1>3, <3>1, <3>2 DEF Has
  <2>2. ASSUME NEW k \in Loops, k # l PROVE Has(k)' = Has(k) /\ new_fds'[k] = new_fds[k]
    BY Zenon, <1>0, <2>2 DEF Taken, Has
  <2> QED
    BY Zenon, <2>1, <2>2
<1>5. Owned'
  <2>1. ASSUME NEW k \in Loops PROVE DOMAIN out_queues'[k] \cap Range(new_fds'[k]) = {}
    <3>1. CASE k = l
      BY Zenon, <1>0, <1>3, <3>1 DEF Taken
    <3>2. CASE k # l
      <4>1. out_queues'[k] = out_queues[k] /\ new_fds'[k] = new_fds[k]
        BY Zenon, <1>0, <3>2 DEF Taken
      <4>2. DOMAIN out_queues[k] \cap Range(new_fds[k]) = {}
        BY Zenon DEF IInv, Owned
      <4> QED
        BY Zenon, <4>1, <4>2
    <3> QED
      BY Zenon, <3>1, <3>2
  <2>2. \A k \in Loops : \A fd \in Range(new_fds'[k]) : received'[fd] = <<>>
    BY Zenon, <1>1, <1>4 DEF IInv, Owned
  <2>3. /\ server'.closed \subseteq 1..server'.made /\ \A k \in Loops : Has(k)' \subseteq 1..server'.made
        /\ \A fd \in ConnIds : fd > server'.made => received'[fd] = <<>>
    BY Zenon, <1>1, <1>4 DEF IInv, Owned
  <2>4. ASSUME NEW j \in Loops, NEW k \in Loops, NEW fd \in Has(j)' \cap Has(k)' PROVE j = k
    <3>1. fd \in Has(j) \cap Has(k)
      BY Zenon, <1>4
    <3> QED
      BY Zenon, <3>1 DEF IInv, Owned
  <2> QED
    BY Zenon, <1>2, <2>1, <2>2, <2>3, <2>4 DEF Owned
<1>6. QueuesMatchConnections'
  <2>1. ASSUME NEW k \in Loops
        PROVE  /\ DOMAIN fds'[k] = DOMAIN conn_maps'[k] /\ DOMAIN fds'[k] \subseteq DOMAIN out_queues'[k]
               /\ ~failed'[k] => DOMAIN out_queues'[k] = DOMAIN fds'[k]
    <3>1. /\ DOMAIN fds[k] = DOMAIN conn_maps[k] /\ DOMAIN fds[k] \subseteq DOMAIN out_queues[k]
          /\ ~failed[k] => DOMAIN out_queues[k] = DOMAIN fds[k]
      BY Zenon DEF IInv, QueuesMatchConnections
    <3>2. CASE k # l
      BY Zenon, <1>0, <1>1, <3>1, <3>2 DEF Taken
    <3>3. CASE k = l
      <4>1. /\ DOMAIN fds'[l] = DOMAIN fds[l] \cup Range(new_fds[l])
            /\ DOMAIN out_queues'[l] = DOMAIN out_queues[l] \cup Range(new_fds[l])
            /\ DOMAIN conn_maps'[l] = DOMAIN conn_maps[l] \cup Range(new_fds[l])
        BY Zenon, <1>0 DEF Taken, Taking
      <4> QED
        BY Zenon, <1>1, <3>1, <3>3, <4>1
    <3> QED
      BY Zenon, <3>2, <3>3
  <2> QED
    BY Zenon, <1>1, <1>2, <2>1 DEF QueuesMatchConnections
<1> QED
  BY Zenon, <1>5, <1>6

\* What goes to a connection: to a new one only what is added now.
Added(l, o, g, add) ==
  /\ add \in Seq(Nat)
  /\ g \in DOMAIN out_queues[l] => Joined(o[g]) = Joined(out_queues[l][g]) \o add
  /\ g \notin DOMAIN out_queues[l] => Joined(o[g]) = add

OldLine(l, g) == IF g \in DOMAIN fds[l] THEN Line(l, g) ELSE <<>>

LEMMA TakingLine ==
  ASSUME IInv, NEW l \in Loops, NEW m, NEW o, Taking(l, m, o), NEW g \in DOMAIN m, NEW add, Added(l, o, g, add)
  PROVE  /\ OldLine(l, g) \in Seq(Nat) /\ Line(l, g)' = OldLine(l, g) \o add
         /\ \A e : e \in Unsent(l, g)' <=> e \in Way(l, g) \/ e \in Range(add)
<1>0. Taken(l, m, o)
  BY Zenon, TakingMaps
<1>1. received' = received /\ out_queues'[l] = o /\ add \in Seq(Nat)
  BY Zenon, <1>0 DEF Taken, Taking, Added
<1>2. CASE g \in DOMAIN fds[l]
  <2>1. g \in ConnIds /\ g \in DOMAIN conn_maps[l] /\ g \in DOMAIN out_queues[l]
    BY Zenon, <1>2, Watched
  <2>2. conn_maps'[l][g] = conn_maps[l][g]
    BY Zenon, <1>0, <2>1 DEF Taken
  <2> DEFINE r == received[g]
             w == conn_maps[l][g].w
             b == Joined(out_queues[l][g])
  <2>3. r \in Seq(Nat) /\ w \in Seq(Nat) /\ b \in Seq(Nat) /\ Line(l, g) \in Seq(Nat)
    BY Zenon, <2>1, LineIs DEF IInv
  <2>4. Joined(out_queues'[l][g]) = b \o add
    BY Zenon, <1>1, <2>1 DEF Added
  <2>5. Line(l, g) = (r \o w) \o b /\ Line(l, g)' = (r \o w) \o (b \o add)
    BY Zenon, <1>1, <2>2, <2>4 DEF Line
  <2>6. Unsent(l, g) = Range(w) \cup Range(b) /\ Unsent(l, g)' = Range(w) \cup Range(b \o add)
    BY Zenon, <2>2, <2>4 DEF Unsent
  <2> HIDE DEF r, w, b
  <2>7. r \o w \in Seq(Nat)
    BY Zenon, <2>3, RangeConcat
  <2>8. ((r \o w) \o b) \o add = (r \o w) \o (b \o add)
    BY Zenon, <1>1, <2>3, <2>7, ConcatAssoc
  <2>9. \A e : e \in Range(b \o add) <=> e \in Range(b) \/ e \in Range(add)
    BY Zenon, <1>1, <2>3, RangeConcat
  <2>10. OldLine(l, g) = Line(l, g) /\ Way(l, g) = Unsent(l, g)
    BY Zenon, <1>2 DEF OldLine, Way
  <2> QED
    BY Zenon, <2>3, <2>5, <2>6, <2>8, <2>9, <2>10
<1>3. CASE g \notin DOMAIN fds[l]
  <2>1. g \in Range(new_fds[l])
    BY Zenon, <1>3 DEF Taking
  <2>2. g \notin DOMAIN out_queues[l] /\ g \notin DOMAIN conn_maps[l] /\ received[g] = <<>>
    <3>1. /\ DOMAIN out_queues[l] \cap Range(new_fds[l]) = {}
          /\ \A fd \in Range(new_fds[l]) : received[fd] = <<>>
          /\ DOMAIN fds[l] = DOMAIN conn_maps[l]
      BY Zenon DEF IInv, Owned, QueuesMatchConnections
    <3> QED
      BY Zenon, <1>3, <2>1, <3>1
  <2>3. conn_maps'[l][g] = Fresh
    BY Zenon, <1>0, <2>1, <2>2 DEF Taken
  <2>4. Fresh.w = <<>>
    BY DEF Fresh
  <2>5. Joined(out_queues'[l][g]) = add
    BY Zenon, <1>1, <2>2 DEF Added
  <2>6. Line(l, g)' = (<<>> \o <<>>) \o add /\ Unsent(l, g)' = Range(<<>>) \cup Range(add)
    BY Zenon, <1>1, <2>2, <2>3, <2>4, <2>5 DEF Line, Unsent
  <2>7. (<<>> \o <<>>) \o add = <<>> \o add /\ Range(<<>>) = {} /\ <<>> \in Seq(Nat)
    BY <1>1 DEF Range
  <2>8. OldLine(l, g) = <<>> /\ Way(l, g) = {}
    BY Zenon, <1>3 DEF OldLine, Way
  <2> QED
    BY Zenon, <2>6, <2>7, <2>8
<1> QED
  BY Zenon, <1>2, <1>3

LEMMA EmptyOk ==
  ASSUME NEW S
  PROVE  /\ Increasing(<<>>) /\ Range(<<>>) = {} /\ <<>> \in Seq(Nat)
         /\ Below(Range(<<>>), S) /\ Below(S, Range(<<>>))
         /\ \A s \in Seq(Nat) : s \o <<>> = s
  BY DEF Increasing, Range, Below

LEMMA OldLineOk ==
  ASSUME IInv, ~crashed, NEW l \in Loops, NEW g
  PROVE  /\ Increasing(OldLine(l, g)) /\ Below(Range(OldLine(l, g)), Range(queues[l]))
         /\ Range(OldLine(l, g)) \subseteq Range(pushed[l])
<1>1. LoopOk(l)
  BY Zenon, LoopIsOk
<1>2. CASE g \in DOMAIN fds[l]
  BY Zenon, <1>1, <1>2 DEF LoopOk, OldLine
<1>3. CASE g \notin DOMAIN fds[l]
  <2>1. OldLine(l, g) = <<>>
    BY Zenon, <1>3 DEF OldLine
  <2>2. Increasing(<<>>) /\ Range(<<>>) = {} /\ Below(Range(<<>>), Range(queues[l]))
    BY Zenon, EmptyOk
  <2> QED
    BY Zenon, <2>1, <2>2
<1> QED
  BY Zenon, <1>2, <1>3

\* The queue q of the loop after the step: what it was, or nothing.
LEMMA TakingQueue ==
  ASSUME IInv, NEW l \in Loops, NEW m, NEW o, Taking(l, m, o)
  PROVE  /\ queues'[l] = queues[l] \/ queues'[l] = <<>>
         /\ queues[l] \in Seq(Nat) /\ DOMAIN fds'[l] = DOMAIN m /\ DOMAIN m \subseteq ConnIds
         /\ DOMAIN fds[l] \subseteq DOMAIN m /\ pushed' = pushed
<1>1. queues \in [Loops -> Seq(Nat)]
  BY Zenon DEF IInv, Types, EventTypes
<1>2. queues'[l] = queues[l] \/ queues'[l] = <<>>
  BY Zenon, <1>1 DEF Taking
<1>3. fds'[l] = m
  BY Zenon, TakingMaps DEF Taken
<1>4. DOMAIN m \subseteq ConnIds
  BY Zenon, MapsIs DEF Taking
<1>5. pushed' = pushed /\ DOMAIN fds[l] \subseteq DOMAIN m
  BY Zenon DEF Taking
<1> QED
  BY Zenon, <1>1, <1>2, <1>3, <1>4, <1>5

\* Nothing is queued for a connection.
LEMMA NothingAdded ==
  ASSUME IInv, ~crashed, NEW l \in Loops, NEW m, NEW o, Taking(l, m, o),
         NEW G, G \subseteq DOMAIN m, \A g \in G : Added(l, o, g, <<>>)
  PROVE  \A g \in G : /\ Increasing(Line(l, g)') /\ Below(Range(Line(l, g)'), Range(queues'[l]))
                      /\ Range(Line(l, g)') \subseteq Range(pushed'[l]) /\ Way(l, g)' = Way(l, g)
<1> SUFFICES ASSUME NEW g \in G
             PROVE  /\ Increasing(Line(l, g)') /\ Below(Range(Line(l, g)'), Range(queues'[l]))
                    /\ Range(Line(l, g)') \subseteq Range(pushed'[l]) /\ Way(l, g)' = Way(l, g)
  BY Zenon
<1>1. g \in DOMAIN m /\ Added(l, o, g, <<>>)
  BY Zenon
<1>2. /\ OldLine(l, g) \in Seq(Nat) /\ Line(l, g)' = OldLine(l, g) \o <<>>
      /\ \A e : e \in Unsent(l, g)' <=> e \in Way(l, g) \/ e \in Range(<<>>)
  BY Zenon, <1>1, TakingLine
<1>3. Range(<<>>) = {} /\ \A q \in Seq(Nat) : q \o <<>> = q
  BY Zenon, EmptyOk
<1>4. Line(l, g)' = OldLine(l, g) /\ Unsent(l, g)' = Way(l, g)
  BY Zenon, <1>2, <1>3
<1>5. /\ queues'[l] = queues[l] \/ queues'[l] = <<>>
      /\ DOMAIN fds'[l] = DOMAIN m /\ pushed' = pushed
  BY Zenon, TakingQueue
<1>6. Way(l, g)' = Unsent(l, g)'
  BY Zenon, <1>1, <1>5 DEF Way
<1>7. /\ Increasing(OldLine(l, g)) /\ Below(Range(OldLine(l, g)), Range(queues[l]))
      /\ Range(OldLine(l, g)) \subseteq Range(pushed[l])
  BY Zenon, OldLineOk
<1>8. Below(Range(OldLine(l, g)), Range(<<>>))
  BY Zenon, EmptyOk
<1> QED
  BY Zenon, <1>4, <1>5, <1>6, <1>7, <1>8

\* A connection the loop does not watch has nothing on its way.
LEMMA OtherWay ==
  ASSUME IInv, NEW l \in Loops, NEW m, NEW o, Taking(l, m, o), NEW g, g \notin DOMAIN m
  PROVE  Way(l, g)' = Way(l, g)
  BY Zenon, TakingQueue DEF Way

\* The whole queue of the loop goes to the connection first.
LEMMA QueueAdded ==
  ASSUME IInv, ~crashed, NEW l \in Loops, NEW m, NEW o, Taking(l, m, o),
         queues' = [queues EXCEPT ![l] = <<>>], NEW first \in DOMAIN m, Added(l, o, first, queues[l])
  PROVE  /\ Increasing(Line(l, first)') /\ Below(Range(Line(l, first)'), Range(queues'[l]))
         /\ Range(Line(l, first)') \subseteq Range(pushed'[l])
         /\ \A e : e \in Way(l, first)' <=> e \in Way(l, first) \/ e \in Range(queues[l])
<1> DEFINE a == OldLine(l, first)
           q == queues[l]
<1>1. /\ a \in Seq(Nat) /\ Line(l, first)' = a \o q
      /\ \A e : e \in Unsent(l, first)' <=> e \in Way(l, first) \/ e \in Range(q)
  BY Zenon, TakingLine
<1>2. queues \in [Loops -> Seq(Nat)]
  BY Zenon DEF IInv, Types, EventTypes
<1>3. q \in Seq(Nat) /\ queues'[l] = <<>>
  BY Zenon, <1>2
<1>4. DOMAIN fds'[l] = DOMAIN m /\ pushed' = pushed
  BY Zenon, TakingQueue
<1>5. Increasing(a) /\ Below(Range(a), Range(q)) /\ Range(a) \subseteq Range(pushed[l])
  BY Zenon, OldLineOk
<1>6. Increasing(q) /\ Range(q) \subseteq Range(pushed[l])
  BY Zenon, LoopIsOk DEF LoopOk, IInv, OfLoop
<1>7. Way(l, first)' = Unsent(l, first)'
  BY Zenon, <1>4 DEF Way
<1> HIDE DEF a, q
<1>8. Increasing(a \o q)
  BY Zenon, <1>1, <1>3, <1>5, <1>6, IncreasingConcat
<1>9. Range(a \o q) \subseteq Range(pushed[l])
  BY Zenon, <1>1, <1>3, <1>5, <1>6, RangeConcat
<1>10. Below(Range(a \o q), Range(<<>>))
  BY Zenon, EmptyOk
<1>11. \A e : e \in Way(l, first)' <=> e \in Way(l, first) \/ e \in Range(queues[l])
  BY Zenon, <1>1, <1>7 DEF q
<1> QED
  BY Zenon, <1>1, <1>3, <1>4, <1>8, <1>9, <1>10, <1>11

LEMMA InvTaken ==
  ASSUME IInv, ~crashed, NEW l \in Loops, NEW m, NEW o, Taking(l, m, o),
         \/ crashed'
         \/ /\ Placed'
            /\ \A g \in DOMAIN m : /\ Increasing(Line(l, g)') /\ Below(Range(Line(l, g)'), Range(queues'[l]))
                                   /\ Range(Line(l, g)') \subseteq Range(pushed'[l])
  PROVE  IInv'
<1>1. Types' /\ Sizes' /\ Numbered' /\ Loops' = Loops /\ Owned' /\ QueuesMatchConnections'
  BY Zenon, TakingTypes, TakingConnections
<1>2. /\ lost' \subseteq Events' /\ \A k \in Loops : Range(queues'[k]) \subseteq Range(pushed'[k])
      /\ \A fd \in ConnIds : Increasing(received'[fd]) /\ Range(received'[fd]) \subseteq Events'
  BY Zenon, TakingTypes
<1>3. CASE crashed'
  <2>1. Ordered' /\ OfLoop'
    BY Zenon, <1>1, <1>2, <1>3, LoopsAreOk
  <2> QED
    BY Zenon, <1>1, <1>3, <2>1 DEF IInv
<1>4. CASE ~crashed'
  <2>1. ASSUME NEW k \in Loops PROVE LoopOk(k)'
    <3>1. LoopOk(k)
      BY Zenon, LoopIsOk
    <3>2. CASE k # l
      <4>1. SameLoop(k)
        BY Zenon, <3>2, TakingTypes
      <4> QED
        BY Zenon, <3>1, <4>1, SameLoopOk
    <3>3. CASE k = l
      <4>1. DOMAIN fds'[l] = DOMAIN m
        BY Zenon, TakingQueue
      <4>2. Increasing(queues'[l])
        <5>1. queues'[l] = queues[l] \/ queues'[l] = <<>>
          BY Zenon, TakingQueue
        <5>2. Increasing(<<>>)
          BY Zenon, EmptyOk
        <5> QED
          BY Zenon, <3>1, <3>3, <5>1, <5>2 DEF LoopOk
      <4> QED
        BY Zenon, <1>4, <3>3, <4>1, <4>2 DEF LoopOk
    <3> QED
      BY Zenon, <3>2, <3>3
  <2>2. Ordered' /\ OfLoop'
    BY Zenon, <1>1, <1>2, <2>1, LoopsAreOk
  <2> QED
    BY Zenon, <1>1, <1>4, <2>2 DEF IInv
<1> QED
  BY Zenon, <1>3, <1>4

LEMMA OtherLoops ==
  ASSUME IInv, ~crashed, NEW l \in Loops, NEW m, NEW o, Taking(l, m, o), NEW k \in Loops, k # l, NEW c
  PROVE  Way(k, c)' = Way(k, c) /\ queues'[k] = queues[k]
<1>1. SameLoop(k)
  BY Zenon, TakingTypes
<1>2. LoopOk(k)
  BY Zenon, LoopIsOk
<1> QED
  BY Zenon, <1>1, <1>2, SameLoopOk DEF SameLoop

\* Nothing is queued: the queue stays, or is lost.
LEMMA InvNothingQueued ==
  ASSUME IInv, ~crashed, NEW l \in Loops, NEW m, NEW o, Taking(l, m, o),
         \A g \in DOMAIN m : Added(l, o, g, <<>>),
         \/ queues' = queues /\ lost' = lost
         \/ queues' = [queues EXCEPT ![l] = <<>>] /\ lost' = lost \cup Range(queues[l])
  PROVE  IInv'
<1>1. Loops' = Loops /\ Events' = Events /\ received' = received
  BY Zenon, TakingTypes DEF Taking
<1>2. \A g \in DOMAIN m : /\ Increasing(Line(l, g)') /\ Below(Range(Line(l, g)'), Range(queues'[l]))
                          /\ Range(Line(l, g)') \subseteq Range(pushed'[l]) /\ Way(l, g)' = Way(l, g)
  BY Zenon, NothingAdded
<1>3. ASSUME NEW k \in Loops, NEW c PROVE Way(k, c)' = Way(k, c)
  <2>1. CASE k # l
    BY Zenon, <2>1, OtherLoops
  <2>2. CASE k = l
    BY Zenon, <1>2, <2>2, OtherWay
  <2> QED
    BY Zenon, <2>1, <2>2
<1>4. Placed \/ crashed
  BY Zenon DEF IInv
<1>5. queues \in [Loops -> Seq(Nat)]
  BY Zenon DEF IInv, Types, EventTypes
<1> DEFINE h == <<"queue", l, 0>>
           g == <<"lost", 0, 0>>
<1>6. h \in Places /\ g \in Places /\ h # g /\ Places' = Places
  <2>1. h # g
    OBVIOUS
  <2> QED
    BY Zenon, <1>1, <2>1, PlacesAre DEF Places
<1>7. \A p \in Places : p \notin {h, g} => In(p)' = In(p)
  <2>1. ASSUME NEW k \in Loops, <<"queue", k, 0>> \notin {h, g} PROVE Range(queues'[k]) = Range(queues[k])
    <3>1. k # l
      BY Zenon, <2>1
    <3> QED
      BY Zenon, <3>1, OtherLoops
  <2>2. g \in {h, g}
    BY Zenon
  <2> QED
    BY Zenon, <1>1, <1>3, <2>1, <2>2, InSame
<1>8. In(h) = Range(queues[l]) /\ In(h)' = Range(queues'[l]) /\ In(g) = lost /\ In(g)' = lost'
  BY Zenon, InIs, InIsNext
<1> HIDE DEF h, g
<1>9. Placed'
  <2>1. CASE queues' = queues /\ lost' = lost
    <3>1. {} \subseteq In(h) /\ (\A e : e \in In(h)' <=> e \in In(h) /\ e \notin {})
      BY Zenon, <1>8, <2>1
    <3>2. \A e : e \in In(g)' <=> e \in In(g) \/ e \in {}
      BY Zenon, <1>8, <2>1
    <3>3. PICK M : M = {}
      BY Zenon
    <3>4. M \subseteq In(h) /\ (\A e : e \in In(h)' <=> e \in In(h) /\ e \notin M)
      BY Zenon, <3>1, <3>3
    <3>5. \A e : e \in In(g)' <=> e \in In(g) \/ e \in M
      BY Zenon, <3>2, <3>3
    <3> QED
      BY Zenon, <1>1, <1>4, <1>6, <1>7, <3>4, <3>5, PlacedMoves
  <2>2. CASE queues' = [queues EXCEPT ![l] = <<>>] /\ lost' = lost \cup Range(queues[l])
    <3>1. PICK M : M = Range(queues[l])
      BY Zenon
    <3>2. In(h)' = {}
      <4>1. queues'[l] = <<>>
        BY Zenon, <1>5, <2>2
      <4> QED
        BY Zenon, <1>8, <4>1, EmptyOk
    <3>3. M \subseteq In(h) /\ (\A e : e \in In(h)' <=> e \in In(h) /\ e \notin M)
      BY Zenon, <1>8, <3>1, <3>2
    <3>4. \A e : e \in In(g)' <=> e \in In(g) \/ e \in M
      BY Zenon, <1>8, <2>2, <3>1
    <3> QED
      BY Zenon, <1>1, <1>4, <1>6, <1>7, <3>3, <3>4, PlacedMoves
  <2> QED
    BY Zenon, <2>1, <2>2
<1> QED
  BY Zenon, <1>2, <1>9, InvTaken

\* The queue goes to one of the connections that are watched.
LEMMA InvQueued ==
  ASSUME IInv, ~crashed, NEW l \in Loops, NEW m, NEW o, Taking(l, m, o), NEW first \in DOMAIN m,
         Added(l, o, first, queues[l]), \A c \in DOMAIN m \ {first} : Added(l, o, c, <<>>),
         queues' = [queues EXCEPT ![l] = <<>>], lost' = lost
  PROVE  IInv'
<1>1. Loops' = Loops /\ Events' = Events /\ received' = received
  BY Zenon, TakingTypes DEF Taking
<1>2. \A c \in DOMAIN m \ {first} :
        /\ Increasing(Line(l, c)') /\ Below(Range(Line(l, c)'), Range(queues'[l]))
        /\ Range(Line(l, c)') \subseteq Range(pushed'[l]) /\ Way(l, c)' = Way(l, c)
  <2>1. DOMAIN m \ {first} \subseteq DOMAIN m
    BY Zenon
  <2> QED
    BY Zenon, <2>1, NothingAdded
<1>3. /\ Increasing(Line(l, first)') /\ Below(Range(Line(l, first)'), Range(queues'[l]))
      /\ Range(Line(l, first)') \subseteq Range(pushed'[l])
      /\ \A e : e \in Way(l, first)' <=> e \in Way(l, first) \/ e \in Range(queues[l])
  BY Zenon, QueueAdded
<1>4. ASSUME NEW k \in Loops, NEW c, k # l \/ c # first PROVE Way(k, c)' = Way(k, c)
  <2>1. CASE k # l
    BY Zenon, <2>1, OtherLoops
  <2>2. CASE k = l
    BY Zenon, <1>2, <1>4, <2>2, OtherWay
  <2> QED
    BY Zenon, <2>1, <2>2
<1>5. queues \in [Loops -> Seq(Nat)] /\ first \in ConnIds
  BY Zenon, TakingQueue DEF IInv, Types, EventTypes
<1> DEFINE h == <<"queue", l, 0>>
           g == <<"way", l, first>>
<1>6. h \in Places /\ g \in Places /\ h # g /\ Places' = Places
  <2>1. h # g
    OBVIOUS
  <2> QED
    BY Zenon, <1>1, <1>5, <2>1, PlacesAre DEF Places
<1>7. \A p \in Places : p \notin {h, g} => In(p)' = In(p)
  <2>1. ASSUME NEW k \in Loops, <<"queue", k, 0>> \notin {h, g} PROVE Range(queues'[k]) = Range(queues[k])
    <3>1. k # l
      BY Zenon, <2>1
    <3> QED
      BY Zenon, <3>1, OtherLoops
  <2>2. ASSUME NEW k \in Loops, NEW c \in ConnIds, <<"way", k, c>> \notin {h, g} PROVE Way(k, c)' = Way(k, c)
    <3>1. k # l \/ c # first
      BY Zenon, <2>2
    <3> QED
      BY Zenon, <1>4, <3>1
  <2> QED
    BY Zenon, <1>1, <2>1, <2>2, InSame
<1>8. /\ In(h) = Range(queues[l]) /\ In(h)' = Range(queues'[l])
      /\ In(g) = Way(l, first) /\ In(g)' = Way(l, first)'
  BY Zenon, InIs, InIsNext
<1> HIDE DEF h, g
<1>9. Placed'
  <2>1. PICK M : M = Range(queues[l])
    BY Zenon
  <2>2. In(h)' = {}
    <3>1. queues'[l] = <<>>
      BY Zenon, <1>5
    <3> QED
      BY Zenon, <1>8, <3>1, EmptyOk
  <2>3. M \subseteq In(h) /\ (\A e : e \in In(h)' <=> e \in In(h) /\ e \notin M)
    BY Zenon, <1>8, <2>1, <2>2
  <2>4. \A e : e \in In(g)' <=> e \in In(g) \/ e \in M
    BY Zenon, <1>3, <1>8, <2>1
  <2>5. Placed
    BY Zenon DEF IInv
  <2> QED
    BY Zenon, <1>1, <1>6, <1>7, <2>3, <2>4, <2>5, PlacedMoves
<1>10. \A c \in DOMAIN m : /\ Increasing(Line(l, c)') /\ Below(Range(Line(l, c)'), Range(queues'[l]))
                           /\ Range(Line(l, c)') \subseteq Range(pushed'[l])
  BY Zenon, <1>2, <1>3
<1> QED
  BY Zenon, <1>9, <1>10, InvTaken

\* The connections and queues with those handed to the loop.
Watches(l) == Insert(fds[l], Range(new_fds[l]), "read")
Outs(l) == Insert(out_queues[l], Range(new_fds[l]), <<>>)

LEMMA OutsIs ==
  ASSUME IInv, NEW l \in Loops
  PROVE  /\ Watches(l) \in Maps(Modes) /\ DOMAIN Watches(l) = DOMAIN fds[l] \cup Range(new_fds[l])
         /\ Outs(l) \in Maps(Seq(Seq(Nat))) /\ DOMAIN Outs(l) = DOMAIN out_queues[l] \cup Range(new_fds[l])
         /\ \A g \in DOMAIN out_queues[l] : Outs(l)[g] = out_queues[l][g]
         /\ \A g \in DOMAIN Outs(l) : g \notin DOMAIN out_queues[l] => Outs(l)[g] = <<>>
         /\ \A g \in DOMAIN Outs(l) : Outs(l)[g] \in Seq(Seq(Nat)) /\ Len(Outs(l)[g]) <= QueueCap + 1
         /\ DOMAIN Watches(l) \subseteq DOMAIN Outs(l)
         /\ ~failed[l] => DOMAIN Outs(l) = DOMAIN Watches(l)
<1>1. /\ fds \in [Loops -> Maps(Modes)] /\ out_queues \in [Loops -> Maps(Seq(Seq(Nat)))]
      /\ new_fds \in [Loops -> Seq(ConnIds)]
  BY Zenon DEF IInv, Types, EventTypes, ControlTypes
<1>2. fds[l] \in Maps(Modes) /\ out_queues[l] \in Maps(Seq(Seq(Nat))) /\ new_fds[l] \in Seq(ConnIds)
  BY Zenon, <1>1
<1>3. Range(new_fds[l]) \subseteq ConnIds
  <2>1. ASSUME NEW S, NEW q \in Seq(S) PROVE Range(q) \subseteq S
    BY DEF Range
  <2> QED
    BY Zenon, <1>2, <2>1
<1>4. "read" \in Modes /\ <<>> \in Seq(Seq(Nat)) /\ Len(<<>>) <= QueueCap + 1
  BY Bounds DEF Modes
<1>5. Watches(l) \in Maps(Modes) /\ DOMAIN Watches(l) = DOMAIN fds[l] \cup Range(new_fds[l])
  <2>1. Inserted(Modes, fds[l], Range(new_fds[l]), "read", Watches(l))
    BY Zenon, <1>2, <1>3, <1>4, InsertIs DEF Watches
  <2> QED
    BY Zenon, <2>1 DEF Inserted
<1>6. /\ Outs(l) \in Maps(Seq(Seq(Nat))) /\ DOMAIN Outs(l) = DOMAIN out_queues[l] \cup Range(new_fds[l])
      /\ \A g \in DOMAIN out_queues[l] : Outs(l)[g] = out_queues[l][g]
      /\ \A g \in Range(new_fds[l]) \ DOMAIN out_queues[l] : Outs(l)[g] = <<>>
  <2>1. Inserted(Seq(Seq(Nat)), out_queues[l], Range(new_fds[l]), <<>>, Outs(l))
    BY Zenon, <1>2, <1>3, <1>4, InsertIs DEF Outs
  <2> QED
    BY Zenon, <2>1 DEF Inserted
<1>7. \A g \in DOMAIN Outs(l) : g \notin DOMAIN out_queues[l] => Outs(l)[g] = <<>>
  BY Zenon, <1>6
<1>8. \A g \in DOMAIN Outs(l) : Outs(l)[g] \in Seq(Seq(Nat))
  BY Zenon, <1>6, MapsIs
<1>9. ASSUME NEW g \in DOMAIN Outs(l) PROVE Len(Outs(l)[g]) <= QueueCap + 1
  <2>1. CASE g \in DOMAIN out_queues[l]
    BY Zenon, <1>6, <2>1 DEF IInv, Sizes
  <2>2. CASE g \notin DOMAIN out_queues[l]
    BY Zenon, <1>4, <1>7, <2>2
  <2> QED
    BY Zenon, <2>1, <2>2
<1>10. DOMAIN fds[l] \subseteq DOMAIN out_queues[l] /\ (~failed[l] => DOMAIN out_queues[l] = DOMAIN fds[l])
  BY Zenon DEF IInv, QueuesMatchConnections
<1>11. DOMAIN Watches(l) \subseteq DOMAIN Outs(l) /\ (~failed[l] => DOMAIN Outs(l) = DOMAIN Watches(l))
  BY Zenon, <1>5, <1>6, <1>10
<1> QED
  BY Zenon, <1>5, <1>6, <1>7, <1>8, <1>9, <1>11

\* What an output more, or none, adds to a line.
LEMMA OutsAdd ==
  ASSUME IInv, NEW l \in Loops, NEW o, NEW g \in DOMAIN Outs(l), NEW a \in Seq(Nat),
         o[g] = Append(Outs(l)[g], a) \/ (o[g] = Outs(l)[g] /\ a = <<>>)
  PROVE  Added(l, o, g, a)
<1> DEFINE s == Outs(l)[g]
<1>1. s \in Seq(Seq(Nat))
  BY Zenon, OutsIs
<1>2. Joined(s) \in Seq(Nat) /\ Joined(Append(s, a)) = Joined(s) \o a
  BY Zenon, <1>1, JoinedType, JoinedAppend
<1>3. Joined(s) \o <<>> = Joined(s)
  BY Zenon, <1>2, EmptyOk
<1>4. Joined(o[g]) = Joined(s) \o a
  BY Zenon, <1>2, <1>3
<1>5. CASE g \in DOMAIN out_queues[l]
  <2>1. s = out_queues[l][g]
    BY Zenon, <1>5, OutsIs
  <2> QED
    BY Zenon, <1>4, <1>5, <2>1 DEF Added
<1>6. CASE g \notin DOMAIN out_queues[l]
  <2>1. s = <<>>
    BY Zenon, <1>6, OutsIs
  <2>2. Joined(s) = <<>>
    BY Zenon, <2>1, JoinedEmpty
  <2>3. <<>> \o a = a
    OBVIOUS
  <2> QED
    BY Zenon, <1>4, <1>6, <2>2, <2>3 DEF Added
<1> QED
  BY Zenon, <1>5, <1>6

\* The connections for which there is an output are watched for writing.
ForWriting(l) == [fd \in DOMAIN Watches(l) |-> IF fd \in Open(Outs(l)) THEN "readwrite" ELSE Watches(l)[fd]]

\* The two outcomes of the callback.
Rests(l) ==
  /\ out_queues' = [out_queues EXCEPT ![l] = Outs(l)] /\ fds' = [fds EXCEPT ![l] = Watches(l)]
  /\ UNCHANGED <<queues, flush, lost, crashed>>

Sends(l, first) ==
  /\ first \in IF Open(Outs(l)) = {} THEN {0} ELSE Open(Outs(l))
  /\ out_queues' = [out_queues EXCEPT ![l] = Queue(Outs(l), first, queues[l])]
  /\ queues' = [queues EXCEPT ![l] = <<>>] /\ flush' = [flush EXCEPT ![l] = FALSE]
  /\ lost' = IF Open(Outs(l)) = {} THEN lost \cup Range(queues[l]) ELSE lost
  /\ fds' = [fds EXCEPT ![l] = ForWriting(l)]
  /\ crashed' = ~(Open(Outs(l)) \subseteq DOMAIN Watches(l))

LEMMA AsyncIs ==
  ASSUME NEW l, AsyncCallback(l)
  PROVE  /\ ~crashed /\ pending' = [pending EXCEPT ![l] = FALSE] /\ new_fds' = [new_fds EXCEPT ![l] = <<>>]
         /\ conn_maps' = [conn_maps EXCEPT ![l] = Insert(@, Range(new_fds[l]), Fresh)]
         /\ Rests(l) \/ (Outs(l) # <<>> /\ \E first : Sends(l, first))
         /\ UNCHANGED <<scenario, next_thread, pusher, server, pushed, received, failed>>
<1>1. /\ ~crashed /\ pending' = [pending EXCEPT ![l] = FALSE] /\ new_fds' = [new_fds EXCEPT ![l] = <<>>]
      /\ conn_maps' = [conn_maps EXCEPT ![l] = Insert(@, Range(new_fds[l]), Fresh)]
      /\ UNCHANGED <<scenario, next_thread, pusher, server, pushed, received, failed>>
  BY Zenon DEF AsyncCallback, Fresh
<1>2. CASE Ready(l, Outs(l)) /\ queues[l] # <<>>
  <2>1. \E first : Sends(l, first)
    BY Zenon, <1>2 DEF AsyncCallback, Sends, Outs, Watches, ForWriting
  <2> QED
    BY Zenon, <1>1, <1>2, <2>1 DEF Ready
<1>3. CASE ~(Ready(l, Outs(l)) /\ queues[l] # <<>>)
  <2>1. Rests(l)
    BY Zenon, <1>3 DEF AsyncCallback, Rests, Outs, Watches
  <2> QED
    BY Zenon, <1>1, <2>1
<1> QED
  BY Zenon, <1>2, <1>3

\* The callback takes the connections, and keeps within the queues' capacity.
LEMMA SendsIs ==
  ASSUME IInv, NEW l \in Loops, NEW first, AsyncCallback(l), Sends(l, first)
  PROVE  /\ Taking(l, ForWriting(l), Queue(Outs(l), first, queues[l]))
         /\ \A g \in Open(Outs(l)) : g \in DOMAIN Outs(l)
<1> DEFINE m == ForWriting(l)
           q == queues[l]
           s == Outs(l)
           o == Queue(s, first, q)
<1>1. /\ conn_maps' = [conn_maps EXCEPT ![l] = Insert(@, Range(new_fds[l]), Fresh)]
      /\ new_fds' = [new_fds EXCEPT ![l] = <<>>] /\ pending' = [pending EXCEPT ![l] = FALSE]
      /\ UNCHANGED <<scenario, next_thread, pusher, server, pushed, received, failed>>
  BY Zenon, AsyncIs
<1>2. /\ Watches(l) \in Maps(Modes) /\ DOMAIN Watches(l) = DOMAIN fds[l] \cup Range(new_fds[l])
      /\ s \in Maps(Seq(Seq(Nat))) /\ DOMAIN s = DOMAIN out_queues[l] \cup Range(new_fds[l])
      /\ \A g \in DOMAIN s : s[g] \in Seq(Seq(Nat)) /\ Len(s[g]) <= QueueCap + 1
      /\ ~failed[l] => DOMAIN s = DOMAIN Watches(l)
  BY Zenon, OutsIs
<1>3. q \in Seq(Nat) /\ <<>> \in Seq(Nat)
  <2>1. queues[l] \in Seq(Nat)
    BY Zenon DEF IInv, Types, EventTypes
  <2> QED
    BY Zenon, <2>1, EmptyOk
<1>4. /\ o \in Maps(Seq(Seq(Nat))) /\ DOMAIN o = DOMAIN s
      /\ \A g \in DOMAIN s \ Open(s) : o[g] = s[g]
      /\ \A g \in Open(s) : o[g] = Append(s[g], IF g = first THEN q ELSE <<>>)
  <2>1. Queued(s, first, q, o)
    BY Zenon, <1>2, <1>3, QueueIs
  <2> QED
    BY Zenon, <2>1 DEF Queued
<1>5. \A g \in Open(s) : g \in DOMAIN s /\ Len(s[g]) <= QueueCap
  BY Zenon DEF Open
<1>6. ASSUME NEW g \in DOMAIN o PROVE Len(o[g]) <= QueueCap + 1
  <2>1. CASE g \in Open(s)
    <3>1. PICK a \in Seq(Nat) : o[g] = Append(s[g], a)
      BY Zenon, <1>3, <1>4, <2>1
    <3>2. s[g] \in Seq(Seq(Nat)) /\ Len(s[g]) <= QueueCap
      BY Zenon, <1>2, <1>5, <2>1
    <3>3. ASSUME NEW S, NEW t \in Seq(S), NEW x \in S, Len(t) <= QueueCap PROVE Len(Append(t, x)) <= QueueCap + 1
      BY <3>3, Bounds
    <3> QED
      BY Zenon, <3>1, <3>2, <3>3
  <2>2. CASE g \notin Open(s)
    BY Zenon, <1>2, <1>4, <2>2
  <2> QED
    BY Zenon, <2>1, <2>2
<1>7. m \in Maps(Modes) /\ DOMAIN m = DOMAIN Watches(l)
  <2>1. "readwrite" \in Modes
    BY DEF Modes
  <2>2. DOMAIN Watches(l) \subseteq ConnIds /\ \A k \in DOMAIN Watches(l) : Watches(l)[k] \in Modes
    BY Zenon, <1>2, MapsIs
  <2>3. DOMAIN m = DOMAIN Watches(l) /\ m = [k \in DOMAIN m |-> m[k]]
    BY Zenon DEF ForWriting
  <2>4. \A k \in DOMAIN Watches(l) : m[k] = "readwrite" \/ m[k] = Watches(l)[k]
    BY Zenon DEF ForWriting
  <2> HIDE DEF m
  <2>5. \A k \in DOMAIN m : m[k] \in Modes
    BY Zenon, <2>1, <2>2, <2>3, <2>4
  <2> QED
    BY Zenon, <2>2, <2>3, <2>5, MapsIs
<1>8. /\ out_queues' = [out_queues EXCEPT ![l] = o] /\ fds' = [fds EXCEPT ![l] = m]
      /\ queues' = [queues EXCEPT ![l] = <<>>] /\ flush' = [flush EXCEPT ![l] = FALSE]
      /\ lost' = lost \/ lost' = lost \cup Range(queues[l])
      /\ crashed' = ~(Open(s) \subseteq DOMAIN Watches(l))
  BY Zenon DEF Sends
<1> HIDE DEF m, o, s
<1>9. pending' \in [Loops -> BOOLEAN] /\ flush' \in [Loops -> BOOLEAN]
  BY Zenon, <1>1, <1>8 DEF IInv, Types, ControlTypes
<1>10. crashed' \in BOOLEAN /\ (crashed' => failed[l])
  BY Zenon, <1>2, <1>5, <1>8
<1>11. Taking(l, m, o)
  <2>1. /\ m \in Maps(Modes) /\ DOMAIN m = DOMAIN fds[l] \cup Range(new_fds[l])
        /\ o \in Maps(Seq(Seq(Nat))) /\ DOMAIN o = DOMAIN out_queues[l] \cup Range(new_fds[l])
        /\ \A g \in DOMAIN o : Len(o[g]) <= QueueCap + 1
    BY Zenon, <1>2, <1>4, <1>6, <1>7
  <2> QED
    BY Zenon, <1>1, <1>8, <1>9, <1>10, <2>1 DEF Taking
<1> QED
  BY Zenon, <1>5, <1>11 DEF m, o, s

LEMMA InvSends ==
  ASSUME IInv, NEW l \in Loops, NEW first, AsyncCallback(l), Sends(l, first)
  PROVE  IInv'
<1> DEFINE m == ForWriting(l)
           s == Outs(l)
           o == Queue(s, first, queues[l])
<1>1. Taking(l, m, o) /\ ~crashed
  BY Zenon, SendsIs, AsyncIs
<1>2. DOMAIN m = DOMAIN Watches(l) /\ DOMAIN m \subseteq DOMAIN s
  <2>1. DOMAIN m = DOMAIN Watches(l)
    BY Zenon DEF ForWriting
  <2> QED
    BY Zenon, <2>1, OutsIs
<1>3. queues[l] \in Seq(Nat) /\ <<>> \in Seq(Nat)
  <2>1. queues[l] \in Seq(Nat)
    BY Zenon DEF IInv, Types, EventTypes
  <2> QED
    BY Zenon, <2>1, EmptyOk
<1>4. /\ \A g \in DOMAIN s \ Open(s) : o[g] = s[g]
      /\ \A g \in Open(s) : o[g] = Append(s[g], IF g = first THEN queues[l] ELSE <<>>)
  <2>1. s \in Maps(Seq(Seq(Nat)))
    BY Zenon, OutsIs
  <2>2. Queued(s, first, queues[l], o)
    BY Zenon, <1>3, <2>1, QueueIs
  <2> QED
    BY Zenon, <2>2 DEF Queued
<1>5. /\ queues' = [queues EXCEPT ![l] = <<>>]
      /\ lost' = IF Open(s) = {} THEN lost \cup Range(queues[l]) ELSE lost
      /\ first \in IF Open(s) = {} THEN {0} ELSE Open(s)
      /\ crashed' = ~(Open(s) \subseteq DOMAIN Watches(l))
  BY Zenon DEF Sends
<1> HIDE DEF m, o
<1>6. ASSUME NEW g \in DOMAIN m, g \notin Open(s) \/ g # first PROVE Added(l, o, g, <<>>)
  <2>1. g \in DOMAIN Outs(l)
    BY Zenon, <1>2
  <2>2. o[g] = Append(Outs(l)[g], <<>>) \/ o[g] = Outs(l)[g]
    BY Zenon, <1>4, <1>6, <2>1
  <2> QED
    BY Zenon, <1>3, <2>1, <2>2, OutsAdd
<1>7. CASE Open(s) = {}
  <2>1. \A g \in DOMAIN m : Added(l, o, g, <<>>)
    BY Zenon, <1>6, <1>7
  <2>2. lost' = lost \cup Range(queues[l])
    BY Zenon, <1>5, <1>7
  <2> QED
    BY Zenon, <1>1, <1>5, <2>1, <2>2, InvNothingQueued
<1>8. CASE Open(s) # {} /\ crashed'
  BY Zenon, <1>1, <1>8, InvTaken
<1>9. CASE Open(s) # {} /\ ~crashed'
  <2>1. first \in Open(s) /\ Open(s) \subseteq DOMAIN Watches(l) /\ lost' = lost
    BY Zenon, <1>5, <1>9
  <2>2. first \in DOMAIN m /\ first \in DOMAIN Outs(l)
    BY Zenon, <1>2, <2>1
  <2>3. o[first] = Append(Outs(l)[first], queues[l])
    BY Zenon, <1>4, <2>1
  <2>4. Added(l, o, first, queues[l])
    BY Zenon, <1>3, <2>2, <2>3, OutsAdd
  <2>5. \A c \in DOMAIN m \ {first} : Added(l, o, c, <<>>)
    BY Zenon, <1>6
  <2> QED
    BY Zenon, <1>1, <1>5, <2>1, <2>2, <2>4, <2>5, InvQueued
<1> QED
  BY Zenon, <1>7, <1>8, <1>9

LEMMA InvAsyncCallback ==
  ASSUME IInv, NEW l \in Loops, AsyncCallback(l)
  PROVE  IInv'
<1>1. /\ ~crashed /\ conn_maps' = [conn_maps EXCEPT ![l] = Insert(@, Range(new_fds[l]), Fresh)]
      /\ new_fds' = [new_fds EXCEPT ![l] = <<>>] /\ pending' = [pending EXCEPT ![l] = FALSE]
      /\ UNCHANGED <<scenario, next_thread, pusher, server, pushed, received, failed>>
      /\ Rests(l) \/ \E first : Sends(l, first)
  BY Zenon, AsyncIs
<1>2. CASE \E first : Sends(l, first)
  BY Zenon, <1>2, InvSends
<1>3. CASE Rests(l)
  <2> DEFINE m == Watches(l)
             o == Outs(l)
  <2>1. /\ out_queues' = [out_queues EXCEPT ![l] = o] /\ fds' = [fds EXCEPT ![l] = m]
        /\ queues' = queues /\ flush' = flush /\ lost' = lost /\ (crashed' <=> crashed)
    BY Zenon, <1>3 DEF Rests
  <2>2. /\ m \in Maps(Modes) /\ DOMAIN m = DOMAIN fds[l] \cup Range(new_fds[l])
        /\ o \in Maps(Seq(Seq(Nat))) /\ DOMAIN o = DOMAIN out_queues[l] \cup Range(new_fds[l])
        /\ \A g \in DOMAIN o : o[g] \in Seq(Seq(Nat)) /\ Len(o[g]) <= QueueCap + 1
        /\ DOMAIN m \subseteq DOMAIN o
    BY Zenon, OutsIs
  <2>3. ASSUME NEW g \in DOMAIN m PROVE Added(l, o, g, <<>>)
    <3>1. g \in DOMAIN Outs(l) /\ <<>> \in Seq(Nat)
      BY Zenon, <2>2, EmptyOk
    <3> QED
      BY Zenon, <3>1, OutsAdd
  <2> HIDE DEF m, o
  <2>4. pending' \in [Loops -> BOOLEAN] /\ flush' \in [Loops -> BOOLEAN] /\ crashed' \in BOOLEAN
    <3>1. pending \in [Loops -> BOOLEAN] /\ flush \in [Loops -> BOOLEAN] /\ crashed \in BOOLEAN
      BY Zenon DEF IInv, Types, ControlTypes
    <3>2. UNCHANGED crashed
      BY Zenon, <1>3 DEF Rests
    <3> QED
      BY Zenon, <1>1, <2>1, <3>1, <3>2
  <2>5. Taking(l, m, o)
    BY Zenon, <1>1, <2>1, <2>2, <2>4 DEF Taking
  <2> QED
    BY Zenon, <1>1, <2>1, <2>3, <2>5, InvNothingQueued
<1> QED
  BY Zenon, <1>1, <1>2, <1>3

-----------------------------------------------------------------------------
(* The theorems.                                                            *)

LEMMA InvStutters ==
  ASSUME IInv, UNCHANGED vars
  PROVE  IInv'
<1>1. UNCHANGED eventVars /\ UNCHANGED <<scenario, out_queues, new_fds, server, received>>
  BY Zenon DEF vars, eventVars
<1>2. /\ scenario' = scenario /\ next_thread' = next_thread /\ pusher' = pusher /\ flush' = flush
      /\ pending' = pending /\ failed' = failed /\ new_fds' = new_fds /\ server' = server /\ Loops' = Loops
  BY Zenon DEF vars, Loops, NL
<1>3. UNCHANGED crashed
  BY Zenon DEF vars
<1>4. ControlTypes'
  BY Zenon, <1>2, <1>3 DEF IInv, Types, ControlTypes
<1> QED
  BY Zenon, <1>1, <1>4, OwnedFrame, EventFrame DEF IInv

LEMMA InvNext == IInv /\ [Next]_vars => IInv'
<1> SUFFICES ASSUME IInv, [Next]_vars PROVE IInv'
  BY Zenon
<1>1. CASE \E t \in Threads : PushEvent(t) \/ Signal(t) \/ ReadNext(t) \/ Advance(t)
  BY Zenon, <1>1, InvPushEvent, InvSignal, InvReadNext, InvAdvance
<1>2. CASE \E l \in Loops : ConnectClients(l) \/ SignalBatchFlush(l) \/ AsyncCallback(l)
  BY Zenon, <1>2, InvConnectClients, InvSignalBatchFlush, InvAsyncCallback
<1>3. CASE \E l \in Loops, fd \in ConnIds :
             ReadClosed(l, fd) \/ \E ack, wr \in BOOLEAN : DataReady(l, fd, ack, wr)
  BY Zenon, <1>3, InvReadClosed, InvDataReady
<1>4. CASE \E fd \in ConnIds : ServerCloses(fd)
  BY Zenon, <1>4, InvServerCloses
<1>5. CASE UNCHANGED vars
  BY Zenon, <1>5, InvStutters
<1> QED
  BY Zenon, <1>1, <1>2, <1>3, <1>4, <1>5 DEF Next

LEMMA InvHolds == Spec => []IInv
  BY InitInv, InvNext, PTL DEF Spec

LEMMA TypesMean == IInv => TypeOK
<1> SUFFICES ASSUME IInv PROVE TypeOK
  BY Zenon
<1>1. /\ next_thread \in Loops /\ pusher \in [Threads -> [at : Steps, l : Loops]]
      /\ flush \in [Loops -> BOOLEAN] /\ pending \in [Loops -> BOOLEAN] /\ failed \in [Loops -> BOOLEAN]
      /\ server \in [made : 0..MaxConns, closed : SUBSET ConnIds] /\ crashed \in BOOLEAN
      /\ fds \in [Loops -> Maps(Modes)] /\ conn_maps \in [Loops -> Maps(Buffers)]
  BY Zenon DEF IInv, Types, ControlTypes, EventTypes
<1>2. \A t \in Threads : pusher[t].at \in {"idle", "signal", "read", "advance"} /\ pusher[t].l \in Loops
  BY Zenon, <1>1 DEF Steps
<1>3. ASSUME NEW l \in Loops
      PROVE  /\ Len(queues[l]) <= QueueCap
             /\ \A fd \in DOMAIN fds[l] : fd \in ConnIds /\ fds[l][fd] \in {"none", "read", "readwrite"}
             /\ \A fd \in DOMAIN conn_maps[l] : /\ conn_maps[l][fd].r <= BuffSize
                                                /\ Len(conn_maps[l][fd].w) <= BuffSize
             /\ \A fd \in DOMAIN out_queues[l] : Len(out_queues[l][fd]) <= QueueCap + 1
  <2>1. \A fd \in DOMAIN fds[l] : fd \in ConnIds /\ fds[l][fd] \in {"none", "read", "readwrite"}
    <3>1. \A fd \in DOMAIN fds[l] : fd \in ConnIds /\ fds[l][fd] \in Modes
      BY Zenon, <1>1, MapsIs
    <3> QED
      BY Zenon, <3>1 DEF Modes
  <2>2. ASSUME NEW fd \in DOMAIN conn_maps[l] PROVE conn_maps[l][fd].r <= BuffSize
    <3>1. conn_maps[l][fd] \in Buffers
      BY Zenon, <1>1, MapsIs
    <3> QED
      BY <3>1, Bounds DEF Buffers
  <2> QED
    BY Zenon, <2>1, <2>2 DEF IInv, Sizes
<1>4. server.made \in 0..MaxConns
  BY <1>1
<1>5. server.closed \subseteq 1..server.made /\ lost \subseteq Events
  BY Zenon DEF IInv, Owned, OfLoop
<1> QED
  BY Zenon, <1>1, <1>2, <1>3, <1>4, <1>5 DEF TypeOK

LEMMA EventIsOnce ==
  ASSUME IInv, ~crashed, NEW l \in Loops, NEW e \in Range(pushed[l])
  PROVE  LET sent == {fd \in ConnIds : e \in Range(received[fd])}
             under_way == {fd \in DOMAIN fds[l] : e \in Unsent(l, fd)}
         IN  /\ Cardinality(sent) + Cardinality(under_way)
                  + Cardinality({e} \cap Range(queues[l])) + Cardinality({e} \cap lost) = 1
             /\ \A k \in Loops \ {l} : sent \cap DOMAIN fds[k] = {}
<1> DEFINE A == {fd \in ConnIds : e \in Range(received[fd])}
           B == {fd \in DOMAIN fds[l] : e \in Unsent(l, fd)}
           C == {e} \cap Range(queues[l])
           D == {e} \cap lost
<1>1. e \in Events /\ Placed
  BY Zenon DEF Events, IInv
<1>2. PICK p \in Places : e \in In(p)
  BY Zenon, <1>1 DEF Placed
<1>3. \A q \in Places : e \in In(q) => q = p
  BY Zenon, <1>1, <1>2 DEF Placed
<1>4. \A k \in Loops : e \in Range(pushed[k]) => k = l
  BY Zenon DEF IInv, Numbered
<1>5. \A k \in Loops : \A fd \in DOMAIN fds[k] : e \in Range(received[fd]) \/ e \in Unsent(k, fd) => k = l
  <2> SUFFICES ASSUME NEW k \in Loops, NEW fd \in DOMAIN fds[k], e \in Range(received[fd]) \/ e \in Unsent(k, fd)
               PROVE  k = l
    BY Zenon
  <2>1. fd \in ConnIds /\ fd \in DOMAIN conn_maps[k] /\ fd \in DOMAIN out_queues[k]
    BY Zenon, Watched
  <2>2. e \in Range(Line(k, fd))
    BY Zenon, <2>1, LineIs DEF IInv
  <2>3. e \in Range(pushed[k])
    BY Zenon, <2>2, LoopIsOk DEF LoopOk
  <2> QED
    BY Zenon, <1>4, <2>3
<1>6. \A fd \in ConnIds : fd \in A <=> p = <<"sent", 0, fd>>
  <2> SUFFICES ASSUME NEW fd \in ConnIds PROVE fd \in A <=> p = <<"sent", 0, fd>>
    BY Zenon
  <2>1. <<"sent", 0, fd>> \in Places /\ In(<<"sent", 0, fd>>) = Range(received[fd])
    BY Zenon, PlacesAre, InIs
  <2> QED
    BY Zenon, <1>2, <1>3, <2>1
<1>7. \A fd : fd \in B <=> fd \in ConnIds /\ p = <<"way", l, fd>>
  <2> SUFFICES ASSUME NEW fd PROVE fd \in B <=> fd \in ConnIds /\ p = <<"way", l, fd>>
    BY Zenon
  <2>1. fd \in DOMAIN fds[l] => fd \in ConnIds
    BY Zenon, Watched
  <2>2. fd \in ConnIds => <<"way", l, fd>> \in Places
    BY Zenon, PlacesAre
  <2>3. e \in In(<<"way", l, fd>>) <=> fd \in DOMAIN fds[l] /\ e \in Unsent(l, fd)
    BY Zenon, InIs DEF Way
  <2> QED
    BY Zenon, <1>2, <1>3, <2>1, <2>2, <2>3
<1>8. e \in Range(queues[l]) <=> p = <<"queue", l, 0>>
  <2>1. <<"queue", l, 0>> \in Places /\ In(<<"queue", l, 0>>) = Range(queues[l])
    BY Zenon, PlacesAre, InIs
  <2> QED
    BY Zenon, <1>2, <1>3, <2>1
<1>9. e \in lost <=> p = <<"lost", 0, 0>>
  <2>1. <<"lost", 0, 0>> \in Places /\ In(<<"lost", 0, 0>>) = lost
    BY Zenon, PlacesAre, InIs
  <2> QED
    BY Zenon, <1>2, <1>3, <2>1
<1>10. \A x, y, i, j, k : /\ <<"sent", i, x>> # <<"way", j, y>> /\ <<"sent", i, x>> # <<"queue", j, k>>
                          /\ <<"sent", i, x>> # <<"lost", j, k>> /\ <<"way", i, x>> # <<"queue", j, k>>
                          /\ <<"way", i, x>> # <<"lost", j, k>> /\ <<"queue", i, x>> # <<"lost", j, k>>
  OBVIOUS
<1>11. A \subseteq ConnIds /\ C \subseteq {e} /\ D \subseteq {e}
  BY Zenon
<1>12. (e \in C <=> p = <<"queue", l, 0>>) /\ (e \in D <=> p = <<"lost", 0, 0>>)
  BY Zenon, <1>8, <1>9
<1>13. \A k \in Loops \ {l} : A \cap DOMAIN fds[k] = {}
  BY Zenon, <1>5
<1> HIDE DEF A, B, C, D
<1>15. Cardinality({}) = 0 /\ \A x : Cardinality({x}) = 1
  BY Zenon, FS_EmptySet, FS_Singleton
<1>14. Cardinality(A) + Cardinality(B) + Cardinality(C) + Cardinality(D) = 1
  <2>1. CASE \E k \in Loops : p = <<"queue", k, 0>>
    <3>1. PICK k \in Loops : p = <<"queue", k, 0>>
      BY Zenon, <2>1
    <3>2. k = l
      <4>1. e \in Range(queues[k])
        BY Zenon, <1>2, <3>1, InIs
      <4> QED
        BY Zenon, <1>4, <4>1 DEF IInv, OfLoop
    <3>3. p = <<"queue", l, 0>>
      BY Zenon, <3>1, <3>2
    <3>4. A = {} /\ B = {}
      BY Zenon, <1>6, <1>7, <1>10, <1>11, <3>3
    <3>5. C = {e} /\ D = {}
      BY Zenon, <1>10, <1>11, <1>12, <3>3
    <3>6. Cardinality(A) = 0 /\ Cardinality(B) = 0 /\ Cardinality(C) = 1 /\ Cardinality(D) = 0
      BY Zenon, <1>15, <3>4, <3>5
    <3> QED
      BY <3>6
  <2>2. CASE \E k \in Loops, fd \in ConnIds : p = <<"way", k, fd>>
    <3>1. PICK k \in Loops, fd \in ConnIds : p = <<"way", k, fd>>
      BY Zenon, <2>2
    <3>2. k = l
      <4>1. e \in Way(k, fd)
        BY Zenon, <1>2, <3>1, InIs
      <4> QED
        BY Zenon, <1>5, <4>1 DEF Way
    <3>3. p = <<"way", l, fd>>
      BY Zenon, <3>1, <3>2
    <3>4. A = {} /\ C = {} /\ D = {}
      BY Zenon, <1>6, <1>10, <1>11, <1>12, <3>3
    <3>5. B = {fd}
      <4>1. \A c : <<"way", l, c>> = <<"way", l, fd>> => c = fd
        OBVIOUS
      <4> QED
        BY Zenon, <1>7, <3>3, <4>1
    <3>6. Cardinality(A) = 0 /\ Cardinality(B) = 1 /\ Cardinality(C) = 0 /\ Cardinality(D) = 0
      BY Zenon, <1>15, <3>4, <3>5
    <3> QED
      BY <3>6
  <2>3. CASE \E fd \in ConnIds : p = <<"sent", 0, fd>>
    <3>1. PICK fd \in ConnIds : p = <<"sent", 0, fd>>
      BY Zenon, <2>3
    <3>2. B = {} /\ C = {} /\ D = {}
      BY Zenon, <1>7, <1>10, <1>11, <1>12, <3>1
    <3>3. A = {fd}
      <4>1. \A c : <<"sent", 0, c>> = <<"sent", 0, fd>> => c = fd
        OBVIOUS
      <4> QED
        BY Zenon, <1>6, <1>11, <3>1, <4>1
    <3>6. Cardinality(A) = 1 /\ Cardinality(B) = 0 /\ Cardinality(C) = 0 /\ Cardinality(D) = 0
      BY Zenon, <1>15, <3>2, <3>3
    <3> QED
      BY <3>6
  <2>4. CASE p = <<"lost", 0, 0>>
    <3>1. A = {} /\ B = {}
      BY Zenon, <1>6, <1>7, <1>10, <1>11, <2>4
    <3>2. C = {} /\ D = {e}
      BY Zenon, <1>10, <1>11, <1>12, <2>4
    <3>6. Cardinality(A) = 0 /\ Cardinality(B) = 0 /\ Cardinality(C) = 0 /\ Cardinality(D) = 1
      BY Zenon, <1>15, <3>1, <3>2
    <3> QED
      BY <3>6
  <2> QED
    BY Zenon, <1>2, <2>1, <2>2, <2>3, <2>4, PlacesAre
<1> QED
  BY Zenon, <1>13, <1>14 DEF A, B, C, D

LEMMA SentMeans == IInv => SentOnceInOrder
<1> SUFFICES ASSUME IInv PROVE SentOnceInOrder
  BY Zenon
<1>1. \A fd \in ConnIds : Increasing(received[fd])
  BY Zenon DEF IInv, Ordered
<1>2. \A fd \in ConnIds : \A i, j \in DOMAIN received[fd] : i < j => received[fd][i] < received[fd][j]
  BY Zenon, <1>1 DEF Increasing
<1>3. CASE crashed
  BY Zenon, <1>2, <1>3 DEF SentOnceInOrder
<1>4. CASE ~crashed
  BY Zenon, <1>2, <1>4, EventIsOnce DEF SentOnceInOrder
<1> QED
  BY Zenon, <1>3, <1>4

\* Whatever the order in which rule threads push, the timers signal, the server
\* closes connections and writes fail: a loop has a queue for each connection
\* tcp_pool watches (and for no other before a write has failed), an event that
\* push_event has queued is in one place, and the server gets the events of one
\* loop on a connection, once and in the order in which they were pushed.
THEOREM EventsDoFollowConnections == Spec => []EventsFollowConnections
<1>1. IInv => EventsFollowConnections
  BY Zenon, TypesMean, SentMeans DEF IInv, EventsFollowConnections
<1> QED
  BY <1>1, InvHolds, PTL

\* What loses events: a connection the server has closed, or full queues.
LostBy(l) ==
  \/ \E fd \in DOMAIN fds[l] \cap server.closed : lost' = lost \cup Unsent(l, fd)
  \/ out_queues[l] # <<>> /\ \A fd \in DOMAIN out_queues[l] : Len(out_queues[l][fd]) > QueueCap

LEMMA SendsLoses ==
  ASSUME IInv, NEW l \in Loops, NEW first, Outs(l) # <<>>, Sends(l, first), lost' # lost
  PROVE  LostBy(l)
<1>1. Open(Outs(l)) = {}
  BY Zenon DEF Sends
<1>2. /\ Outs(l) \in Maps(Seq(Seq(Nat))) /\ DOMAIN Outs(l) = DOMAIN out_queues[l] \cup Range(new_fds[l])
      /\ \A g \in DOMAIN out_queues[l] : Outs(l)[g] = out_queues[l][g]
      /\ \A g \in DOMAIN Outs(l) : g \notin DOMAIN out_queues[l] => Outs(l)[g] = <<>>
      /\ \A g \in DOMAIN Outs(l) : Outs(l)[g] \in Seq(Seq(Nat))
  BY Zenon, OutsIs
<1>3. \A g \in DOMAIN Outs(l) : ~(Len(Outs(l)[g]) <= QueueCap)
  BY Zenon, <1>1 DEF Open
<1>4. DOMAIN Outs(l) \subseteq DOMAIN out_queues[l]
  <2>1. Len(<<>>) <= QueueCap
    BY Bounds
  <2> QED
    BY Zenon, <1>2, <1>3, <2>1
<1>5. out_queues[l] # <<>>
  <2>1. DOMAIN Outs(l) # {}
    BY Zenon, <1>2, EmptyMap
  <2>2. DOMAIN <<>> = {}
    BY Zenon, EmptyMap
  <2> QED
    BY Zenon, <1>4, <2>1, <2>2
<1>6. ASSUME NEW fd \in DOMAIN out_queues[l] PROVE Len(out_queues[l][fd]) > QueueCap
  <2>1. out_queues[l][fd] \in Seq(Seq(Nat)) /\ ~(Len(out_queues[l][fd]) <= QueueCap)
    BY Zenon, <1>2, <1>3
  <2>2. Len(out_queues[l][fd]) \in Nat
    BY Zenon, <2>1, LenIsNat
  <2> QED
    BY <2>1, <2>2, Bounds
<1> QED
  BY Zenon, <1>5, <1>6 DEF LostBy

LEMMA LosingStep ==
  ASSUME IInv, Next, lost' # lost
  PROVE  \E l \in Loops : LostBy(l)
<1>1. CASE \E t \in Threads : PushEvent(t) \/ Signal(t) \/ ReadNext(t) \/ Advance(t)
  BY Zenon, <1>1 DEF PushEvent, Signal, ReadNext, Advance, loop_vars
<1>2. CASE \E l \in Loops : ConnectClients(l) \/ SignalBatchFlush(l)
  BY Zenon, <1>2 DEF ConnectClients, SignalBatchFlush, loop_vars
<1>3. CASE \E l \in Loops : AsyncCallback(l)
  <2>1. PICK l \in Loops : AsyncCallback(l)
    BY Zenon, <1>3
  <2>2. CASE Rests(l)
    BY Zenon, <2>2 DEF Rests
  <2>3. CASE Outs(l) # <<>> /\ \E first : Sends(l, first)
    BY Zenon, <2>3, SendsLoses
  <2> QED
    BY Zenon, <2>1, <2>2, <2>3, AsyncIs
<1>4. CASE \E l \in Loops, fd \in ConnIds : ReadClosed(l, fd)
  BY Zenon, <1>4 DEF ReadClosed, LostBy
<1>5. CASE \E l \in Loops, fd \in ConnIds, ack, wr \in BOOLEAN : DataReady(l, fd, ack, wr)
  <2>1. PICK l \in Loops, fd \in ConnIds, ack \in BOOLEAN, wr \in BOOLEAN : DataReady(l, fd, ack, wr)
    BY Zenon, <1>5
  <2>2. fd \in DOMAIN fds[l] /\ fd \in server.closed /\ lost' = lost \cup Unsent(l, fd)
    BY Zenon, <2>1 DEF DataReady
  <2> QED
    BY Zenon, <2>2 DEF LostBy
<1>6. CASE \E fd \in ConnIds : ServerCloses(fd)
  BY Zenon, <1>6 DEF ServerCloses
<1> QED
  BY Zenon, <1>1, <1>2, <1>3, <1>4, <1>5, <1>6 DEF Next

\* A queued event is dropped only together with a connection that the server has
\* closed (a read or a write on it failed), or when async finds the queue of each
\* of the loop's connections full: an event that was queued before there was a
\* connection waits for one.
THEOREM LossNeedsConnection == Spec => LostOnlyWithConnection
<1>1. IInv /\ [Next]_vars => [lost' # lost => \E l \in Loops : LostBy(l)]_vars
  BY Zenon, LosingStep
<1>2. [lost' # lost => \E l \in Loops : LostBy(l)]_vars
        => [lost' # lost =>
             \E l \in Loops : \/ \E fd \in DOMAIN fds[l] \cap server.closed : lost' = lost \cup Unsent(l, fd)
                              \/ /\ out_queues[l] # <<>>
                                 /\ \A fd \in DOMAIN out_queues[l] : Len(out_queues[l][fd]) > QueueCap]_vars
  BY Zenon DEF LostBy
<1> QED
  BY <1>1, <1>2, InvHolds, PTL DEF Spec, LostOnlyWithConnection
=============================================================================
