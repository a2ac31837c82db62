--------------------------- MODULE StreamCallsProofs ---------------------------
(***************************************************************************)
(* Proofs about the stream functions with state, for any number of calls,  *)
(* any sizes of windows and any times: what a closure passes on is what    *)
(* the whole history of its calls says.                                    *)
(*                                                                         *)
(* The windows come first, with their theorem.  Then follow the functions  *)
(* that hold events back and whose calls do not interleave: what the state *)
(* of throttle, stable and changed_state remembers of the history          *)
(* (Throttled, Settled and Remembered).                                    *)
(***************************************************************************)
EXTENDS StreamCalls, FiniteSetTheorems, WellFoundedInduction, TLAPS

-----------------------------------------------------------------------------
(* Sequences, and the concatenation of a sequence of sequences.             *)

\* A set of natural numbers that is not empty has a least element.
LEMMA Least ==
  ASSUME NEW T, T \subseteq Nat, T # {}
  PROVE  \E x \in T : \A y \in T : x <= y
<1> DEFINE R == {ss \in Nat \X Nat : ss[1] < ss[2]}
<1>1. R = OpToRel(<, Nat)
  BY Zenon DEF OpToRel
<1>2. IsWellFoundedOn(R, Nat)
  BY Zenon, <1>1, NatLessThanWellFounded
<1> HIDE DEF R
<1>3. PICK x \in T : \A y \in T : ~ (<<y, x>> \in R)
  BY Zenon, <1>2, WFMin
<1>4. ASSUME NEW y \in T PROVE x <= y
  <2>1. <<y, x>> \in Nat \X Nat /\ <<y, x>>[1] = y /\ <<y, x>>[2] = x
    BY Zenon
  <2>2. y < x => <<y, x>> \in R
    BY Zenon, <2>1 DEF R
  <2> QED
    BY <1>3, <2>2
<1> QED
  BY Zenon, <1>4

\* Induction over the natural numbers, for a set: the statement is that every
\* number is in the set.
LEMMA SetInduction ==
  ASSUME NEW T, 0 \in T, \A n \in Nat : n \in T => n + 1 \in T
  PROVE  Nat \subseteq T
<1> SUFFICES ASSUME Nat \ T # {} PROVE FALSE
  BY Zenon
<1>1. PICK x \in Nat \ T : \A y \in Nat \ T : x <= y
  BY Zenon, Least
<1>2. x # 0 /\ x - 1 \in Nat /\ x - 1 \notin Nat \ T
  BY <1>1
<1>3. (x - 1) + 1 \in T
  BY Zenon, <1>2
<1> QED
  BY <1>1, <1>3

\* f holds the concatenations of the first outputs of s.
Chain(S, s, f) ==
  /\ f \in [0..Len(s) -> Seq(S)]
  /\ f[0] = <<>>
  /\ \A k \in 1..Len(s) : f[k] = f[k - 1] \o s[k]

\* The concatenations of the first outputs exist.
LEMMA ChainExists ==
  ASSUME NEW S, NEW s \in Seq(Seq(S))
  PROVE  \E f : Chain(S, s, f)
<1> DEFINE len == Len(s)
           Ok(n) == \E f \in [0..n -> Seq(S)] :
                       f[0] = <<>> /\ \A k \in 1..n : f[k] = f[k - 1] \o s[k]
           T == {n \in Nat : n <= len => Ok(n)}
<1>0. len \in Nat /\ \A k \in 1..len : s[k] \in Seq(S)
  OBVIOUS
<1> HIDE DEF len, Ok
<1>1. 0 \in T
  <2> DEFINE f == [k \in 0..0 |-> <<>>]
  <2>1. f \in [0..0 -> Seq(S)] /\ f[0] = <<>> /\ \A k \in 1..0 : FALSE
    OBVIOUS
  <2> HIDE DEF f
  <2>2. Ok(0)
    BY Zenon, <2>1 DEF Ok
  <2> QED
    BY Zenon, <2>2
<1>2. ASSUME NEW n \in Nat, n \in T PROVE n + 1 \in T
  <2> SUFFICES ASSUME n + 1 <= len PROVE Ok(n + 1)
    OBVIOUS
  <2>1. Ok(n)
    BY <1>0, <1>2
  <2>2. PICK f \in [0..n -> Seq(S)] : f[0] = <<>> /\ \A k \in 1..n : f[k] = f[k - 1] \o s[k]
    BY Zenon, <2>1 DEF Ok
  <2> DEFINE x == f[n] \o s[n + 1]
             g == [k \in 0..(n + 1) |-> IF k <= n THEN f[k] ELSE x]
  <2>3. x \in Seq(S)
    <3>1. f[n] \in Seq(S) /\ s[n + 1] \in Seq(S)
      BY <1>0
    <3> QED
      BY <3>1
  <2>4. x = f[n] \o s[n + 1]
    OBVIOUS
  <2> HIDE DEF x
  <2>5. g \in [0..(n + 1) -> Seq(S)] /\ g[0] = <<>>
    BY <2>2, <2>3
  <2>6. ASSUME NEW k \in 1..(n + 1) PROVE g[k] = g[k - 1] \o s[k]
    <3>1. CASE k <= n
      <4>1. k \in 1..n /\ g[k] = f[k] /\ g[k - 1] = f[k - 1]
        BY <3>1
      <4> QED
        BY Zenon, <2>2, <4>1
    <3>2. CASE ~(k <= n)
      <4>1. k = n + 1 /\ k - 1 = n /\ k \in 0..(n + 1) /\ n \in 0..(n + 1) /\ n <= n
        BY <3>2
      <4>2. g[k] = x /\ g[k - 1] = f[n]
        BY Zenon, <3>2, <4>1
      <4> QED
        BY Zenon, <2>4, <4>1, <4>2
    <3> QED
      BY Zenon, <3>1, <3>2
  <2> HIDE DEF g
  <2> QED
    BY Zenon, <2>5, <2>6 DEF Ok
<1> HIDE DEF T
<1>3. \A n \in Nat : n \in T => n + 1 \in T
  BY Zenon, <1>2
<1>4. len \in T
  BY Zenon, <1>0, <1>1, <1>3, SetInduction
<1>5. Ok(len)
  BY <1>0, <1>4 DEF T
<1> QED
  BY Zenon, <1>5 DEF Ok, Chain, len

\* Two sequences that agree on their first n elements.
Agree(s, t, n) == \A i \in 1..n : s[i] = t[i]

\* The equations of a chain, up to n.
Links(f, s, n) == f[0] = <<>> /\ \A k \in 1..n : f[k] = f[k - 1] \o s[k]

\* Two functions that satisfy the same equations.
SameLinks(n, s, t, f, g) == Agree(s, t, n) /\ Links(f, s, n) /\ Links(g, t, n)

\* A function that satisfies the equations of a chain is the chain.
LEMMA ChainsAgree ==
  ASSUME NEW n \in Nat, NEW s, NEW t, NEW f, NEW g, SameLinks(n, s, t, f, g)
  PROVE  f[n] = g[n]
<1> USE DEF SameLinks
<1> DEFINE T == {k \in Nat : k \in 0..n => f[k] = g[k]}
<1>1. 0 \in T
  BY Zenon DEF Links
<1>2. ASSUME NEW k \in Nat, k \in T PROVE k + 1 \in T
  <2> SUFFICES ASSUME k + 1 \in 0..n PROVE f[k + 1] = g[k + 1]
    OBVIOUS
  <2>1. k \in 0..n /\ (k + 1) - 1 = k /\ k + 1 \in 1..n
    OBVIOUS
  <2>2. f[k] = g[k] /\ s[k + 1] = t[k + 1]
    BY Zenon, <1>2, <2>1 DEF Agree
  <2> QED
    BY Zenon, <2>1, <2>2 DEF Links
<1> HIDE DEF T
<1>3. \A k \in Nat : k \in T => k + 1 \in T
  BY Zenon, <1>2
<1>4. n \in T
  BY Zenon, <1>1, <1>3, SetInduction
<1>5. n \in 0..n
  OBVIOUS
<1> QED
  BY Zenon, <1>4, <1>5 DEF T

\* Flattened computes the last link of the chain.
LEMMA FlattenChain ==
  ASSUME NEW S, NEW s \in Seq(Seq(S))
  PROVE  \E f : Chain(S, s, f) /\ Flattened(s) = f[Len(s)]
<1> DEFINE n == Len(s)
           P(f) == f = [i \in 0..n |-> IF i = 0 THEN <<>> ELSE f[i - 1] \o s[i]]
           A == CHOOSE f : P(f)
<1>1. n \in Nat /\ 0 \in 0..n /\ \A k \in 1..n : k \in 0..n /\ k # 0
  OBVIOUS
<1>2. Flattened(s) = A[n]
  BY Zenon DEF Flattened
<1>3. PICK h : Chain(S, s, h)
  BY Zenon, ChainExists
<1>4. P(h)
  <2>1. \A i \in 0..n : h[i] = IF i = 0 THEN <<>> ELSE h[i - 1] \o s[i]
    <3> SUFFICES ASSUME NEW i \in 0..n PROVE h[i] = IF i = 0 THEN <<>> ELSE h[i - 1] \o s[i]
      BY Zenon
    <3>1. i # 0 => i \in 1..n
      OBVIOUS
    <3> QED
      BY Zenon, <1>3, <3>1 DEF Chain
  <2> QED
    BY Zenon, <1>3, <2>1 DEF Chain
<1>5. P(A)
  BY Zenon, <1>4
<1> HIDE DEF A
<1>6. Links(A, s, n)
  <2>1. \A i \in 0..n : A[i] = IF i = 0 THEN <<>> ELSE A[i - 1] \o s[i]
    BY Zenon, <1>5
  <2> QED
    BY Zenon, <1>1, <2>1 DEF Links
<1>7. Links(h, s, n)
  BY Zenon, <1>3 DEF Chain, Links
<1>8. Agree(s, s, n)
  BY Zenon DEF Agree
<1>9. A[n] = h[n]
  <2> HIDE DEF n
  <2> QED
    BY Zenon, <1>1, <1>6, <1>7, <1>8, ChainsAgree DEF SameLinks
<1> QED
  BY Zenon, <1>2, <1>3, <1>9

\* The concatenation of outputs is a sequence of events.
LEMMA FlattenType ==
  ASSUME NEW S, NEW s \in Seq(Seq(S))
  PROVE  Flattened(s) \in Seq(S)
<1>1. PICK f : Chain(S, s, f) /\ Flattened(s) = f[Len(s)]
  BY Zenon, FlattenChain
<1>2. Len(s) \in 0..Len(s)
  OBVIOUS
<1> QED
  BY Zenon, <1>1, <1>2 DEF Chain

\* Nothing was passed on yet.
LEMMA FlattenEmpty == Flattened(<<>>) = <<>>
<1>1. <<>> \in Seq(Seq({})) /\ Len(<<>>) = 0
  OBVIOUS
<1>2. PICK f : Chain({}, <<>>, f) /\ Flattened(<<>>) = f[Len(<<>>)]
  BY Zenon, <1>1, FlattenChain
<1> QED
  BY Zenon, <1>1, <1>2 DEF Chain

\* A longer sequence begins with the shorter one.
LEMMA AppendAgrees ==
  ASSUME NEW S, NEW s \in Seq(S), NEW x \in S
  PROVE  Agree(s, Append(s, x), Len(s))
  BY DEF Agree

\* An output more at the end.
LEMMA FlattenAppend ==
  ASSUME NEW S, NEW s \in Seq(Seq(S)), NEW x \in Seq(S)
  PROVE  Flattened(Append(s, x)) = Flattened(s) \o x
<1> DEFINE t == Append(s, x)
           n == Len(s)
<1>1. n \in Nat /\ Len(t) = n + 1 /\ t[n + 1] = x /\ t \in Seq(Seq(S))
  OBVIOUS
<1>2. Agree(s, t, n)
  BY Zenon, AppendAgrees
<1> HIDE DEF t
<1>3. PICK f : Chain(S, s, f) /\ Flattened(s) = f[n]
  BY Zenon, FlattenChain
<1>4. PICK g : Chain(S, t, g) /\ Flattened(t) = g[n + 1]
  BY Zenon, <1>1, FlattenChain
<1>5. Links(f, s, n)
  BY Zenon, <1>3 DEF Chain, Links
<1> HIDE DEF n
<1>6. g[0] = <<>> /\ \A k \in 1..(n + 1) : g[k] = g[k - 1] \o t[k]
  BY Zenon, <1>1, <1>4 DEF Chain
<1>7. n + 1 \in 1..(n + 1) /\ (n + 1) - 1 = n /\ \A k \in 1..n : k \in 1..(n + 1)
  BY <1>1
<1>8. f[n] = g[n]
  <2>1. Links(g, t, n)
    BY Zenon, <1>6, <1>7 DEF Links
  <2>2. SameLinks(n, s, t, f, g)
    BY Zenon, <1>2, <1>5, <2>1 DEF SameLinks
  <2>3. n \in Nat
    BY Zenon, <1>1
  <2> QED
    BY Zenon, <2>2, <2>3, ChainsAgree
<1>9. g[n + 1] = g[n] \o x
  BY Zenon, <1>1, <1>6, <1>7
<1> QED
  BY Zenon, <1>3, <1>4, <1>8, <1>9 DEF t

-----------------------------------------------------------------------------
(* The calls and their numbers.                                             *)

\* A sequence, whatever its elements are.
IsSeq(s) == Len(s) \in Nat /\ s = [i \in 1..Len(s) |-> s[i]]

\* t is s with x at its end.
Longer(t, s, x) ==
  /\ IsSeq(s) /\ IsSeq(t) /\ Len(t) = Len(s) + 1
  /\ \A i \in 1..Len(s) : t[i] = s[i]
  /\ t[Len(s) + 1] = x

\* The history has one call more.
LEMMA AppendTo ==
  ASSUME NEW s, IsSeq(s), NEW x
  PROVE  Longer(Append(s, x), s, x)
<1> DEFINE S == {s[i] : i \in 1..Len(s)} \cup {x}
<1>1. s \in Seq(S) /\ x \in S
  <2>1. s \in [1..Len(s) -> S] /\ Len(s) \in Nat
    BY Zenon DEF IsSeq
  <2> QED
    BY <2>1
<1> HIDE DEF S
<1>2. /\ Append(s, x) \in Seq(S) /\ Len(s) \in Nat /\ Len(Append(s, x)) = Len(s) + 1
      /\ \A i \in 1..Len(s) : Append(s, x)[i] = s[i]
      /\ Append(s, x)[Len(s) + 1] = x
  BY <1>1
<1>3. IsSeq(Append(s, x))
  <2> DEFINE q == Append(s, x)
  <2>1. q \in Seq(S)
    BY Zenon, <1>2
  <2> HIDE DEF q
  <2>2. Len(q) \in Nat /\ q \in [1..Len(q) -> S]
    BY <2>1
  <2>3. IsSeq(q)
    BY Zenon, <2>2 DEF IsSeq
  <2> QED
    BY Zenon, <2>3 DEF q
<1> QED
  BY Zenon, <1>2, <1>3 DEF Longer

\* set_event_value on one field.
LEMMA PutField ==
  ASSUME NEW e, NEW f, NEW v
  PROVE  /\ DOMAIN Put(e, f, v) = {f} \cup DOMAIN e
         /\ Put(e, f, v)[f] = v
         /\ \A g \in DOMAIN e : g # f => Put(e, f, v)[g] = e[g]
  BY Zenon DEF Put

\* A thread in the closure has an event with a number.
Proper(l) == {"at", "e"} \subseteq DOMAIN l /\ l.at # "idle" /\ "id" \in DOMAIN l.e

Busy == {t \in Threads : loc[t] # Idle}

Base ==
  /\ kind \in Kinds /\ unix \in 0..LastTime /\ IsSeq(calls)
  /\ loc = [t \in Threads |-> loc[t]]
  /\ \A t \in Threads : loc[t] = Idle \/ Proper(loc[t])
  /\ kind \in Locked => \A t \in Threads : loc[t] = Idle

\* What a step does to the history and to the thread that takes it.
Begins(t) ==
  /\ loc[t] = Idle /\ kind \notin Locked /\ Begun < MaxSteps /\ calls' = calls
  /\ \E l : Proper(l) /\ l.e.id = Begun + 1 /\ loc' = [loc EXCEPT ![t] = l]
Stays(t) ==
  /\ loc[t] # Idle /\ calls' = calls
  /\ \E l : Proper(l) /\ l.e.id = loc[t].e.id /\ loc' = [loc EXCEPT ![t] = l]
Leaves(t) ==
  /\ loc[t] # Idle /\ loc' = [loc EXCEPT ![t] = Idle]
  /\ \E c : c.e = loc[t].e /\ calls' = Append(calls, c)

\* A thread that has an event is not idle.
LEMMA ProperIsBusy == ASSUME NEW l, Proper(l) PROVE l # Idle
  BY DEF Proper, Idle

\* The thread is in the closure.
LEMMA AtIsBusy ==
  ASSUME Base, NEW t \in Threads, NEW p, At(t, p), p # "idle"
  PROVE  loc[t] # Idle /\ Proper(loc[t])
<1>1. Idle.at = "idle"
  BY DEF Idle
<1> QED
  BY Zenon, <1>1 DEF Base, At

\* A call begins.
LEMMA Entering ==
  ASSUME Base, NEW t \in Threads, NEW k, NEW p, Enter(t, k, p), p # "idle", k \notin Locked
  PROVE  Begins(t)
<1>1. PICK e \in NewEvents : loc' = [loc EXCEPT ![t] = [at |-> p, e |-> e]]
  BY Zenon DEF Enter
<1>2. "id" \in DOMAIN e /\ e.id = Begun + 1
  <2>1. PICK x \in EventsOf(kind) : e = Put(x, "id", Begun + 1)
    BY Zenon, <1>1 DEF NewEvents
  <2> QED
    BY <2>1 DEF Put
<1> DEFINE l == [at |-> p, e |-> e]
<1>3. "at" \in DOMAIN l /\ "e" \in DOMAIN l /\ l.at = p /\ l.e = e
  OBVIOUS
<1> HIDE DEF l
<1>4. Proper(l) /\ l.e.id = Begun + 1
  BY <1>2, <1>3 DEF Proper
<1>5. loc' = [loc EXCEPT ![t] = l]
  BY Zenon, <1>1 DEF l
<1> QED
  BY Zenon, <1>4, <1>5 DEF Begins, Enter

\* A thread goes on with its event and new locals.
LEMMA Staying ==
  ASSUME Base, NEW t \in Threads, NEW p, At(t, p), p # "idle", calls' = calls,
         NEW l, loc' = [loc EXCEPT ![t] = l],
         "at" \in DOMAIN l, "e" \in DOMAIN l, l.at # "idle", l.e = loc[t].e
  PROVE  Stays(t)
<1>1. loc[t] # Idle /\ Proper(loc[t])
  BY Zenon, AtIsBusy
<1>2. Proper(l) /\ l.e.id = loc[t].e.id
  BY <1>1 DEF Proper
<1> QED
  BY Zenon, <1>1, <1>2 DEF Stays

\* A thread goes on with its locals.
LEMMA GoingTo ==
  ASSUME Base, NEW t \in Threads, NEW p, At(t, p), p # "idle", calls' = calls,
         NEW q, Goto(t, q), q # "idle"
  PROVE  Stays(t)
<1> DEFINE l == [loc[t] EXCEPT !.at = q]
<1>1. Proper(loc[t])
  BY Zenon, AtIsBusy
<1>2. "at" \in DOMAIN loc[t] /\ "e" \in DOMAIN loc[t]
  BY <1>1 DEF Proper
<1>3. "at" \in DOMAIN l /\ "e" \in DOMAIN l /\ l.at = q /\ l.e = loc[t].e
  BY <1>2
<1>4. loc' = [loc EXCEPT ![t] = l]
  BY Zenon DEF Goto
<1> HIDE DEF l
<1> QED
  BY Zenon, <1>3, <1>4, Staying

\* A call returns.
LEMMA Leaving ==
  ASSUME Base, NEW t \in Threads, NEW p, At(t, p), p # "idle", NEW out, Leave(t, out)
  PROVE  Leaves(t)
<1>1. loc[t] # Idle
  BY Zenon, AtIsBusy
<1> DEFINE c == [e |-> loc[t].e, unix |-> unix, out |-> out]
<1>2. c.e = loc[t].e
  OBVIOUS
<1>3. calls' = Append(calls, c) /\ loc' = [loc EXCEPT ![t] = Idle]
  BY Zenon DEF Leave, Record
<1> HIDE DEF c
<1> QED
  BY Zenon, <1>1, <1>2, <1>3 DEF Leaves

\* A step of a thread in a closure is the beginning, a part or the end of a call.
LEMMA Interleaving ==
  ASSUME Base, NEW t \in Threads, Interleaved(t)
  PROVE  (Begins(t) \/ Stays(t) \/ Leaves(t)) /\ UNCHANGED <<kind, unix>>
<1>1. CASE \/ Enter(t, "rate", "load") \/ Enter(t, "ddt", "metric")
           \/ Enter(t, "percentiles", "index") \/ Enter(t, "stable_metric", "label")
           \/ Enter(t, "targets", "pagerduty")
  <2>1. "rate" \notin Locked /\ "ddt" \notin Locked /\ "percentiles" \notin Locked
        /\ "stable_metric" \notin Locked /\ "targets" \notin Locked
    BY DEF Locked
  <2>2. Begins(t)
    BY Zenon, <1>1, <2>1, Entering
  <2>3. UNCHANGED <<kind, unix>>
    BY Zenon, <1>1 DEF Enter
  <2> QED
    BY Zenon, <2>2, <2>3
<1>2. CASE RateLoad(t)
  <2> DEFINE l == [at |-> "cas", e |-> loc[t].e, expected |-> st.rate]
  <2>1. At(t, "load") /\ calls' = calls /\ loc' = [loc EXCEPT ![t] = l] /\ UNCHANGED <<kind, unix>>
    BY Zenon, <1>2 DEF RateLoad
  <2>2. "at" \in DOMAIN l /\ "e" \in DOMAIN l /\ l.at # "idle" /\ l.e = loc[t].e
    OBVIOUS
  <2> HIDE DEF l
  <2>3. Stays(t)
    BY Zenon, <2>1, <2>2, Staying
  <2> QED
    BY Zenon, <2>1, <2>3
<1>3. CASE RateCas(t)
  <2>1. At(t, "cas") /\ UNCHANGED <<kind, unix>>
    BY Zenon, <1>3 DEF RateCas
  <2>2. CASE st.rate = loc[t].expected
    <3>1. Leave(t, <<>>)
      BY Zenon, <1>3, <2>2 DEF RateCas
    <3>2. Leaves(t)
      BY Zenon, <2>1, <3>1, Leaving
    <3> QED
      BY Zenon, <2>1, <3>2
  <2>3. CASE st.rate # loc[t].expected
    <3> DEFINE l == [at |-> "load", e |-> loc[t].e]
    <3>1. calls' = calls /\ loc' = [loc EXCEPT ![t] = l]
      BY Zenon, <1>3, <2>3 DEF RateCas
    <3>2. "at" \in DOMAIN l /\ "e" \in DOMAIN l /\ l.at # "idle" /\ l.e = loc[t].e
      OBVIOUS
    <3> HIDE DEF l
    <3>3. Stays(t)
      BY Zenon, <2>1, <3>1, <3>2, Staying
    <3> QED
      BY Zenon, <2>1, <3>3
  <2> QED
    BY Zenon, <2>2, <2>3
<1>4. CASE DdtReadMetric(t)
  <2> DEFINE l == [at |-> "time", e |-> loc[t].e, metric |-> st.metric,
                   alone |-> Alone(t), after |-> Len(calls)]
  <2>1. At(t, "metric") /\ calls' = calls /\ loc' = [loc EXCEPT ![t] = l] /\ UNCHANGED <<kind, unix>>
    BY Zenon, <1>4 DEF DdtReadMetric
  <2>2. "at" \in DOMAIN l /\ "e" \in DOMAIN l /\ l.at # "idle" /\ l.e = loc[t].e
    OBVIOUS
  <2> HIDE DEF l
  <2>3. Stays(t)
    BY Zenon, <2>1, <2>2, Staying
  <2> QED
    BY Zenon, <2>1, <2>3
<1>5. CASE DdtReadTime(t)
  <2> DEFINE l == [at |-> "write", e |-> loc[t].e, metric |-> loc[t].metric,
                   alone |-> loc[t].alone, after |-> loc[t].after, time |-> st.time]
  <2>1. At(t, "time") /\ calls' = calls /\ loc' = [loc EXCEPT ![t] = l] /\ UNCHANGED <<kind, unix>>
    BY Zenon, <1>5 DEF DdtReadTime
  <2>2. "at" \in DOMAIN l /\ "e" \in DOMAIN l /\ l.at # "idle" /\ l.e = loc[t].e
    OBVIOUS
  <2> HIDE DEF l
  <2>3. Stays(t)
    BY Zenon, <2>1, <2>2, Staying
  <2> QED
    BY Zenon, <2>1, <2>3
<1>6. CASE DdtWriteMetric(t)
  <2>1. At(t, "write") /\ calls' = calls /\ Goto(t, "write_time") /\ UNCHANGED <<kind, unix>>
    BY Zenon, <1>6 DEF DdtWriteMetric
  <2>2. Stays(t)
    BY Zenon, <2>1, GoingTo
  <2> QED
    BY Zenon, <2>1, <2>2
<1>7. CASE DdtWriteTime(t)
  <2>1. At(t, "write_time") /\ calls' = calls /\ Goto(t, "decide") /\ UNCHANGED <<kind, unix>>
    BY Zenon, <1>7 DEF DdtWriteTime
  <2>2. Stays(t)
    BY Zenon, <2>1, GoingTo
  <2> QED
    BY Zenon, <2>1, <2>2
<1>8. CASE DdtDecide(t)
  <2>1. At(t, "decide") /\ loc' = [loc EXCEPT ![t] = Idle] /\ UNCHANGED <<kind, unix>>
    BY Zenon, <1>8 DEF DdtDecide
  <2>2. \E out, alone : calls' = Append(calls, [e |-> loc[t].e, unix |-> unix, out |-> out, alone |-> alone])
    BY Zenon, <1>8 DEF DdtDecide
  <2>3. PICK out, alone : calls' = Append(calls, [e |-> loc[t].e, unix |-> unix, out |-> out, alone |-> alone])
    BY Zenon, <2>2
  <2> DEFINE c == [e |-> loc[t].e, unix |-> unix, out |-> out, alone |-> alone]
  <2>4. c.e = loc[t].e
    OBVIOUS
  <2>5. calls' = Append(calls, c)
    BY Zenon, <2>3
  <2> HIDE DEF c
  <2>6. loc[t] # Idle
    BY Zenon, <2>1, AtIsBusy
  <2> QED
    BY Zenon, <2>1, <2>4, <2>5, <2>6 DEF Leaves
<1>9. CASE SampleIndex(t)
  <2> DEFINE at == IF st.n < N THEN "store" ELSE "draw"
             l == [at |-> at, e |-> loc[t].e, idx |-> st.n, full |-> st.n >= N]
  <2>1. At(t, "index") /\ calls' = calls /\ loc' = [loc EXCEPT ![t] = l] /\ UNCHANGED <<kind, unix>>
    BY Zenon, <1>9 DEF SampleIndex
  <2>2. "at" \in DOMAIN l /\ "e" \in DOMAIN l /\ l.at = at /\ l.e = loc[t].e
    OBVIOUS
  <2>3. at # "idle"
    OBVIOUS
  <2> HIDE DEF at, l
  <2>4. Stays(t)
    BY Zenon, <2>1, <2>2, <2>3, Staying
  <2> QED
    BY Zenon, <2>1, <2>4
<1>10. CASE SampleDraw(t)
  <2>1. /\ At(t, "draw") /\ calls' = calls /\ UNCHANGED <<kind, unix>>
        /\ \E i : loc' = [loc EXCEPT ![t].at = IF i < N THEN "store" ELSE "recount", ![t].idx = i]
    BY Zenon, <1>10 DEF SampleDraw
  <2>2. PICK i : loc' = [loc EXCEPT ![t].at = IF i < N THEN "store" ELSE "recount", ![t].idx = i]
    BY Zenon, <2>1
  <2> DEFINE at == IF i < N THEN "store" ELSE "recount"
             l == [loc[t] EXCEPT !.at = at, !.idx = i]
  <2>3. "at" \in DOMAIN loc[t] /\ "e" \in DOMAIN loc[t]
    BY Zenon, <2>1, AtIsBusy DEF Proper
  <2>4. at # "idle"
    OBVIOUS
  <2>5. "at" \in DOMAIN l /\ "e" \in DOMAIN l /\ l.at = at /\ l.e = loc[t].e
    BY <2>3
  <2>6. loc' = [loc EXCEPT ![t] = l]
    BY Zenon, <2>2
  <2> HIDE DEF at, l
  <2>7. Stays(t)
    BY Zenon, <2>1, <2>4, <2>5, <2>6, Staying
  <2> QED
    BY Zenon, <2>1, <2>7
<1>11. CASE SampleStore(t)
  <2> DEFINE at == IF loc[t].full THEN "recount" ELSE "exchange"
  <2>1. At(t, "store") /\ calls' = calls /\ Goto(t, at) /\ UNCHANGED <<kind, unix>>
    BY Zenon, <1>11 DEF SampleStore
  <2>2. at # "idle"
    OBVIOUS
  <2> HIDE DEF at
  <2>3. Stays(t)
    BY Zenon, <2>1, <2>2, GoingTo
  <2> QED
    BY Zenon, <2>1, <2>3
<1>12. CASE SampleRecount(t)
  <2>1. At(t, "recount") /\ calls' = calls /\ Goto(t, "exchange") /\ UNCHANGED <<kind, unix>>
    BY Zenon, <1>12 DEF SampleRecount
  <2>2. Stays(t)
    BY Zenon, <2>1, GoingTo
  <2> QED
    BY Zenon, <2>1, <2>2
<1>13. CASE SampleExchange(t)
  <2>1. /\ At(t, "exchange") /\ UNCHANGED <<kind, unix>>
        /\ Leave(t, <<>>) \/ (Goto(t, "event") /\ calls' = calls)
    BY Zenon, <1>13 DEF SampleExchange
  <2>2. Leaves(t) \/ Stays(t)
    BY Zenon, <2>1, Leaving, GoingTo
  <2> QED
    BY Zenon, <2>1, <2>2
<1>14. CASE SampleEvent(t)
  <2>1. At(t, "event") /\ Leave(t, <<>>) /\ UNCHANGED <<kind, unix>>
    BY Zenon, <1>14 DEF SampleEvent
  <2>2. Leaves(t)
    BY Zenon, <2>1, Leaving
  <2> QED
    BY Zenon, <2>1, <2>2
<1>15. CASE MetricLabel(t)
  <2>1. At(t, "label") /\ calls' = calls /\ UNCHANGED <<kind, unix>>
    BY Zenon, <1>15 DEF MetricLabel
  <2>2. \E v : loc' = [loc EXCEPT ![t] = [at |-> "stable", e |-> Put(loc[t].e, "state", v)]]
    BY Zenon, <1>15 DEF MetricLabel, StableMetricLabel, SetCriticalPredicate
  <2>3. PICK v : loc' = [loc EXCEPT ![t] = [at |-> "stable", e |-> Put(loc[t].e, "state", v)]]
    BY Zenon, <2>2
  <2> DEFINE d == Put(loc[t].e, "state", v)
             l == [at |-> "stable", e |-> d]
  <2>4. "at" \in DOMAIN l /\ "e" \in DOMAIN l /\ l.at # "idle" /\ l.e = d
    OBVIOUS
  <2>5. loc[t] # Idle /\ "id" \in DOMAIN loc[t].e
    BY Zenon, <2>1, AtIsBusy DEF Proper
  <2>6. "id" \in DOMAIN d /\ d.id = loc[t].e.id
    BY <2>5 DEF Put
  <2>7. loc' = [loc EXCEPT ![t] = l]
    BY Zenon, <2>3
  <2> HIDE DEF d, l
  <2>8. Proper(l) /\ l.e.id = loc[t].e.id
    BY <2>4, <2>6 DEF Proper
  <2> QED
    BY Zenon, <2>1, <2>5, <2>7, <2>8 DEF Stays
<1>16. CASE MetricStable(t)
  <2> DEFINE l == [at |-> "store_ok", e |-> loc[t].e, out |-> Stable(DT, st.stable, loc[t].e).out]
  <2>1. At(t, "stable") /\ calls' = calls /\ loc' = [loc EXCEPT ![t] = l] /\ UNCHANGED <<kind, unix>>
    BY Zenon, <1>16 DEF MetricStable
  <2>2. "at" \in DOMAIN l /\ "e" \in DOMAIN l /\ l.at # "idle" /\ l.e = loc[t].e
    OBVIOUS
  <2> HIDE DEF l
  <2>3. Stays(t)
    BY Zenon, <2>1, <2>2, Staying
  <2> QED
    BY Zenon, <2>1, <2>3
<1>17. CASE MetricStore(t)
  <2>1. At(t, "store_ok") /\ Leave(t, loc[t].out) /\ UNCHANGED <<kind, unix>>
    BY Zenon, <1>17 DEF MetricStore
  <2>2. Leaves(t)
    BY Zenon, <2>1, Leaving
  <2> QED
    BY Zenon, <2>1, <2>2
<1>18. CASE TargetChanged(t, "pagerduty", "alert", "email")
  <2>1. /\ At(t, "pagerduty") /\ calls' = calls /\ UNCHANGED <<kind, unix>>
        /\ Goto(t, "alert") \/ Goto(t, "email")
    BY Zenon, <1>18 DEF TargetChanged
  <2>2. Stays(t)
    BY Zenon, <2>1, GoingTo
  <2> QED
    BY Zenon, <2>1, <2>2
<1>19. CASE TargetSend(t, "pagerduty", "alert", "email")
  <2>1. At(t, "alert") /\ calls' = calls /\ Goto(t, "email") /\ UNCHANGED <<kind, unix>>
    BY Zenon, <1>19 DEF TargetSend
  <2>2. Stays(t)
    BY Zenon, <2>1, GoingTo
  <2> QED
    BY Zenon, <2>1, <2>2
<1>20. CASE TargetChanged(t, "email", "mail", "to_index")
  <2>1. /\ At(t, "email") /\ calls' = calls /\ UNCHANGED <<kind, unix>>
        /\ Goto(t, "mail") \/ Goto(t, "to_index")
    BY Zenon, <1>20 DEF TargetChanged
  <2>2. Stays(t)
    BY Zenon, <2>1, GoingTo
  <2> QED
    BY Zenon, <2>1, <2>2
<1>21. CASE TargetSend(t, "email", "mail", "to_index")
  <2>1. At(t, "mail") /\ calls' = calls /\ Goto(t, "to_index") /\ UNCHANGED <<kind, unix>>
    BY Zenon, <1>21 DEF TargetSend
  <2>2. Stays(t)
    BY Zenon, <2>1, GoingTo
  <2> QED
    BY Zenon, <2>1, <2>2
<1>22. CASE TargetIndex(t)
  <2>1. At(t, "to_index") /\ Leave(t, <<>>) /\ UNCHANGED <<kind, unix>>
    BY Zenon, <1>22 DEF TargetIndex
  <2>2. Leaves(t)
    BY Zenon, <2>1, Leaving
  <2> QED
    BY Zenon, <2>1, <2>2
<1> QED
  BY Zenon, <1>1, <1>2, <1>3, <1>4, <1>5, <1>6, <1>7, <1>8, <1>9, <1>10, <1>11, <1>12, <1>13,
     <1>14, <1>15, <1>16, <1>17, <1>18, <1>19, <1>20, <1>21, <1>22 DEF Interleaved

\* The calls have numbers of their own, up to the number of calls begun.
Numbers ==
  /\ Begun <= (IF kind \in Locked THEN MaxCalls ELSE MaxSteps)
  /\ \A i \in 1..K : Input(i).id \in 1..Begun
  /\ \A t \in Busy : loc[t].e.id \in 1..Begun
  /\ \A i \in 1..K : \A j \in 1..K : Input(i).id = Input(j).id => i = j
  /\ \A t \in Busy : \A i \in 1..K : Input(i).id # loc[t].e.id
  /\ \A t, u \in Busy : loc[t].e.id = loc[u].e.id => t = u

\* The threads that are busy can be counted.
LEMMA BusyFinite ==
  /\ IsFiniteSet(Busy) /\ Cardinality(Busy) \in Nat
  /\ IsFiniteSet(Busy)' /\ Cardinality(Busy') \in Nat
<1>1. Busy \subseteq Threads /\ Busy' \subseteq Threads
  BY Zenon DEF Busy
<1> QED
  BY Zenon, <1>1, StreamAssumption, FS_Subset, FS_CardinalityType

\* The calls begun are those that returned and those that run.
LEMMA BegunSum == Begun = K + Cardinality(Busy) /\ Begun' = K' + Cardinality(Busy')
  BY Zenon DEF Begun, K, Busy

\* One thread moves.
LEMMA OneMoves ==
  ASSUME Base, NEW t \in Threads, NEW l, loc' = [loc EXCEPT ![t] = l]
  PROVE  /\ loc' = [u \in Threads |-> loc'[u]] /\ loc'[t] = l
         /\ \A u \in Threads : u # t => loc'[u] = loc[u]
         /\ l = Idle => Busy' = Busy \ {t}
         /\ l # Idle => Busy' = Busy \cup {t}
<1>1. loc' = [u \in Threads |-> loc'[u]] /\ loc'[t] = l
      /\ \A u \in Threads : u # t => loc'[u] = loc[u]
  <2>1. DOMAIN loc = Threads
    BY Zenon DEF Base
  <2> QED
    BY Zenon, <2>1
<1> QED
  BY Zenon, <1>1 DEF Busy

\* The numbering of the events survives the beginning of a call.
LEMMA BeginKeeps ==
  ASSUME Base, Numbers, NEW t \in Threads, Begins(t), UNCHANGED <<kind, unix>>
  PROVE  Base' /\ Numbers'
<1>1. PICK l : Proper(l) /\ l.e.id = Begun + 1 /\ loc' = [loc EXCEPT ![t] = l]
  BY Zenon DEF Begins
<1>2. l # Idle
  BY Zenon, <1>1, ProperIsBusy
<1>3. /\ loc' = [u \in Threads |-> loc'[u]] /\ loc'[t] = l
      /\ \A u \in Threads : u # t => loc'[u] = loc[u]
      /\ Busy' = Busy \cup {t} /\ t \notin Busy
  <2>1. t \notin Busy
    BY Zenon DEF Busy, Begins
  <2> QED
    BY Zenon, <1>1, <1>2, <2>1, OneMoves
<1>4. calls' = calls /\ kind \notin Locked /\ Begun < MaxSteps
  BY Zenon DEF Begins
<1>5. Base'
  BY Zenon, <1>1, <1>3, <1>4 DEF Base
<1>6. Begun' = Begun + 1 /\ Begun \in Nat /\ K \in Nat /\ K' = K /\ MaxSteps \in Nat
  <2>1. Cardinality(Busy') = Cardinality(Busy) + 1
    BY Zenon, <1>3, BusyFinite, FS_AddElement
  <2>2. K' = K /\ K \in Nat
    BY Zenon, <1>4 DEF K, Base, IsSeq
  <2> QED
    BY <2>1, <2>2, BusyFinite, BegunSum, StreamAssumption
<1>7. \A i \in 1..K : Input(i)' = Input(i)
  BY Zenon, <1>4 DEF Input
<1>8. \A u \in Busy : loc'[u] = loc[u]
  BY Zenon, <1>3 DEF Busy
<1>9. \A n \in 1..Begun : n \in 1..Begun' /\ n # Begun + 1
  BY <1>6
<1>10. Begun + 1 \in 1..Begun'
  BY <1>6
<1>11. Begun' <= (IF kind' \in Locked THEN MaxCalls ELSE MaxSteps)
  <2>1. kind' \notin Locked
    BY Zenon, <1>4
  <2> QED
    BY <1>4, <1>6, <2>1
<1>12. /\ \A i \in 1..K' : Input(i)'.id \in 1..Begun'
       /\ \A i \in 1..K' : \A j \in 1..K' : Input(i)'.id = Input(j)'.id => i = j
  BY Zenon, <1>6, <1>7, <1>9 DEF Numbers
<1>13. \A u \in Busy' : loc'[u].e.id \in 1..Begun'
  BY Zenon, <1>1, <1>3, <1>8, <1>9, <1>10 DEF Numbers
<1>14. ASSUME NEW u \in Busy', NEW i \in 1..K' PROVE Input(i)'.id # loc'[u].e.id
  <2>1. i \in 1..K /\ Input(i)' = Input(i) /\ Input(i).id \in 1..Begun
    BY Zenon, <1>6, <1>7, <1>14 DEF Numbers
  <2>2. CASE u = t
    BY Zenon, <1>1, <1>3, <1>9, <2>1, <2>2
  <2>3. CASE u # t
    BY Zenon, <1>3, <1>8, <2>1, <2>3 DEF Numbers
  <2> QED
    BY Zenon, <2>2, <2>3
<1>15. ASSUME NEW u \in Busy', NEW v \in Busy', loc'[u].e.id = loc'[v].e.id PROVE u = v
  <2>1. \A w \in Busy' : w = t \/ (w \in Busy /\ loc'[w].e.id \in 1..Begun)
    BY Zenon, <1>3, <1>8 DEF Numbers
  <2>2. CASE u = t \/ v = t
    BY Zenon, <1>1, <1>3, <1>9, <1>15, <2>1, <2>2
  <2>3. CASE u # t /\ v # t
    BY Zenon, <1>8, <1>15, <2>1, <2>3 DEF Numbers
  <2> QED
    BY Zenon, <2>2, <2>3
<1> QED
  BY Zenon, <1>5, <1>11, <1>12, <1>13, <1>14, <1>15 DEF Numbers

\* It survives a step inside a call.
LEMMA StayKeeps ==
  ASSUME Base, Numbers, NEW t \in Threads, Stays(t), UNCHANGED <<kind, unix>>
  PROVE  Base' /\ Numbers'
<1>1. PICK l : Proper(l) /\ l.e.id = loc[t].e.id /\ loc' = [loc EXCEPT ![t] = l]
  BY Zenon DEF Stays
<1>2. l # Idle /\ t \in Busy
  BY Zenon, <1>1, ProperIsBusy DEF Stays, Busy
<1>3. /\ loc' = [u \in Threads |-> loc'[u]] /\ loc'[t] = l
      /\ \A u \in Threads : u # t => loc'[u] = loc[u]
      /\ Busy' = Busy
  <2>1. Busy \cup {t} = Busy
    BY Zenon, <1>2
  <2> QED
    BY Zenon, <1>1, <1>2, <2>1, OneMoves
<1>4. calls' = calls /\ kind \notin Locked
  BY Zenon, <1>2 DEF Stays, Base, Busy
<1>5. Base'
  BY Zenon, <1>1, <1>3, <1>4 DEF Base
<1>6. Begun' = Begun /\ K' = K /\ \A i \in 1..K : Input(i)' = Input(i)
  BY Zenon, <1>3, <1>4, BegunSum DEF K, Input
<1>7. \A u \in Busy : loc'[u].e.id = loc[u].e.id
  BY Zenon, <1>1, <1>3 DEF Busy
<1>8. Begun' <= (IF kind' \in Locked THEN MaxCalls ELSE MaxSteps)
  BY Zenon, <1>6 DEF Numbers
<1>9. /\ \A i \in 1..K' : Input(i)'.id \in 1..Begun'
      /\ \A i \in 1..K' : \A j \in 1..K' : Input(i)'.id = Input(j)'.id => i = j
  BY Zenon, <1>6 DEF Numbers
<1>10. \A u \in Busy' : loc'[u].e.id \in 1..Begun'
  BY Zenon, <1>3, <1>6, <1>7 DEF Numbers
<1>11. ASSUME NEW u \in Busy', NEW i \in 1..K' PROVE Input(i)'.id # loc'[u].e.id
  <2>1. u \in Busy /\ i \in 1..K /\ Input(i)' = Input(i) /\ loc'[u].e.id = loc[u].e.id
    BY Zenon, <1>3, <1>6, <1>7, <1>11
  <2>2. Input(i).id # loc[u].e.id
    BY Zenon, <2>1 DEF Numbers
  <2> QED
    BY Zenon, <2>1, <2>2
<1>12. ASSUME NEW u \in Busy', NEW v \in Busy', loc'[u].e.id = loc'[v].e.id PROVE u = v
  <2>1. u \in Busy /\ v \in Busy /\ loc[u].e.id = loc[v].e.id
    BY Zenon, <1>3, <1>7, <1>12
  <2> QED
    BY Zenon, <2>1 DEF Numbers
<1> QED
  BY Zenon, <1>5, <1>8, <1>9, <1>10, <1>11, <1>12 DEF Numbers

\* It survives the return of a call.
LEMMA LeaveKeeps ==
  ASSUME Base, Numbers, NEW t \in Threads, Leaves(t), UNCHANGED <<kind, unix>>
  PROVE  Base' /\ Numbers'
<1>1. PICK c : c.e = loc[t].e /\ calls' = Append(calls, c)
  BY Zenon DEF Leaves
<1>2. t \in Busy /\ kind \notin Locked /\ loc' = [loc EXCEPT ![t] = Idle]
  BY Zenon DEF Leaves, Base, Busy
<1>3. /\ loc' = [u \in Threads |-> loc'[u]] /\ loc'[t] = Idle
      /\ \A u \in Threads : u # t => loc'[u] = loc[u]
      /\ Busy' = Busy \ {t}
  BY Zenon, <1>2, OneMoves
<1>4. /\ IsSeq(calls') /\ Len(calls') = Len(calls) + 1
      /\ \A i \in 1..Len(calls) : calls'[i] = calls[i]
      /\ calls'[Len(calls) + 1] = c
  <2>1. IsSeq(calls)
    BY Zenon DEF Base
  <2>2. Longer(Append(calls, c), calls, c)
    BY Zenon, <2>1, AppendTo
  <2> QED
    BY Zenon, <1>1, <2>2 DEF Longer
<1>5. Base'
  BY Zenon, <1>2, <1>3, <1>4 DEF Base
<1>6. Begun' = Begun /\ Begun \in Nat /\ K \in Nat /\ K' = K + 1
  <2>1. Cardinality(Busy') = Cardinality(Busy) - 1
    BY Zenon, <1>2, <1>3, BusyFinite, FS_RemoveElement
  <2>2. K' = K + 1 /\ K \in Nat
    BY Zenon, <1>4 DEF K, Base, IsSeq
  <2> QED
    BY <2>1, <2>2, BusyFinite, BegunSum
<1>a. PICK last : last = K + 1
  BY Zenon
<1>7. Input(last)' = loc[t].e /\ \A i \in 1..K : Input(i)' = Input(i)
  BY Zenon, <1>1, <1>4, <1>a DEF Input, K
<1>8. \A i \in 1..K' : i \in 1..K \/ i = last
  BY <1>6, <1>a
<1>9. \A u \in Busy' : loc'[u] = loc[u] /\ u \in Busy /\ u # t
  BY Zenon, <1>3 DEF Busy
<1>10. \A i \in 1..K' : Input(i)'.id \in 1..Begun'
  BY Zenon, <1>2, <1>6, <1>7, <1>8 DEF Numbers
<1>11. \A i \in 1..K' : \A j \in 1..K' : Input(i)'.id = Input(j)'.id => i = j
  BY Zenon, <1>2, <1>7, <1>8 DEF Numbers
<1>12. \A u \in Busy' : loc'[u].e.id \in 1..Begun'
  BY Zenon, <1>6, <1>9 DEF Numbers
<1>13. ASSUME NEW u \in Busy', NEW i \in 1..K' PROVE Input(i)'.id # loc'[u].e.id
  <2>1. loc'[u] = loc[u] /\ u \in Busy /\ u # t /\ (i \in 1..K \/ i = last)
    BY Zenon, <1>8, <1>9, <1>13
  <2>2. CASE i = last
    BY Zenon, <1>2, <1>7, <2>1, <2>2 DEF Numbers
  <2>3. CASE i \in 1..K
    BY Zenon, <1>7, <2>1, <2>3 DEF Numbers
  <2> QED
    BY Zenon, <2>1, <2>2, <2>3
<1>14. \A u, v \in Busy' : loc'[u].e.id = loc'[v].e.id => u = v
  BY Zenon, <1>9 DEF Numbers
<1>15. Begun' <= (IF kind' \in Locked THEN MaxCalls ELSE MaxSteps)
  BY Zenon, <1>6 DEF Numbers
<1> QED
  BY Zenon, <1>5, <1>10, <1>11, <1>12, <1>13, <1>14, <1>15 DEF Numbers

\* The events of a function that holds its mutex are those it is called with.
EventSetOf(k) == UNION {{Put(e, "id", n) : e \in EventsOf(k)} : n \in Nat}
EventSet == EventSetOf(kind)
Fed == kind \in Locked => \A i \in 1..K : Input(i) \in EventSet

\* The events of a function do not change.
LEMMA EventsStay ==
  ASSUME kind' = kind
  PROVE  EventSet' = EventSet
  BY Zenon DEF EventSet

\* One more call has returned.
Returned(e, out) ==
  /\ K' = K + 1 /\ \A i \in 1..K : calls'[i] = calls[i]
  /\ calls'[K + 1] = [e |-> e, unix |-> unix, out |-> out]
Called(e) ==
  /\ e \in EventSet /\ e.id = K + 1 /\ kind \in Locked
  /\ st' = Apply(kind, st, e).st /\ Returned(e, Apply(kind, st, e).out)

\* Without running calls, the calls begun are those that returned.
LEMMA IdleBegun ==
  ASSUME Base, kind \in Locked
  PROVE  Busy = {} /\ Begun = K /\ K \in Nat
<1>1. Busy = {}
  BY Zenon DEF Base, Busy
<1>2. Cardinality(Busy) = 0
  BY Zenon, <1>1, FS_EmptySet
<1>3. K \in Nat
  BY Zenon DEF Base, IsSeq, K
<1> QED
  BY <1>1, <1>2, <1>3, BegunSum

\* The same after the step.
LEMMA IdleBegunNext ==
  ASSUME Base', kind' \in Locked
  PROVE  Busy' = {} /\ Begun' = K' /\ K' \in Nat
<1>1. Busy' = {}
  BY Zenon DEF Base, Busy
<1>2. Cardinality(Busy') = 0
  BY Zenon, <1>1, FS_EmptySet
<1>3. K' \in Nat
  BY Zenon DEF Base, IsSeq, K
<1>4. Begun' = K' + 0
  BY Zenon, <1>2, BegunSum
<1>5. \A k \in Nat : k + 0 = k
  OBVIOUS
<1>6. Begun' = K'
  BY Zenon, <1>3, <1>4, <1>5
<1> QED
  BY Zenon, <1>1, <1>3, <1>6

\* A locked call is handed an event of the function, numbered as the next.
LEMMA Calling ==
  ASSUME Base, Call
  PROVE  (\E e : Called(e)) /\ UNCHANGED <<kind, unix, loc>> /\ IsSeq(calls') /\ K < MaxCalls
<1>1. PICK e \in NewEvents :
        /\ st' = Apply(kind, st, e).st
        /\ calls' = Append(calls, [e |-> e, unix |-> unix, out |-> Apply(kind, st, e).out])
  BY Zenon DEF Call, Record
<1>2. kind \in Locked /\ UNCHANGED <<kind, unix, loc>> /\ Len(calls) < MaxCalls
  BY Zenon DEF Call
<1>3. Begun = K /\ K \in Nat
  BY Zenon, <1>2, IdleBegun
<1>4. PICK x \in EventsOf(kind) : e = Put(x, "id", K + 1)
  BY Zenon, <1>1, <1>3 DEF NewEvents
<1>5. e \in EventSet /\ e.id = K + 1
  <2>1. K + 1 \in Nat
    BY <1>3
  <2>2. e \in EventSet
    <3>1. e \in {Put(y, "id", K + 1) : y \in EventsOf(kind)}
      BY Zenon, <1>4
    <3> QED
      BY Zenon, <2>1, <3>1 DEF EventSet, EventSetOf
  <2>3. e.id = K + 1
    BY <1>4 DEF Put
  <2> QED
    BY Zenon, <2>2, <2>3
<1> DEFINE c == [e |-> e, unix |-> unix, out |-> Apply(kind, st, e).out]
<1>6. /\ IsSeq(Append(calls, c)) /\ Len(Append(calls, c)) = Len(calls) + 1
      /\ \A i \in 1..Len(calls) : Append(calls, c)[i] = calls[i]
      /\ Append(calls, c)[Len(calls) + 1] = c
  <2> HIDE DEF c
  <2>1. IsSeq(calls)
    BY Zenon DEF Base
  <2>2. Longer(Append(calls, c), calls, c)
    BY Zenon, <2>1, AppendTo
  <2> QED
    BY Zenon, <2>2 DEF Longer
<1>7. IsSeq(calls') /\ Returned(e, Apply(kind, st, e).out)
  BY Zenon, <1>1, <1>6 DEF Returned, K
<1> QED
  BY Zenon, <1>1, <1>2, <1>5, <1>7 DEF Called, K

\* The numbering survives a locked call.
LEMMA CallKeeps ==
  ASSUME Base, Numbers, Fed, Call
  PROVE  Base' /\ Numbers' /\ Fed'
<1>1. PICK e : Called(e)
  BY Zenon, Calling
<1>2. UNCHANGED <<kind, unix, loc>> /\ IsSeq(calls') /\ K < MaxCalls /\ kind \in Locked
  BY Zenon, <1>1, Calling DEF Called
<1>3. Base'
  BY Zenon, <1>2 DEF Base
<1>4. Busy = {} /\ Begun = K /\ K \in Nat /\ Busy' = {} /\ Begun' = K'
  BY Zenon, <1>2, <1>3, IdleBegun, IdleBegunNext
<1>5. K' = K + 1 /\ \A i \in 1..K : Input(i)' = Input(i)
  BY Zenon, <1>1 DEF Called, Returned, Input
<1>a. PICK last : last = K + 1
  BY Zenon
<1>6. Input(last)' = e /\ e.id = last /\ e \in EventSet
  <2>1. calls'[last] = [e |-> e, unix |-> unix, out |-> Apply(kind, st, e).out]
    BY Zenon, <1>1, <1>a DEF Called, Returned
  <2>2. calls'[last].e = e
    BY <2>1
  <2> QED
    BY Zenon, <1>1, <1>a, <2>2 DEF Input, Called
<1>7. \A i \in 1..K' : i \in 1..K \/ i = last
  BY <1>4, <1>5, <1>a
<1>8. Begun' <= (IF kind' \in Locked THEN MaxCalls ELSE MaxSteps)
  <2>1. K' <= MaxCalls
    BY <1>2, <1>4, <1>5, StreamAssumption
  <2> QED
    BY Zenon, <1>2, <1>4, <2>1
<1>9. last \in 1..K' /\ \A n \in 1..K : n \in 1..K' /\ n # last
  BY <1>4, <1>5, <1>a
<1>10. \A i \in 1..K : Input(i).id \in 1..K
  BY Zenon, <1>4 DEF Numbers
<1>11. \A i \in 1..K' : Input(i)'.id \in 1..Begun'
  BY Zenon, <1>4, <1>5, <1>6, <1>7, <1>9, <1>10
<1>12. ASSUME NEW i \in 1..K', NEW j \in 1..K', Input(i)'.id = Input(j)'.id PROVE i = j
  <2>1. CASE i = last \/ j = last
    BY Zenon, <1>5, <1>6, <1>7, <1>9, <1>10, <1>12, <2>1
  <2>2. CASE i \in 1..K /\ j \in 1..K
    BY Zenon, <1>5, <1>12, <2>2 DEF Numbers
  <2> QED
    BY Zenon, <1>7, <2>1, <2>2
<1>13. Numbers'
  BY Zenon, <1>4, <1>8, <1>11, <1>12 DEF Numbers
<1>14. Fed'
  <2>1. EventSet' = EventSet
    BY Zenon, <1>2, EventsStay
  <2> QED
    BY Zenon, <1>2, <1>5, <1>6, <1>7, <2>1 DEF Fed
<1> QED
  BY Zenon, <1>3, <1>13, <1>14

\* What is left of a step: a function that holds its mutex is called, or neither its
\* state nor the history changes.
LEMMA LockedStep ==
  ASSUME Base, kind \in Locked, [Next]_vars
  PROVE  kind' = kind /\ (Call \/ UNCHANGED <<st, calls>>)
<1>1. CASE Call
  BY Zenon, <1>1 DEF Call
<1>2. CASE Tick \/ Finished \/ UNCHANGED vars
  BY Zenon, <1>2 DEF Tick, Finished, vars
<1>3. CASE TimerRate \/ TimerPercentiles
  <2>1. kind = "rate" \/ kind = "percentiles"
    BY Zenon, <1>3 DEF TimerRate, TimerPercentiles
  <2> QED
    BY <2>1 DEF Locked
<1>4. CASE \E t \in Threads : Interleaved(t)
  <2>1. PICK t \in Threads : Begins(t) \/ Stays(t) \/ Leaves(t)
    BY Zenon, <1>4, Interleaving
  <2> QED
    BY Zenon, <2>1 DEF Begins, Stays, Leaves, Base
<1> QED
  BY Zenon, <1>1, <1>2, <1>3, <1>4 DEF Next

Counted == Base /\ Numbers /\ Fed

\* The numbering at the start.
LEMMA CountedInit == Init => Counted
<1> SUFFICES ASSUME Init PROVE Counted
  BY Zenon
<1>1. kind \in Kinds /\ calls = <<>> /\ unix = 0 /\ loc = [t \in Threads |-> Idle]
  BY Zenon DEF Init
<1>2. Len(calls) = 0 /\ IsSeq(calls) /\ 1..K = {} /\ K = 0
  BY <1>1 DEF IsSeq, K
<1>3. Base
  <2>1. 0 \in 0..LastTime
    BY StreamAssumption
  <2> QED
    BY Zenon, <1>1, <1>2, <2>1 DEF Base
<1>4. Busy = {} /\ Begun = 0
  <2>1. Busy = {}
    BY Zenon, <1>1 DEF Busy
  <2>2. Cardinality(Busy) = 0
    BY Zenon, <2>1, FS_EmptySet
  <2> QED
    BY <1>2, <2>1, <2>2, BegunSum
<1>5. Begun <= IF kind \in Locked THEN MaxCalls ELSE MaxSteps
  BY <1>4, StreamAssumption
<1> QED
  BY Zenon, <1>2, <1>3, <1>4, <1>5 DEF Counted, Numbers, Fed

\* Every step keeps the numbering.
LEMMA CountedStep == Counted /\ [Next]_vars => Counted'
<1> SUFFICES ASSUME Base, Numbers, Fed, [Next]_vars PROVE Base' /\ Numbers' /\ Fed'
  BY Zenon DEF Counted
<1>1. CASE Call
  BY Zenon, <1>1, CallKeeps
<1>2. ASSUME UNCHANGED <<kind, calls, loc>>, unix' \in 0..LastTime PROVE Base' /\ Numbers' /\ Fed'
  <2>1. Begun' = Begun /\ K' = K /\ Busy' = Busy /\ EventSet' = EventSet
        /\ \A i : Input(i)' = Input(i)
    BY Zenon, <1>2, EventsStay DEF Begun, K, Busy, Input
  <2>2. Base'
    BY Zenon, <1>2 DEF Base
  <2>3. Numbers'
    BY Zenon, <1>2, <2>1 DEF Numbers
  <2>4. Fed'
    BY Zenon, <1>2, <2>1 DEF Fed
  <2> QED
    BY Zenon, <2>2, <2>3, <2>4
<1>3. unix \in 0..LastTime
  BY Zenon DEF Base
<1>4. CASE TimerRate \/ TimerPercentiles \/ Finished \/ UNCHANGED vars
  BY Zenon, <1>2, <1>3, <1>4 DEF TimerRate, TimerPercentiles, Finished, vars
<1>5. CASE Tick
  <2>1. UNCHANGED <<kind, calls, loc>> /\ unix' = unix + 1 /\ unix < LastTime
    BY Zenon, <1>5 DEF Tick
  <2>2. unix' \in 0..LastTime
    BY <1>3, <2>1, StreamAssumption
  <2> QED
    BY Zenon, <1>2, <2>1, <2>2
<1>6. ASSUME NEW t \in Threads, Interleaved(t) PROVE Base' /\ Numbers' /\ Fed'
  <2>1. (Begins(t) \/ Stays(t) \/ Leaves(t)) /\ UNCHANGED <<kind, unix>>
    BY Zenon, <1>6, Interleaving
  <2>2. kind' \notin Locked
    BY Zenon, <2>1 DEF Begins, Stays, Leaves, Base
  <2>3. Fed'
    BY Zenon, <2>2 DEF Fed
  <2> QED
    BY Zenon, <2>1, <2>3, BeginKeeps, StayKeeps, LeaveKeeps
<1> QED
  BY Zenon, <1>1, <1>4, <1>5, <1>6 DEF Next

-----------------------------------------------------------------------------
(* The history of a function that holds its mutex.                          *)

\* Which closure a kind is, and with what it starts.
LEMMA Closures ==
  /\ \A s, e : Apply("moving_event", s, e) = MovingEventWindow(N, s, e)
  /\ \A s, e : Apply("fixed_event", s, e) = FixedEventWindow(N, s, e)
  /\ \A s, e : Apply("moving_time", s, e) = MovingTimeWindow(DT, s, e)
  /\ \A s, e : Apply("fixed_time", s, e) = FixedTimeWindow(DT, s, e)
  /\ \A s, e : Apply("stable", s, e) = Stable(DT, s, e)
  /\ \A s, e : Apply("throttle", s, e) = Throttle(1, DT, s, e)
  BY DEF Apply

\* The state that the functions start with.
LEMMA Starts ==
  /\ InitState("moving_event") = <<>> /\ InitState("fixed_event") = <<>>
  /\ InitState("moving_time") = MovingTimeInit /\ InitState("fixed_time") = FixedTimeInit
  /\ InitState("stable") = StableInit /\ InitState("throttle") = ThrottleInit
  BY DEF InitState

\* The windows, stable and throttle run under the lock.
LEMMA WindowKinds ==
  {"moving_event", "fixed_event", "moving_time", "fixed_time", "stable", "throttle"} \subseteq Locked
  BY DEF Locked

\* A function over 1..n is a sequence.
LEMMA AsSeq ==
  ASSUME NEW n \in Nat, NEW s, s = [i \in 1..n |-> s[i]]
  PROVE  IsSeq(s) /\ Len(s) = n
<1> DEFINE S == {s[i] : i \in 1..n}
<1>1. s \in [1..n -> S]
  BY Zenon
<1> HIDE DEF S
<1>2. Len(s) = n
  BY <1>1
<1> QED
  BY Zenon, <1>2 DEF IsSeq

\* A sequence that has one element more is the result of Append.
LEMMA IsAppend ==
  ASSUME NEW s, NEW t, NEW x, Longer(t, s, x)
  PROVE  t = Append(s, x)
<1>a. Longer(Append(s, x), s, x)
  <2>1. IsSeq(s)
    BY Zenon DEF Longer
  <2> QED
    BY Zenon, <2>1, AppendTo
<1> USE DEF Longer
<1>1. /\ IsSeq(Append(s, x)) /\ Len(Append(s, x)) = Len(s) + 1
      /\ \A i \in 1..Len(s) : Append(s, x)[i] = s[i]
      /\ Append(s, x)[Len(s) + 1] = x
  BY Zenon, <1>a
<1>2. \A i \in 1..(Len(s) + 1) : i \in 1..Len(s) \/ i = Len(s) + 1
  BY DEF IsSeq
<1>3. \A i \in 1..(Len(s) + 1) : t[i] = Append(s, x)[i]
  BY Zenon, <1>1, <1>2
<1>4. /\ t = [i \in 1..(Len(s) + 1) |-> t[i]]
      /\ Append(s, x) = [i \in 1..(Len(s) + 1) |-> Append(s, x)[i]]
  BY Zenon, <1>1 DEF IsSeq
<1> DEFINE q == Append(s, x)
<1> HIDE DEF q
<1> QED
  BY Zenon, <1>3, <1>4

\* The inputs and the outputs so far, and after one more call.
LEMMA History ==
  ASSUME Base
  PROVE  /\ K \in Nat /\ IsSeq(Inputs) /\ Len(Inputs) = K /\ IsSeq(Outs) /\ Len(Outs) = K
         /\ \A i \in 1..K : Inputs[i] = Input(i) /\ Outs[i] = calls[i].out
<1>1. K \in Nat
  BY Zenon DEF Base, IsSeq, K
<1>2. /\ Inputs = [i \in 1..K |-> Inputs[i]] /\ Outs = [i \in 1..K |-> Outs[i]]
      /\ \A i \in 1..K : Inputs[i] = Input(i) /\ Outs[i] = calls[i].out
  BY Zenon DEF Inputs, Outs
<1> QED
  BY Zenon, <1>1, <1>2, AsSeq

\* A call that returns is appended to the inputs and outputs.
LEMMA HistoryGrows ==
  ASSUME Base, NEW e, NEW out, Returned(e, out)
  PROVE  /\ Inputs' = Append(Inputs, e) /\ Outs' = Append(Outs, out)
         /\ calls'[K'].e = e /\ calls'[K'].out = out /\ K' = K + 1 /\ K \in Nat
<1>1. /\ K \in Nat /\ IsSeq(Inputs) /\ Len(Inputs) = K /\ IsSeq(Outs) /\ Len(Outs) = K
      /\ \A i \in 1..K : Inputs[i] = Input(i) /\ Outs[i] = calls[i].out
  BY Zenon, History
<1>2. K' = K + 1 /\ \A i \in 1..K : calls'[i] = calls[i]
  BY Zenon DEF Returned
<1>3. calls'[K + 1].e = e /\ calls'[K + 1].out = out
  <2>1. calls'[K + 1] = [e |-> e, unix |-> unix, out |-> out]
    BY Zenon DEF Returned
  <2> QED
    BY <2>1
<1>4. K' \in Nat /\ K + 1 \in 1..K' /\ \A i \in 1..K : i \in 1..K'
  BY <1>1, <1>2
<1>5. /\ Inputs' = [i \in 1..K' |-> Inputs'[i]] /\ Outs' = [i \in 1..K' |-> Outs'[i]]
      /\ \A i \in 1..K' : Inputs'[i] = calls'[i].e /\ Outs'[i] = calls'[i].out
  BY Zenon DEF Inputs, Outs, Input
<1>6. IsSeq(Inputs') /\ Len(Inputs') = K' /\ IsSeq(Outs') /\ Len(Outs') = K'
  BY Zenon, <1>4, <1>5, AsSeq
<1>7. Inputs' = Append(Inputs, e)
  <2>1. ASSUME NEW i \in 1..Len(Inputs) PROVE Inputs'[i] = Inputs[i]
    <3>1. i \in 1..K /\ i \in 1..K'
      BY Zenon, <1>1, <1>4, <2>1
    <3>2. Inputs'[i] = calls'[i].e /\ Inputs[i] = calls[i].e /\ calls'[i] = calls[i]
      BY Zenon, <1>1, <1>2, <1>5, <3>1 DEF Input
    <3> QED
      BY Zenon, <3>2
  <2>2. Inputs'[Len(Inputs) + 1] = e
    BY Zenon, <1>1, <1>3, <1>4, <1>5
  <2>3. Len(Inputs') = Len(Inputs) + 1
    BY Zenon, <1>1, <1>2, <1>6
  <2>4. IsSeq(Inputs) /\ IsSeq(Inputs')
    BY Zenon, <1>1, <1>6
  <2>5. Longer(Inputs', Inputs, e)
    BY Zenon, <2>1, <2>2, <2>3, <2>4 DEF Longer
  <2> QED
    BY Zenon, <2>5, IsAppend
<1>8. Outs' = Append(Outs, out)
  <2>1. ASSUME NEW i \in 1..Len(Outs) PROVE Outs'[i] = Outs[i]
    <3>1. i \in 1..K /\ i \in 1..K'
      BY Zenon, <1>1, <1>4, <2>1
    <3>2. Outs'[i] = calls'[i].out /\ Outs[i] = calls[i].out /\ calls'[i] = calls[i]
      BY Zenon, <1>1, <1>2, <1>5, <3>1 DEF Input
    <3> QED
      BY Zenon, <3>2
  <2>2. Outs'[Len(Outs) + 1] = out
    BY Zenon, <1>1, <1>3, <1>4, <1>5
  <2>3. Len(Outs') = Len(Outs) + 1
    BY Zenon, <1>1, <1>2, <1>6
  <2>4. IsSeq(Outs) /\ IsSeq(Outs')
    BY Zenon, <1>1, <1>6
  <2>5. Longer(Outs', Outs, out)
    BY Zenon, <2>1, <2>2, <2>3, <2>4 DEF Longer
  <2> QED
    BY Zenon, <2>5, IsAppend
<1> QED
  BY Zenon, <1>1, <1>2, <1>3, <1>7, <1>8

\* The inputs are events of the function.
LEMMA InputsFed ==
  ASSUME Base, Fed, kind \in Locked
  PROVE  Inputs \in Seq(EventSet) /\ Len(Inputs) = K
<1>1. K \in Nat /\ Len(Inputs) = K /\ \A i \in 1..K : Inputs[i] \in EventSet
  BY Zenon, History DEF Fed
<1>2. Inputs = [i \in 1..K |-> Inputs[i]]
  BY Zenon DEF Inputs
<1>3. Inputs \in [1..K -> EventSet]
  BY Zenon, <1>1, <1>2
<1> QED
  BY <1>1, <1>3

-----------------------------------------------------------------------------
(* Windows of events.                                                       *)

\* The last N of a sequence, or all of it.
LastOf(s) == SubSeq(s, IF Len(s) > N THEN Len(s) - N + 1 ELSE 1, Len(s))

\* moving_event_window keeps the last N.
LEMMA MovesOn ==
  ASSUME NEW S, NEW s \in Seq(S), NEW x \in S
  PROVE  /\ MovingEventWindow(N, LastOf(s), x).st = LastOf(Append(s, x))
         /\ MovingEventWindow(N, LastOf(s), x).out = <<LastOf(Append(s, x))>>
<1> DEFINE w == LastOf(s)
           p == Append(w, x)
           t == Append(s, x)
           kept == IF Len(p) = N + 1 THEN Tail(p) ELSE p
<1>0. Len(s) \in Nat /\ N \in Nat /\ N >= 1
  BY StreamAssumption
<1>1. kept = LastOf(t)
  <2>1. CASE Len(s) < N
    <3>1. w = s
      <4>1. (IF Len(s) > N THEN Len(s) - N + 1 ELSE 1) = 1
        BY <1>0, <2>1
      <4>2. w = SubSeq(s, 1, Len(s))
        BY Zenon, <4>1 DEF LastOf
      <4>3. SubSeq(s, 1, Len(s)) = s
        OBVIOUS
      <4> QED
        BY Zenon, <4>2, <4>3
    <3>2. p = t /\ Len(t) = Len(s) + 1 /\ t \in Seq(S)
      BY <3>1
    <3>3. kept = t
      BY <1>0, <2>1, <3>2
    <3>4. LastOf(t) = SubSeq(t, 1, Len(t))
      <4> HIDE DEF t
      <4>1. (IF Len(t) > N THEN Len(t) - N + 1 ELSE 1) = 1
        BY <1>0, <2>1, <3>2
      <4> QED
        BY Zenon, <4>1 DEF LastOf
    <3>5. SubSeq(t, 1, Len(t)) = t
      <4> HIDE DEF t
      <4> QED
        BY <3>2
    <3> QED
      BY Zenon, <3>3, <3>4, <3>5
  <2>2. CASE Len(s) >= N
    <3>1. w = SubSeq(s, Len(s) - N + 1, Len(s))
      <4>1. (IF Len(s) > N THEN Len(s) - N + 1 ELSE 1) = Len(s) - N + 1
        BY <1>0, <2>2
      <4> QED
        BY Zenon, <4>1 DEF LastOf
    <3>2. /\ w \in Seq(S) /\ Len(w) = N
          /\ \A i \in 1..N : w[i] = s[Len(s) - N + i]
      <4>1. Len(s) - N + 1 \in 1..(Len(s) + 1) /\ Len(s) - N + 1 <= Len(s)
        BY <1>0, <2>2
      <4> QED
        BY <1>0, <2>2, <3>1, <4>1
    <3> HIDE DEF w
    <3>3. /\ p \in Seq(S) /\ Len(p) = N + 1 /\ p[N + 1] = x
          /\ \A i \in 1..N : p[i] = w[i]
      BY <1>0, <3>2
    <3> HIDE DEF p
    <3>4. /\ kept \in Seq(S) /\ Len(kept) = N /\ \A i \in 1..N : kept[i] = p[i + 1]
      BY <1>0, <3>3
    <3> HIDE DEF kept
    <3>5. /\ t \in Seq(S) /\ Len(t) = Len(s) + 1 /\ t[Len(s) + 1] = x
          /\ \A i \in 1..Len(s) : t[i] = s[i]
      BY <1>0
    <3> HIDE DEF t
    <3>6. LastOf(t) = SubSeq(t, Len(s) - N + 2, Len(s) + 1)
      <4>1. (IF Len(t) > N THEN Len(t) - N + 1 ELSE 1) = Len(s) - N + 2
        BY <1>0, <2>2, <3>5
      <4> QED
        BY Zenon, <3>5, <4>1 DEF LastOf
    <3>7. /\ LastOf(t) \in Seq(S) /\ Len(LastOf(t)) = N
          /\ \A i \in 1..N : LastOf(t)[i] = t[Len(s) - N + 1 + i]
      BY <1>0, <2>2, <3>5, <3>6
    <3>8. \A i \in 1..N : kept[i] = LastOf(t)[i]
      <4> SUFFICES ASSUME NEW i \in 1..N PROVE p[i + 1] = t[Len(s) - N + 1 + i]
        BY Zenon, <3>4, <3>7
      <4>1. CASE i = N
        BY <1>0, <3>3, <3>5, <4>1
      <4>2. CASE i # N
        <5>1. i + 1 \in 1..N /\ Len(s) - N + 1 + i \in 1..Len(s)
              /\ Len(s) - N + (i + 1) = Len(s) - N + 1 + i
          BY <1>0, <2>2, <4>2
        <5>2. p[i + 1] = w[i + 1] /\ w[i + 1] = s[Len(s) - N + (i + 1)]
          BY Zenon, <3>2, <3>3, <5>1
        <5>3. t[Len(s) - N + 1 + i] = s[Len(s) - N + 1 + i]
          BY Zenon, <3>5, <5>1
        <5> QED
          BY Zenon, <5>1, <5>2, <5>3
      <4> QED
        BY Zenon, <4>1, <4>2
    <3> QED
      BY <1>0, <3>4, <3>7, <3>8
  <2> QED
    BY <1>0, <2>1, <2>2
<1>2. MovingEventWindow(N, w, x) = [st |-> kept, out |-> <<kept>>]
  BY Zenon DEF MovingEventWindow, Forward
<1> HIDE DEF kept, w
<1> QED
  BY <1>1, <1>2 DEF w

\* moving_event_window holds the last N events and has just passed them on.
Moving ==
  kind = "moving_event" =>
    /\ st = LastOf(Inputs)
    /\ K > 0 => calls[K].out = <<LastOf(Inputs)>>

\* fixed_event_window holds the events since the last full window.
Cut ==
  kind = "fixed_event" =>
    /\ Outs \in Seq(Seq(Seq(EventSet))) /\ st \in Seq(EventSet) /\ Len(st) < N
    /\ Flattened(Flattened(Outs)) \o st = Inputs
    /\ \A i \in DOMAIN Flattened(Outs) : Len(Flattened(Outs)[i]) = N

\* A step that changes neither the state nor the history of the closure.
LEMMA SameHistory ==
  ASSUME UNCHANGED <<kind, st, calls>>
  PROVE  /\ K' = K /\ Inputs' = Inputs /\ Outs' = Outs /\ EventSet' = EventSet /\ Timed' = Timed
         /\ \A i : Input(i)' = Input(i)
<1>1. K' = K /\ \A i : Input(i)' = Input(i)
  BY Zenon DEF K, Input
<1> QED
  BY Zenon, <1>1, EventsStay DEF Inputs, Outs, Timed, Input

\* The kind stays.
LEMMA KindStays ==
  ASSUME Base, [Next]_vars
  PROVE  kind' = kind
<1>1. CASE \E t \in Threads : Interleaved(t)
  BY Zenon, <1>1, Interleaving
<1>2. CASE Call \/ Tick \/ TimerRate \/ TimerPercentiles \/ Finished \/ UNCHANGED vars
  BY Zenon, <1>2 DEF Call, Tick, TimerRate, TimerPercentiles, Finished, vars
<1> QED
  BY Zenon, <1>1, <1>2 DEF Next

\* A step of a function that holds its mutex, seen from its history.
LEMMA LockedHistory ==
  ASSUME Counted, [Next]_vars, kind \in Locked
  PROVE  /\ kind' = kind
         /\ UNCHANGED <<st, calls>> \/ \E e : Called(e)
  BY Zenon, LockedStep, Calling DEF Counted

\* Every step keeps what moving_event_window holds.
LEMMA MovingStep ==
  ASSUME Counted, Moving, [Next]_vars
  PROVE  Moving'
<1> SUFFICES ASSUME kind' = "moving_event"
             PROVE  st' = LastOf(Inputs') /\ (K' > 0 => calls'[K'].out = <<LastOf(Inputs')>>)
  BY Zenon DEF Moving, LastOf
<1>1. Base /\ Fed
  BY Zenon DEF Counted
<1>2. kind = "moving_event" /\ kind \in Locked
  BY Zenon, <1>1, KindStays, WindowKinds
<1>3. st = LastOf(Inputs) /\ (K > 0 => calls[K].out = <<LastOf(Inputs)>>)
  BY Zenon, <1>2 DEF Moving
<1>4. CASE UNCHANGED <<st, calls>>
  <2>1. K' = K /\ Inputs' = Inputs
    BY Zenon, <1>2, <1>4, KindStays, <1>1, SameHistory
  <2> QED
    BY Zenon, <1>3, <1>4, <2>1
<1>5. ASSUME NEW e, Called(e)
      PROVE  st' = LastOf(Inputs') /\ calls'[K'].out = <<LastOf(Inputs')>>
  <2>1. /\ e \in EventSet /\ st' = MovingEventWindow(N, st, e).st
        /\ Returned(e, MovingEventWindow(N, st, e).out)
    BY Zenon, <1>2, <1>5, Closures DEF Called
  <2>2. Inputs' = Append(Inputs, e) /\ calls'[K'].out = MovingEventWindow(N, st, e).out
    BY Zenon, <1>1, <2>1, HistoryGrows
  <2>3. Inputs \in Seq(EventSet)
    BY Zenon, <1>1, <1>2, InputsFed
  <2>4. /\ MovingEventWindow(N, LastOf(Inputs), e).st = LastOf(Append(Inputs, e))
        /\ MovingEventWindow(N, LastOf(Inputs), e).out = <<LastOf(Append(Inputs, e))>>
    BY Zenon, <2>1, <2>3, MovesOn
  <2> QED
    BY Zenon, <1>3, <2>1, <2>2, <2>4
<1> QED
  BY Zenon, <1>2, <1>4, <1>5, LockedHistory

\* The type of a concatenation.
LEMMA ConcatIn ==
  ASSUME NEW S, NEW a \in Seq(S), NEW b \in Seq(S)
  PROVE  a \o b \in Seq(S)
  OBVIOUS

\* The type of a longer sequence.
LEMMA AppendIn ==
  ASSUME NEW S, NEW s \in Seq(S), NEW x \in S
  PROVE  Append(s, x) \in Seq(S)
  OBVIOUS

\* A sequence over a set is a sequence.
LEMMA SeqIsSeq ==
  ASSUME NEW S, NEW s \in Seq(S)
  PROVE  IsSeq(s)
<1>1. Len(s) \in Nat /\ s \in [1..Len(s) -> S]
  OBVIOUS
<1> QED
  BY Zenon, <1>1 DEF IsSeq

\* The elements of a sequence that was appended to.
LEMMA AppendElements ==
  ASSUME NEW S, NEW s \in Seq(S), NEW x \in S
  PROVE  /\ DOMAIN Append(s, x) = 1..(Len(s) + 1) /\ Len(s) \in Nat /\ DOMAIN s = 1..Len(s)
         /\ \A i \in DOMAIN s : Append(s, x)[i] = s[i]
         /\ \A i \in DOMAIN Append(s, x) : i \in DOMAIN s \/ (i = Len(s) + 1 /\ Append(s, x)[i] = x)
<1>1. Len(s) \in Nat /\ DOMAIN s = 1..Len(s) /\ DOMAIN Append(s, x) = 1..(Len(s) + 1)
  OBVIOUS
<1>2. \A i \in 1..(Len(s) + 1) : i \in 1..Len(s) \/ i = Len(s) + 1
  BY <1>1
<1>3. Append(s, x)[Len(s) + 1] = x /\ \A i \in 1..Len(s) : Append(s, x)[i] = s[i]
  OBVIOUS
<1> QED
  BY Zenon, <1>1, <1>2, <1>3

\* The last of them.
LEMMA AppendLast ==
  ASSUME NEW S, NEW s \in Seq(S), NEW x \in S
  PROVE  \A i \in DOMAIN Append(s, x) :
           (i \in DOMAIN s /\ Append(s, x)[i] = s[i]) \/ Append(s, x)[i] = x
  BY Zenon, AppendElements

\* Appending to a concatenation is appending to its second part.
LEMMA ConcatAppend ==
  ASSUME NEW S, NEW a \in Seq(S), NEW b \in Seq(S), NEW x \in S
  PROVE  a \o Append(b, x) = Append(a \o b, x)
<1> DEFINE p == Append(b, x)
           u == a \o p
           v == a \o b
           w == Append(v, x)
<1>1. /\ p \in Seq(S) /\ Len(p) = Len(b) + 1 /\ p[Len(b) + 1] = x
      /\ \A i \in 1..Len(b) : p[i] = b[i]
  OBVIOUS
<1> HIDE DEF p
<1>2. /\ u \in Seq(S) /\ Len(u) = Len(a) + (Len(b) + 1)
      /\ \A i \in 1..(Len(a) + (Len(b) + 1)) : u[i] = IF i <= Len(a) THEN a[i] ELSE p[i - Len(a)]
  BY <1>1
<1> HIDE DEF u
<1>3. /\ v \in Seq(S) /\ Len(v) = Len(a) + Len(b)
      /\ \A i \in 1..(Len(a) + Len(b)) : v[i] = IF i <= Len(a) THEN a[i] ELSE b[i - Len(a)]
  OBVIOUS
<1> HIDE DEF v
<1>4. /\ w \in Seq(S) /\ Len(w) = Len(v) + 1 /\ w[Len(v) + 1] = x
      /\ \A i \in 1..Len(v) : w[i] = v[i]
  BY <1>3
<1> HIDE DEF w
<1>5. Len(a) \in Nat /\ Len(b) \in Nat
  OBVIOUS
<1>6. ASSUME NEW i \in 1..(Len(a) + (Len(b) + 1)) PROVE u[i] = w[i]
  <2>1. u[i] = IF i <= Len(a) THEN a[i] ELSE p[i - Len(a)]
    BY Zenon, <1>2
  <2>2. CASE i <= Len(a)
    <3>1. i \in 1..(Len(a) + Len(b)) /\ i \in 1..Len(v)
      BY <1>3, <1>5, <2>2
    <3>2. v[i] = a[i]
      BY Zenon, <1>3, <2>2, <3>1
    <3>3. w[i] = v[i]
      BY Zenon, <1>4, <3>1
    <3> QED
      BY Zenon, <2>1, <2>2, <3>2, <3>3
  <2>3. CASE ~(i <= Len(a)) /\ i # Len(a) + Len(b) + 1
    <3>0. i \in Nat /\ i >= 1 /\ i <= Len(a) + (Len(b) + 1)
      BY <1>5
    <3>1. i \in 1..(Len(a) + Len(b)) /\ i \in 1..Len(v) /\ i - Len(a) \in 1..Len(b)
      BY <1>3, <1>5, <2>3, <3>0
    <3>2. p[i - Len(a)] = b[i - Len(a)]
      BY Zenon, <1>1, <3>1
    <3>3. v[i] = b[i - Len(a)]
      BY Zenon, <1>3, <2>3, <3>1
    <3>4. w[i] = v[i]
      BY Zenon, <1>4, <3>1
    <3> QED
      BY Zenon, <2>1, <2>3, <3>2, <3>3, <3>4
  <2>4. CASE i = Len(a) + Len(b) + 1
    <3>1. i - Len(a) = Len(b) + 1 /\ ~(i <= Len(a)) /\ i = Len(v) + 1
      BY <1>3, <1>5, <2>4
    <3> QED
      BY Zenon, <1>1, <1>4, <2>1, <3>1
  <2> QED
    BY Zenon, <2>2, <2>3, <2>4
<1>7. u = w
  <2>1. Len(w) = Len(a) + (Len(b) + 1) /\ Len(a) + (Len(b) + 1) \in Nat
    BY <1>3, <1>4, <1>5
  <2>2. /\ u = [i \in 1..(Len(a) + (Len(b) + 1)) |-> u[i]]
        /\ w = [i \in 1..(Len(a) + (Len(b) + 1)) |-> w[i]]
    BY Zenon, <1>2, <1>4, <2>1, SeqIsSeq DEF IsSeq
  <2> QED
    BY Zenon, <1>6, <2>2
<1> QED
  BY Zenon, <1>7 DEF u, v, w, p

\* The outputs o and the rest w are the events q, cut into windows of N.
CutInto(S, o, w, q) ==
  /\ o \in Seq(Seq(Seq(S))) /\ w \in Seq(S) /\ Len(w) < N
  /\ Flattened(Flattened(o)) \o w = q
  /\ \A i \in DOMAIN Flattened(o) : Len(Flattened(o)[i]) = N

\* fixed_event_window cuts.
LEMMA CutsOn ==
  ASSUME NEW S, NEW o, NEW w, NEW q, CutInto(S, o, w, q), NEW x \in S
  PROVE  CutInto(S, Append(o, FixedEventWindow(N, w, x).out), FixedEventWindow(N, w, x).st, Append(q, x))
<1> DEFINE p == Append(w, x)
           f == Flattened(o)
           g == Flattened(f)
<1>0. o \in Seq(Seq(Seq(S))) /\ w \in Seq(S) /\ Len(w) < N /\ N \in Nat /\ N >= 1 /\ Len(w) \in Nat
  BY StreamAssumption DEF CutInto
<1>1. f \in Seq(Seq(S))
  BY Zenon, <1>0, FlattenType
<1>2. g \in Seq(S)
  BY Zenon, <1>1, FlattenType
<1>3. g \o w = q /\ \A i \in DOMAIN f : Len(f[i]) = N
  BY Zenon DEF CutInto
<1>4. p \in Seq(S) /\ Len(p) = Len(w) + 1
  BY <1>0
<1>5. g \o p = Append(q, x)
  <2> HIDE DEF g
  <2>1. w \in Seq(S) /\ g \in Seq(S)
    BY Zenon, <1>0, <1>2
  <2>2. g \o Append(w, x) = Append(g \o w, x)
    BY <2>1, ConcatAppend
  <2> QED
    BY Zenon, <1>3, <2>2
<1> HIDE DEF p, f, g
<1>6. CASE Len(p) = N
  <2>1. FixedEventWindow(N, w, x) = [st |-> <<>>, out |-> <<p>>]
    BY Zenon, <1>6 DEF p, FixedEventWindow, Forward
  <2>2. FixedEventWindow(N, w, x).st = <<>> /\ FixedEventWindow(N, w, x).out = <<p>>
    BY <2>1
  <2>3. <<p>> \in Seq(Seq(S)) /\ <<>> \in Seq(S) /\ Len(<<>>) = 0
    BY <1>4
  <2>4. Append(o, <<p>>) \in Seq(Seq(Seq(S)))
    BY Zenon, <1>0, <2>3, AppendIn
  <2>5. Flattened(Append(o, <<p>>)) = Append(f, p)
    <3>1. Flattened(Append(o, <<p>>)) = f \o <<p>>
      BY Zenon, <1>0, <2>3, FlattenAppend DEF f
    <3>2. f \o <<p>> = Append(f, p)
      BY <1>1, <1>4
    <3> QED
      BY Zenon, <3>1, <3>2
  <2>6. Flattened(Append(f, p)) = g \o p
    BY Zenon, <1>1, <1>4, FlattenAppend DEF g
  <2>7. (g \o p) \o <<>> = g \o p
    BY <1>2, <1>4
  <2>8. \A i \in DOMAIN Append(f, p) : Len(Append(f, p)[i]) = N
    <3>1. \A i \in DOMAIN Append(f, p) : (i \in DOMAIN f /\ Append(f, p)[i] = f[i]) \/ Append(f, p)[i] = p
      <4> HIDE DEF f, p
      <4> QED
        BY Zenon, <1>1, <1>4, AppendLast
    <3>2. ASSUME NEW i \in DOMAIN Append(f, p) PROVE Len(Append(f, p)[i]) = N
      <4>1. CASE i \in DOMAIN f /\ Append(f, p)[i] = f[i]
        BY Zenon, <1>3, <4>1
      <4>2. CASE Append(f, p)[i] = p
        BY Zenon, <1>6, <4>2
      <4> QED
        BY Zenon, <3>1, <4>1, <4>2
    <3> QED
      BY Zenon, <3>2
  <2>9. Len(<<>>) < N
    BY <1>0, <2>3
  <2>10. CutInto(S, Append(o, <<p>>), <<>>, Append(q, x))
    BY Zenon, <1>5, <2>3, <2>4, <2>5, <2>6, <2>7, <2>8, <2>9 DEF CutInto
  <2> QED
    BY Zenon, <2>2, <2>10
<1>7. CASE Len(p) # N
  <2>1. FixedEventWindow(N, w, x) = [st |-> p, out |-> <<>>]
    BY Zenon, <1>7 DEF p, FixedEventWindow, Silent
  <2>2. FixedEventWindow(N, w, x).st = p /\ FixedEventWindow(N, w, x).out = <<>>
    BY <2>1
  <2>3. <<>> \in Seq(Seq(S))
    OBVIOUS
  <2>4. Append(o, <<>>) \in Seq(Seq(Seq(S)))
    BY Zenon, <1>0, <2>3, AppendIn
  <2>5. Flattened(Append(o, <<>>)) = f
    <3>1. Flattened(Append(o, <<>>)) = f \o <<>>
      BY Zenon, <1>0, <2>3, FlattenAppend DEF f
    <3>2. f \o <<>> = f
      BY <1>1
    <3> QED
      BY Zenon, <3>1, <3>2
  <2>6. Len(p) < N
    BY <1>0, <1>4, <1>7
  <2>7. CutInto(S, Append(o, <<>>), p, Append(q, x))
    BY Zenon, <1>3, <1>4, <1>5, <2>4, <2>5, <2>6 DEF CutInto, g
  <2> QED
    BY Zenon, <2>2, <2>7
<1> QED
  BY Zenon, <1>6, <1>7

\* Every step keeps what fixed_event_window holds.
LEMMA CutStep ==
  ASSUME Counted, Cut, [Next]_vars
  PROVE  Cut'
<1> SUFFICES ASSUME kind' = "fixed_event" PROVE CutInto(EventSet', Outs', st', Inputs')
  BY Zenon DEF Cut, CutInto
<1>1. Base /\ Fed
  BY Zenon DEF Counted
<1>2. kind = "fixed_event" /\ kind \in Locked /\ kind' = kind
  BY Zenon, <1>1, KindStays, WindowKinds
<1>3. CutInto(EventSet, Outs, st, Inputs)
  BY Zenon, <1>2 DEF Cut, CutInto
<1>4. CASE UNCHANGED <<st, calls>>
  <2>1. Outs' = Outs /\ Inputs' = Inputs /\ EventSet' = EventSet
    BY Zenon, <1>2, <1>4, SameHistory
  <2> QED
    BY Zenon, <1>3, <1>4, <2>1
<1>5. ASSUME NEW e, Called(e) PROVE CutInto(EventSet', Outs', st', Inputs')
  <2>1. /\ e \in EventSet /\ st' = FixedEventWindow(N, st, e).st
        /\ Returned(e, FixedEventWindow(N, st, e).out)
    BY Zenon, <1>2, <1>5, Closures DEF Called
  <2>2. Inputs' = Append(Inputs, e) /\ Outs' = Append(Outs, FixedEventWindow(N, st, e).out)
    BY Zenon, <1>1, <2>1, HistoryGrows
  <2>3. EventSet' = EventSet
    BY Zenon, <1>2, EventsStay
  <2>4. CutInto(EventSet, Append(Outs, FixedEventWindow(N, st, e).out),
                FixedEventWindow(N, st, e).st, Append(Inputs, e))
    BY Zenon, <1>3, <2>1, CutsOn
  <2> QED
    BY Zenon, <2>1, <2>2, <2>3, <2>4
<1> QED
  BY Zenon, <1>2, <1>4, <1>5, LockedHistory

-----------------------------------------------------------------------------
(* Windows of time.                                                         *)

\* The times of events.
LEMMA TimesOf ==
  ASSUME kind = "moving_time" \/ kind = "fixed_time", NEW e \in EventSet, Has(e, "time")
  PROVE  e.time \in Nat
<1>1. EventsOf(kind) = [time : Times] \cup [host : {"a"}]
  BY DEF EventsOf
<1>2. PICK n \in Nat, x \in EventsOf(kind) : e = Put(x, "id", n)
  BY Zenon DEF EventSet, EventSetOf
<1>3. "time" \in DOMAIN x /\ e.time = x.time
  BY <1>2 DEF Has, Put
<1>4. x \in [time : Times]
  <2>1. x \in [host : {"a"}] => "time" \notin DOMAIN x
    OBVIOUS
  <2> QED
    BY Zenon, <1>1, <1>2, <1>3, <2>1
<1>5. x.time \in 0..LastTime
  BY <1>4 DEF Times
<1> QED
  BY <1>3, <1>5, StreamAssumption

\* The times of the events are naturals.
LEMMA TimedAreNat ==
  ASSUME Base, Fed, kind = "moving_time" \/ kind = "fixed_time"
  PROVE  \A e \in Timed : e \in EventSet /\ e.time \in Nat
<1> SUFFICES ASSUME NEW e \in Timed PROVE e \in EventSet /\ e.time \in Nat
  BY Zenon
<1>1. PICK i \in 1..K : e = Input(i) /\ Has(e, "time")
  BY Zenon DEF Timed
<1>2. e \in EventSet
  BY Zenon, <1>1, WindowKinds DEF Fed
<1> QED
  BY Zenon, <1>1, <1>2, TimesOf

\* The events with a time, after a call.
LEMMA TimedGrows ==
  ASSUME Base, NEW e, NEW out, Returned(e, out)
  PROVE  Timed' = IF Has(e, "time") THEN Timed \cup {e} ELSE Timed
<1>1. K' = K + 1 /\ K \in Nat /\ \A i \in 1..K : calls'[i] = calls[i]
  BY Zenon, HistoryGrows DEF Returned
<1>2. calls'[K + 1].e = e
  <2>1. calls'[K'].e = e
    BY Zenon, HistoryGrows
  <2> QED
    BY Zenon, <1>1, <2>1
<1>3. \A i : i \in 1..K' <=> (i \in 1..K \/ i = K + 1)
  BY <1>1
<1>4. \A x : x \in Timed' <=> \E i \in 1..K' : x = calls'[i].e /\ Has(calls'[i].e, "time")
  BY Zenon DEF Timed, Input, Has
<1>5. \A x : x \in Timed <=> \E i \in 1..K : x = calls[i].e /\ Has(calls[i].e, "time")
  BY Zenon DEF Timed, Input, Has
<1>6. \A x : x \in Timed' <=> (x \in Timed \/ (x = e /\ Has(e, "time")))
  <2>1. ASSUME NEW x \in Timed' PROVE x \in Timed \/ (x = e /\ Has(e, "time"))
    <3>1. PICK i \in 1..K' : x = calls'[i].e /\ Has(calls'[i].e, "time")
      BY Zenon, <1>4
    <3>2. CASE i \in 1..K
      BY Zenon, <1>1, <1>5, <3>1, <3>2
    <3>3. CASE i = K + 1
      BY Zenon, <1>2, <3>1, <3>3
    <3> QED
      BY Zenon, <1>3, <3>2, <3>3
  <2>2. ASSUME NEW x \in Timed PROVE x \in Timed'
    <3>1. PICK i \in 1..K : x = calls[i].e /\ Has(calls[i].e, "time")
      BY Zenon, <1>5
    <3>2. i \in 1..K' /\ calls'[i] = calls[i]
      BY Zenon, <1>1, <1>3, <3>1
    <3> QED
      BY Zenon, <1>4, <3>1, <3>2
  <2>3. ASSUME Has(e, "time") PROVE e \in Timed'
    <3>1. K + 1 \in 1..K'
      BY Zenon, <1>3
    <3> QED
      BY Zenon, <1>2, <1>4, <2>3, <3>1
  <2> QED
    BY Zenon, <2>1, <2>2, <2>3
<1> QED
  BY Zenon, <1>6

\* The events of T less than DT older than m.
Within(T, m) == {e \in T : m < DT \/ e.time > m - DT}

\* m is the time of the newest event of T.
Newest(T, m) ==
  /\ m \in Nat /\ \A e \in T : e.time \in Nat /\ e.time <= m
  /\ IF T = {} THEN m = 0 ELSE \E e \in T : e.time = m

\* After x, moving_time_window's queue is the recent events of T and x.
Slides(T, m, x) ==
  \E n : /\ Newest(T \cup {x}, n)
         /\ MovingTimeWindow(DT, [pq |-> Within(T, m), max |-> m], x)
              = [st |-> [pq |-> Within(T \cup {x}, n), max |-> n],
                 out |-> <<Within(T \cup {x}, n)>>]

\* moving_time_window keeps the events less than DT older than the newest.
LEMMA SlidesOn ==
  ASSUME NEW T, NEW m, NEW x, Newest(T, m) /\ Has(x, "time") /\ x.time \in Nat
  PROVE  Slides(T, m, x)
<1> DEFINE w == [pq |-> Within(T, m), max |-> m]
           n == IF x.time > w.max THEN x.time ELSE w.max
           pushed == w.pq \cup {x}
           pq == IF n < DT THEN pushed ELSE {y \in pushed : y.time > n - DT}
<1>1. MovingTimeWindow(DT, w, x) = [st |-> [pq |-> pq, max |-> n], out |-> <<pq>>]
  BY Zenon DEF MovingTimeWindow, Forward
<1>2. w.pq = Within(T, m) /\ w.max = m
  BY Zenon
<1> HIDE DEF w
<1>3. n \in Nat /\ m \in Nat /\ m <= n /\ x.time <= n /\ DT \in Nat /\ (n = m \/ n = x.time)
  BY <1>2, StreamAssumption DEF Newest
<1>4. \A y \in T \cup {x} : y.time \in Nat
  BY Zenon DEF Newest
<1>5. pq = Within(T \cup {x}, n)
  <2> HIDE DEF n
  <2>1. CASE n < DT
    <3>1. m < DT
      BY <1>3, <2>1
    <3>2. Within(T, m) = T /\ Within(T \cup {x}, n) = T \cup {x}
      BY Zenon, <2>1, <3>1 DEF Within
    <3> QED
      BY Zenon, <1>2, <2>1, <3>2
  <2>2. CASE ~(n < DT)
    <3>1. \A y \in T : y.time > n - DT => y.time > m - DT
      BY <1>3, <1>4
    <3>2. \A y : y \in Within(T, m) <=> (y \in T /\ (m < DT \/ y.time > m - DT))
      BY Zenon DEF Within
    <3>3. \A y : y \in Within(T \cup {x}, n) <=> (y \in T \cup {x} /\ y.time > n - DT)
      BY Zenon, <2>2 DEF Within
    <3>4. \A y : y \in pq <=> (y \in Within(T, m) \cup {x} /\ y.time > n - DT)
      BY Zenon, <1>2, <2>2
    <3> HIDE DEF pq
    <3>5. \A y : y \in pq <=> y \in Within(T \cup {x}, n)
      BY Zenon, <3>1, <3>2, <3>3, <3>4
    <3> QED
      BY Zenon, <3>5
  <2> QED
    BY Zenon, <2>1, <2>2
<1>6. Newest(T \cup {x}, n)
  <2>1. \A e \in T \cup {x} : e.time \in Nat /\ e.time <= n
    <3> HIDE DEF n
    <3>1. \A e \in T : e.time \in Nat /\ e.time <= m
      BY Zenon DEF Newest
    <3>2. \A e \in T : e.time <= n
      BY <1>3, <3>1
    <3> QED
      BY Zenon, <1>3, <1>4, <3>2
  <2>2. \E e \in T \cup {x} : e.time = n
    <3>1. CASE n = x.time
      BY Zenon, <3>1
    <3>2. CASE n # x.time
      <4>1. n = m
        BY Zenon, <1>3, <3>2
      <4>2. T # {}
        <5>1. T = {} => m = 0
          BY Zenon DEF Newest
        <5> HIDE DEF n
        <5> QED
          BY <1>3, <3>2, <4>1, <5>1
      <4> QED
        BY Zenon, <4>1, <4>2 DEF Newest
    <3> QED
      BY Zenon, <3>1, <3>2
  <2> HIDE DEF n
  <2> QED
    BY Zenon, <1>3, <2>1, <2>2 DEF Newest
<1> HIDE DEF n, pq
<1> QED
  BY Zenon, <1>1, <1>5, <1>6 DEF w, Slides

\* moving_time_window's queue and its last output, from the events so far.
Recent ==
  kind = "moving_time" =>
    \E m : /\ Newest(Timed, m)
           /\ st = [pq |-> Within(Timed, m), max |-> m]
           /\ K > 0 /\ Has(Input(K), "time") => calls[K].out = <<Within(Timed, m)>>

\* A step that makes no call leaves the timed events alone.
LEMMA SameTimed ==
  ASSUME UNCHANGED calls
  PROVE  Timed' = Timed /\ K' = K /\ Input(K)' = Input(K)
<1>1. K' = K
  BY Zenon DEF K
<1>2. \A i : calls'[i] = calls[i]
  BY Zenon
<1>3. \A x : x \in Timed' <=> \E i \in 1..K : x = calls[i].e /\ Has(calls[i].e, "time")
  BY Zenon, <1>1, <1>2 DEF Timed, Input, Has
<1>4. \A x : x \in Timed <=> \E i \in 1..K : x = calls[i].e /\ Has(calls[i].e, "time")
  BY Zenon DEF Timed, Input, Has
<1>5. Timed' = Timed
  BY Zenon, <1>3, <1>4
<1> QED
  BY Zenon, <1>1, <1>2, <1>5 DEF Input

\* Every step keeps moving_time_window's queue what it should be.
LEMMA RecentStep ==
  ASSUME Counted, Recent, [Next]_vars
  PROVE  Recent'
<1> SUFFICES ASSUME kind' = "moving_time"
             PROVE  \E m : /\ Newest(Timed', m)
                           /\ st' = [pq |-> Within(Timed', m), max |-> m]
                           /\ K' > 0 /\ Has(Input(K)', "time") => calls'[K'].out = <<Within(Timed', m)>>
  BY Zenon DEF Recent, Newest, Within, Has
<1>1. Base /\ Fed
  BY Zenon DEF Counted
<1>2. kind = "moving_time" /\ kind \in Locked
  BY Zenon, <1>1, KindStays, WindowKinds
<1>3. PICK m : /\ Newest(Timed, m)
               /\ st = [pq |-> Within(Timed, m), max |-> m]
               /\ K > 0 /\ Has(Input(K), "time") => calls[K].out = <<Within(Timed, m)>>
  BY Zenon, <1>2 DEF Recent
<1>4. CASE UNCHANGED <<st, calls>>
  <2>1. Timed' = Timed /\ K' = K /\ Input(K)' = Input(K)
    BY Zenon, <1>4, SameTimed
  <2> QED
    BY Zenon, <1>3, <1>4, <2>1
<1>5. ASSUME NEW e, Called(e)
      PROVE  \E n : /\ Newest(Timed', n)
                    /\ st' = [pq |-> Within(Timed', n), max |-> n]
                    /\ K' > 0 /\ Has(Input(K)', "time") => calls'[K'].out = <<Within(Timed', n)>>
  <2> DEFINE r == MovingTimeWindow(DT, st, e)
  <2>1. e \in EventSet /\ st' = r.st /\ Returned(e, r.out)
    BY Zenon, <1>2, <1>5, Closures DEF Called
  <2> HIDE DEF r
  <2>2. calls'[K'].out = r.out /\ Input(K)' = e
    BY Zenon, <1>1, <2>1, HistoryGrows DEF Input
  <2>3. Timed' = IF Has(e, "time") THEN Timed \cup {e} ELSE Timed
    BY Zenon, <1>1, <2>1, TimedGrows
  <2>4. CASE Has(e, "time")
    <3>1. e.time \in Nat
      BY Zenon, <1>2, <2>1, <2>4, TimesOf
    <3>2. PICK n : /\ Newest(Timed \cup {e}, n)
                   /\ r = [st |-> [pq |-> Within(Timed \cup {e}, n), max |-> n],
                           out |-> <<Within(Timed \cup {e}, n)>>]
      <4>1. Newest(Timed, m) /\ Has(e, "time") /\ e.time \in Nat
        BY Zenon, <1>3, <2>4, <3>1
      <4>2. Slides(Timed, m, e)
        BY Zenon, <4>1, SlidesOn
      <4>3. r = MovingTimeWindow(DT, [pq |-> Within(Timed, m), max |-> m], e)
        BY Zenon, <1>3 DEF r
      <4> QED
        BY Zenon, <4>2, <4>3 DEF Slides
    <3>3. /\ r.st = [pq |-> Within(Timed \cup {e}, n), max |-> n]
          /\ r.out = <<Within(Timed \cup {e}, n)>>
      BY Zenon, <3>2
    <3> QED
      BY Zenon, <2>1, <2>2, <2>3, <2>4, <3>2, <3>3
  <2>5. CASE ~Has(e, "time")
    <3>1. r = [st |-> st, out |-> <<>>]
      BY Zenon, <2>5 DEF r, MovingTimeWindow, Silent
    <3>2. r.st = st
      BY Zenon, <3>1
    <3> QED
      BY Zenon, <1>3, <2>1, <2>2, <2>3, <2>5, <3>2
  <2> QED
    BY Zenon, <2>4, <2>5
<1> QED
  BY Zenon, <1>2, <1>4, <1>5, LockedHistory

\* What moving_time_window passes on.
LEMMA RecentIs ==
  ASSUME Base, Recent
  PROVE  RecentWindow
<1> DEFINE times == {e.time : e \in Timed}
           newest == MaxOf(times)
<1> SUFFICES ASSUME kind = "moving_time", K > 0, Has(Input(K), "time")
             PROVE  calls[K].out = <<{e \in Timed : newest < DT \/ e.time > newest - DT}>>
  BY Zenon DEF RecentWindow
<1>1. PICK m : Newest(Timed, m) /\ calls[K].out = <<Within(Timed, m)>>
  BY Zenon DEF Recent
<1>2. Input(K) \in Timed
  <2>1. K \in 1..K
    <3>1. K \in Nat
      BY Zenon DEF Base, IsSeq, K
    <3> QED
      BY <3>1
  <2> QED
    BY Zenon, <2>1 DEF Timed
<1>3. m \in times /\ \A u \in times : u \in Nat /\ u <= m
  BY Zenon, <1>1, <1>2 DEF Newest
<1>4. newest \in times /\ \A u \in times : u <= newest
  BY Zenon, <1>3 DEF MaxOf
<1> HIDE DEF times, newest
<1>5. newest = m
  BY <1>3, <1>4
<1> QED
  BY Zenon, <1>1, <1>5 DEF Within

\* The number of the interval of DT that a time lies in.
Slice(t) == t \div DT

\* NextInterval is where the next interval begins.
LEMMA Slices ==
  ASSUME NEW s \in Nat
  PROVE  /\ NextInterval(s, DT) \in Nat /\ s < NextInterval(s, DT)
         /\ Slice(NextInterval(s, DT)) = Slice(s) + 1
         /\ \A x \in Nat : Slice(x) \in Nat
         /\ \A x \in Nat : s <= x /\ x < NextInterval(s, DT) => Slice(x) = Slice(s)
<1>0. DT \in Nat /\ DT >= 1
  BY StreamAssumption
<1>1. \A x \in Nat : /\ Slice(x) \in Nat /\ x % DT \in Nat /\ x % DT < DT
                     /\ x = (DT * Slice(x)) + (x % DT)
  BY <1>0 DEF Slice
<1>2. \A x, q, r \in Nat : x = DT * q + r /\ r < DT => Slice(x) = q
  BY <1>0 DEF Slice
<1> DEFINE n == NextInterval(s, DT)
           q == Slice(s)
<1>3. n = DT * q + DT /\ q \in Nat
  <2>1. q \in Nat /\ s % DT \in Nat /\ s = (DT * q) + (s % DT)
    BY Zenon, <1>1
  <2> DEFINE r == s % DT
             p == DT * q
  <2>2. p \in Nat
    BY <1>0, <2>1
  <2>3. n = s - r + DT
    BY Zenon DEF NextInterval
  <2> HIDE DEF q, r, p, n
  <2>4. s = p + r /\ r \in Nat
    BY Zenon, <2>1 DEF r, p
  <2>5. n = p + DT
    BY <1>0, <2>2, <2>3, <2>4
  <2> QED
    BY Zenon, <2>1, <2>5 DEF p
<1> HIDE DEF q
<1>4. n = DT * (q + 1) + 0 /\ q + 1 \in Nat /\ 0 < DT /\ n \in Nat
  BY <1>0, <1>3
<1>5. Slice(n) = q + 1
  <2> HIDE DEF n
  <2> QED
    BY <1>2, <1>4
<1>6. s = (DT * q) + (s % DT) /\ s % DT \in Nat /\ s % DT < DT
  BY <1>1 DEF q
<1>7. s < n /\ s >= DT * q
  <2> HIDE DEF n
  <2> QED
    BY <1>0, <1>3, <1>6
<1>8. ASSUME NEW x \in Nat, s <= x, x < n PROVE Slice(x) = q
  <2> HIDE DEF n
  <2>1. DT * q \in Nat
    BY <1>0, <1>3
  <2>2. x - DT * q \in Nat /\ x - DT * q < DT /\ x = DT * q + (x - DT * q)
    BY <1>0, <1>3, <1>7, <1>8, <2>1
  <2> QED
    BY Zenon, <1>2, <1>3, <2>2
<1> QED
  BY Zenon, <1>1, <1>4, <1>5, <1>7, <1>8 DEF q

\* Windows of one interval each, in ascending order, all before interval b.
Apart(W, b) ==
  /\ \A i \in DOMAIN W : \A e, f \in W[i] : Slice(e.time) = Slice(f.time)
  /\ \A i, j \in DOMAIN W : i < j =>
       \A e \in W[i], f \in W[j] : Slice(e.time) < Slice(f.time)
  /\ \A i \in DOMAIN W : \A e \in W[i] : Slice(e.time) \in Nat /\ Slice(e.time) < b

\* A window of interval b may follow them, or none may.
LEMMA NextApart ==
  ASSUME NEW S, NEW W \in Seq(S), NEW b \in Nat, Apart(W, b)
  PROVE  /\ Apart(W, b + 1)
         /\ \A F \in S : (\A e \in F : Slice(e.time) = b) => Apart(Append(W, F), b + 1)
<1>1. \A k \in Nat : k < b => k < b + 1
  OBVIOUS
<1>2. b < b + 1 /\ b \in Nat
  OBVIOUS
<1>3. Apart(W, b + 1)
  BY Zenon, <1>1 DEF Apart
<1>4. ASSUME NEW F \in S, \A e \in F : Slice(e.time) = b PROVE Apart(Append(W, F), b + 1)
  <2> DEFINE V == Append(W, F)
  <2>1. /\ DOMAIN V = 1..(Len(W) + 1) /\ Len(W) \in Nat /\ DOMAIN W = 1..Len(W)
        /\ \A i \in DOMAIN W : V[i] = W[i]
        /\ \A i \in DOMAIN V : i \in DOMAIN W \/ (i = Len(W) + 1 /\ V[i] = F)
    BY Zenon, AppendElements
  <2> HIDE DEF V
  <2>2. \A i, j \in DOMAIN V : i < j => i \in DOMAIN W
    BY <2>1
  <2>3. \A i \in DOMAIN V : \A e, f \in V[i] : Slice(e.time) = Slice(f.time)
    <3> TAKE i \in DOMAIN V
    <3>1. CASE i \in DOMAIN W
      BY Zenon, <2>1, <3>1 DEF Apart
    <3>2. CASE V[i] = F
      BY Zenon, <1>4, <3>2
    <3> QED
      BY Zenon, <2>1, <3>1, <3>2
  <2>4. \A i, j \in DOMAIN V : i < j => \A e \in V[i], f \in V[j] : Slice(e.time) < Slice(f.time)
    <3> SUFFICES ASSUME NEW i \in DOMAIN V, NEW j \in DOMAIN V, i < j,
                        NEW e \in V[i], NEW f \in V[j]
                 PROVE  Slice(e.time) < Slice(f.time)
      BY Zenon
    <3>1. i \in DOMAIN W /\ e \in W[i]
      BY Zenon, <2>1, <2>2
    <3>2. CASE j \in DOMAIN W
      BY Zenon, <2>1, <3>1, <3>2 DEF Apart
    <3>3. CASE V[j] = F
      <4>1. Slice(f.time) = b
        BY Zenon, <1>4, <3>3
      <4> QED
        BY Zenon, <3>1, <4>1 DEF Apart
    <3> QED
      BY Zenon, <2>1, <3>2, <3>3
  <2>5. \A i \in DOMAIN V : \A e \in V[i] : Slice(e.time) \in Nat /\ Slice(e.time) < b + 1
    <3> TAKE i \in DOMAIN V
    <3>1. CASE i \in DOMAIN W
      BY Zenon, <1>1, <2>1, <3>1 DEF Apart
    <3>2. CASE V[i] = F
      BY Zenon, <1>2, <1>4, <3>2
    <3> QED
      BY Zenon, <2>1, <3>1, <3>2
  <2>6. Apart(V, b + 1)
    BY Zenon, <2>3, <2>4, <2>5 DEF Apart
  <2> QED
    BY Zenon, <2>6 DEF V
<1> QED
  BY Zenon, <1>3, <1>4

\* Every event of T waits in the queue, or was passed on, or is too old.
Kept(T, W, pq, start) ==
  /\ pq \subseteq T /\ \A e \in pq : e.time >= start
  /\ \A e \in T : e \in pq \/ (\E i \in DOMAIN W : e \in W[i]) \/ e.time < start

\* fixed_time_window after the timed events T and the windows W.
Sliced(T, W, s) ==
  /\ s \in [pq : SUBSET T, start : Nat, max : Nat, started : BOOLEAN]
  /\ ~s.started => T = {} /\ W = <<>>
  /\ \A e \in T : e.time \in Nat
  /\ W \in Seq(SUBSET T)
  /\ Apart(W, Slice(s.start))
  /\ Kept(T, W, s.pq, s.start)

\* One more event changes no window.
LEMMA Widen ==
  ASSUME NEW T, NEW e, NEW W \in Seq(SUBSET T)
  PROVE  W \in Seq(SUBSET (T \cup {e}))
  OBVIOUS

\* An event joins the queue.
LEMMA KeptIn ==
  ASSUME NEW T, NEW W, NEW pq, NEW start, Kept(T, W, pq, start), NEW e, e.time >= start
  PROVE  Kept(T \cup {e}, W, pq \cup {e}, start)
  BY Zenon DEF Kept

\* The queue's events before n are passed on as the window F.
LEMMA KeptOn ==
  ASSUME NEW T, NEW W \in Seq(SUBSET T), NEW pq, NEW start \in Nat, Kept(T, W, pq, start),
         \A e \in T : e.time \in Nat, NEW n \in Nat, start < n
  PROVE  LET F == {e \in pq : e.time < n}
         IN  /\ F = {} => Kept(T, W, pq \ F, n)
             /\ Kept(T, Append(W, F), pq \ F, n)
<1> DEFINE F == {e \in pq : e.time < n}
           V == Append(W, F)
<1>1. pq \subseteq T /\ F \in SUBSET T
  BY Zenon DEF Kept
<1>2. /\ DOMAIN V = 1..(Len(W) + 1) /\ Len(W) \in Nat /\ DOMAIN W = 1..Len(W)
      /\ \A i \in DOMAIN W : V[i] = W[i]
  BY Zenon, <1>1, AppendElements
<1>3. V[Len(W) + 1] = F
  BY <1>1
<1> HIDE DEF V
<1>4. Len(W) + 1 \in DOMAIN V /\ \A i \in DOMAIN W : i \in DOMAIN V
  BY <1>2
<1>5. \A e \in T : e.time < start => e.time < n
  OBVIOUS
<1>6. \A e \in pq \ F : e.time >= n
  <2>1. \A e \in pq \ F : ~(e.time < n) /\ e.time \in Nat
    BY Zenon, <1>1
  <2> HIDE DEF F
  <2> QED
    BY <2>1
<1>7. pq \ F \subseteq T
  BY Zenon, <1>1
<1>8. ASSUME NEW e \in T PROVE e \in pq \ F \/ (\E i \in DOMAIN V : e \in V[i]) \/ e.time < n
  <2>1. CASE e \in pq
    BY Zenon, <2>1
  <2>2. CASE \E i \in DOMAIN W : e \in W[i]
    BY Zenon, <1>2, <1>4, <2>2
  <2>3. CASE e.time < start
    BY Zenon, <1>5, <2>3
  <2> QED
    BY Zenon, <2>1, <2>2, <2>3 DEF Kept
<1>9. ASSUME NEW e \in T PROVE e \in pq \ F \/ (\E i \in DOMAIN W : e \in W[i]) \/ e.time < n
  <2>1. CASE e \in pq
    BY Zenon, <2>1
  <2>2. CASE e.time < start
    BY Zenon, <1>5, <2>2
  <2> QED
    BY Zenon, <2>1, <2>2 DEF Kept
<1>10. Kept(T, V, pq \ F, n) /\ Kept(T, W, pq \ F, n)
  <2> HIDE DEF F
  <2> QED
    BY Zenon, <1>6, <1>7, <1>8, <1>9 DEF Kept
<1> QED
  BY Zenon, <1>10 DEF V

\* What the function may do with the event e: keep the windows, or add one.
SlicedOn(T, W, s, out) ==
  \/ out = <<>> /\ Sliced(T, W, s)
  \/ \E F \in SUBSET T : out = <<F>> /\ Sliced(T, Append(W, F), s)

\* fixed_time_window cuts time into intervals.
LEMMA SlicesOn ==
  ASSUME NEW T, NEW W, NEW s, NEW e, Sliced(T, W, s) /\ Has(e, "time") /\ e.time \in Nat
  PROVE  SlicedOn(T \cup {e}, W, FixedTimeWindow(DT, s, e).st, FixedTimeWindow(DT, s, e).out)
<1> DEFINE r == FixedTimeWindow(DT, s, e)
           U == T \cup {e}
<1> SUFFICES SlicedOn(U, W, r.st, r.out)
  OBVIOUS
<1> HIDE DEF r
<1>1. /\ s \in [pq : SUBSET T, start : Nat, max : Nat, started : BOOLEAN]
      /\ ~s.started => T = {} /\ W = <<>>
      /\ W \in Seq(SUBSET T) /\ Apart(W, Slice(s.start)) /\ Kept(T, W, s.pq, s.start)
  BY Zenon DEF Sliced
<1>2. s.pq \in SUBSET T /\ s.start \in Nat /\ s.max \in Nat /\ s.started \in BOOLEAN
  BY <1>1
<1>3. \A x \in U : x.time \in Nat
  BY Zenon DEF Sliced
<1>4. W \in Seq(SUBSET U)
  BY Zenon, <1>1, Widen
<1>5. CASE ~s.started
  <2> DEFINE v == [pq |-> {e}, start |-> e.time, max |-> e.time, started |-> TRUE]
  <2>1. r = [st |-> v, out |-> <<>>]
    BY Zenon, <1>5 DEF r, FixedTimeWindow, Silent
  <2>2. T = {} /\ W = <<>> /\ U = {e}
    BY Zenon, <1>1, <1>5
  <2>3. /\ v \in [pq : SUBSET U, start : Nat, max : Nat, started : BOOLEAN]
        /\ v.pq = {e} /\ v.start = e.time /\ v.started
    BY <2>2
  <2> HIDE DEF v
  <2>4. DOMAIN W = {}
    BY <2>2
  <2>5. Apart(W, Slice(v.start))
    BY Zenon, <2>4 DEF Apart
  <2>6. Kept(U, W, v.pq, v.start)
    <3>1. e.time >= e.time
      OBVIOUS
    <3> QED
      BY Zenon, <2>2, <2>3, <3>1 DEF Kept
  <2>7. Sliced(U, W, v)
    BY Zenon, <1>3, <1>4, <2>3, <2>5, <2>6 DEF Sliced
  <2>8. r.st = v /\ r.out = <<>>
    BY Zenon, <2>1
  <2> QED
    BY Zenon, <2>7, <2>8 DEF SlicedOn
<1>6. CASE s.started /\ e.time < s.start
  <2>1. r = [st |-> s, out |-> <<>>]
    BY Zenon, <1>6 DEF r, FixedTimeWindow, Silent
  <2>2. r.st = s /\ r.out = <<>>
    BY Zenon, <2>1
  <2>3. Kept(U, W, s.pq, s.start)
    BY Zenon, <1>1, <1>6 DEF Kept
  <2>4. s \in [pq : SUBSET U, start : Nat, max : Nat, started : BOOLEAN]
    BY <1>1
  <2>5. Sliced(U, W, s)
    BY Zenon, <1>1, <1>3, <1>4, <1>6, <2>3, <2>4 DEF Sliced
  <2> QED
    BY Zenon, <2>2, <2>5 DEF SlicedOn
<1>7. CASE s.started /\ ~(e.time < s.start)
  <2> DEFINE max == IF e.time > s.max THEN e.time ELSE s.max
             next == NextInterval(s.start, DT)
             pq == s.pq \cup {e}
             F == {x \in pq : x.time < next}
  <2>1. max \in Nat /\ e.time >= s.start
    BY <1>2, <1>7
  <2>2. /\ next \in Nat /\ s.start < next /\ Slice(next) = Slice(s.start) + 1
        /\ Slice(s.start) \in Nat
        /\ \A x \in Nat : s.start <= x /\ x < next => Slice(x) = Slice(s.start)
    BY Zenon, <1>2, Slices
  <2>3. Kept(U, W, pq, s.start)
    BY Zenon, <1>1, <2>1, KeptIn
  <2>4. pq \in SUBSET U /\ F \in SUBSET U
    BY Zenon, <1>2
  <2>5. CASE max < next
    <3> DEFINE v == [s EXCEPT !.pq = pq, !.max = max]
    <3>1. r = [st |-> v, out |-> <<>>]
      BY Zenon, <1>7, <2>5 DEF r, FixedTimeWindow, Silent
    <3>2. r.st = v /\ r.out = <<>>
      BY Zenon, <3>1
    <3> HIDE DEF max, next, pq, F, U
    <3>3. /\ v \in [pq : SUBSET U, start : Nat, max : Nat, started : BOOLEAN]
          /\ v.pq = pq /\ v.start = s.start /\ v.started = s.started
      BY <1>1, <2>1, <2>4
    <3>4. Sliced(U, W, v)
      BY Zenon, <1>1, <1>3, <1>4, <1>7, <2>3, <3>3 DEF Sliced
    <3> QED
      BY Zenon, <3>2, <3>4 DEF SlicedOn
  <2>6. CASE ~(max < next)
    <3> DEFINE v == [s EXCEPT !.pq = pq \ F, !.max = max, !.start = next]
    <3>1. r = [st |-> v, out |-> IF F = {} THEN <<>> ELSE <<F>>]
      BY Zenon, <1>7, <2>6 DEF r, FixedTimeWindow, Forward
    <3>2. r.st = v /\ r.out = IF F = {} THEN <<>> ELSE <<F>>
      BY Zenon, <3>1
    <3>3. /\ F = {} => Kept(U, W, pq \ F, next)
          /\ Kept(U, Append(W, F), pq \ F, next)
      <4> HIDE DEF max, next, pq, U
      <4> QED
        BY Zenon, <1>2, <1>3, <1>4, <2>2, <2>3, KeptOn
    <3>4. \A x \in F : Slice(x.time) = Slice(s.start)
      <4>1. \A x \in F : x.time \in Nat /\ x.time >= s.start /\ x.time < next
        BY Zenon, <1>3, <2>3 DEF Kept
      <4> HIDE DEF F, next
      <4>2. \A x \in F : s.start <= x.time
        BY <1>2, <4>1
      <4> QED
        BY Zenon, <2>2, <4>1, <4>2
    <3> HIDE DEF max, next, pq, F, U
    <3>5. Apart(W, Slice(next)) /\ Apart(Append(W, F), Slice(next))
      <4>1. PICK b : b = Slice(s.start)
        BY Zenon
      <4>2. b \in Nat /\ Apart(W, b)
        BY Zenon, <1>1, <2>2, <4>1
      <4>3. /\ Apart(W, b + 1)
            /\ \A G \in SUBSET U : (\A x \in G : Slice(x.time) = b) => Apart(Append(W, G), b + 1)
        BY Zenon, <1>4, <4>2, NextApart
      <4> QED
        BY Zenon, <2>2, <2>4, <3>4, <4>1, <4>3
    <3>6. /\ v \in [pq : SUBSET U, start : Nat, max : Nat, started : BOOLEAN]
          /\ v.pq = pq \ F /\ v.start = next /\ v.started = s.started
      BY <1>1, <2>1, <2>2, <2>4
    <3> HIDE DEF v
    <3>7. CASE F = {}
      <4>1. Sliced(U, W, v)
        BY Zenon, <1>3, <1>4, <1>7, <3>3, <3>5, <3>6, <3>7 DEF Sliced
      <4> QED
        BY Zenon, <3>2, <3>7, <4>1 DEF SlicedOn
    <3>8. CASE F # {}
      <4>1. Append(W, F) \in Seq(SUBSET U)
        BY Zenon, <1>4, <2>4, AppendIn
      <4>2. Sliced(U, Append(W, F), v)
        BY Zenon, <1>3, <1>7, <3>3, <3>5, <3>6, <4>1 DEF Sliced
      <4> QED
        BY Zenon, <2>4, <3>2, <3>8, <4>2 DEF SlicedOn
    <3> QED
      BY Zenon, <3>7, <3>8
  <2> QED
    BY Zenon, <2>5, <2>6
<1> QED
  BY Zenon, <1>2, <1>5, <1>6, <1>7

\* fixed_time_window's state and all its windows, from the events so far.
Intervals ==
  kind = "fixed_time" =>
    Outs \in Seq(Seq(SUBSET EventSet)) /\ Sliced(Timed, Flattened(Outs), st)

\* The windows so far and one more output.
LEMMA WindowsGrow ==
  ASSUME NEW S, NEW o \in Seq(Seq(S))
  PROVE  /\ Append(o, <<>>) \in Seq(Seq(S)) /\ Flattened(Append(o, <<>>)) = Flattened(o)
         /\ \A F \in S : /\ Append(o, <<F>>) \in Seq(Seq(S))
                         /\ Flattened(Append(o, <<F>>)) = Append(Flattened(o), F)
<1> DEFINE f == Flattened(o)
<1>1. f \in Seq(S)
  BY Zenon, FlattenType
<1>2. <<>> \in Seq(S) /\ \A F \in S : <<F>> \in Seq(S)
  OBVIOUS
<1>3. Append(o, <<>>) \in Seq(Seq(S)) /\ \A F \in S : Append(o, <<F>>) \in Seq(Seq(S))
  BY Zenon, <1>2, AppendIn
<1>4. /\ Flattened(Append(o, <<>>)) = f \o <<>>
      /\ \A F \in S : Flattened(Append(o, <<F>>)) = f \o <<F>>
  BY Zenon, <1>2, FlattenAppend
<1> HIDE DEF f
<1>5. f \o <<>> = f /\ \A F \in S : f \o <<F>> = Append(f, F)
  BY <1>1
<1> QED
  BY Zenon, <1>3, <1>4, <1>5 DEF f

\* Every step keeps fixed_time_window's state what it should be.
LEMMA IntervalsStep ==
  ASSUME Counted, Intervals, [Next]_vars
  PROVE  Intervals'
<1> SUFFICES ASSUME kind' = "fixed_time"
             PROVE  /\ Outs' \in Seq(Seq(SUBSET EventSet'))
                    /\ Sliced(Timed', Flattened(Outs'), st')
  BY Zenon DEF Intervals
<1>1. Base /\ Fed
  BY Zenon DEF Counted
<1>2. kind = "fixed_time" /\ kind \in Locked /\ kind' = kind
  BY Zenon, <1>1, KindStays, WindowKinds
<1>3. EventSet' = EventSet
  BY Zenon, <1>2, EventsStay
<1>4. Outs \in Seq(Seq(SUBSET EventSet)) /\ Sliced(Timed, Flattened(Outs), st)
  BY Zenon, <1>2 DEF Intervals
<1>5. CASE UNCHANGED <<st, calls>>
  <2>1. Timed' = Timed /\ Outs' = Outs
    BY Zenon, <1>2, <1>5, SameTimed, SameHistory
  <2> QED
    BY Zenon, <1>3, <1>4, <1>5, <2>1
<1>6. ASSUME NEW e, Called(e)
      PROVE  Outs' \in Seq(Seq(SUBSET EventSet)) /\ Sliced(Timed', Flattened(Outs'), st')
  <2> DEFINE r == FixedTimeWindow(DT, st, e)
  <2>1. e \in EventSet /\ st' = r.st /\ Returned(e, r.out)
    BY Zenon, <1>2, <1>6, Closures DEF Called
  <2>2. Outs' = Append(Outs, r.out)
    BY Zenon, <1>1, <2>1, HistoryGrows
  <2>3. Timed' = IF Has(e, "time") THEN Timed \cup {e} ELSE Timed
    BY Zenon, <1>1, <2>1, TimedGrows
  <2>4. /\ Append(Outs, <<>>) \in Seq(Seq(SUBSET EventSet))
        /\ Flattened(Append(Outs, <<>>)) = Flattened(Outs)
        /\ \A F \in SUBSET EventSet :
             /\ Append(Outs, <<F>>) \in Seq(Seq(SUBSET EventSet))
             /\ Flattened(Append(Outs, <<F>>)) = Append(Flattened(Outs), F)
    BY Zenon, <1>4, WindowsGrow
  <2>5. CASE Has(e, "time")
    <3>1. e.time \in Nat
      BY Zenon, <1>2, <2>1, <2>5, TimesOf
    <3>2. SlicedOn(Timed \cup {e}, Flattened(Outs), r.st, r.out)
      BY Zenon, <1>4, <2>5, <3>1, SlicesOn
    <3> HIDE DEF r
    <3>3. Timed \cup {e} \subseteq EventSet
      BY Zenon, <1>1, <1>2, <2>1, TimedAreNat
    <3>4. CASE r.out = <<>> /\ Sliced(Timed \cup {e}, Flattened(Outs), r.st)
      BY Zenon, <2>1, <2>2, <2>3, <2>4, <2>5, <3>4
    <3>5. ASSUME NEW F \in SUBSET (Timed \cup {e}), r.out = <<F>>,
                 Sliced(Timed \cup {e}, Append(Flattened(Outs), F), r.st)
          PROVE  Outs' \in Seq(Seq(SUBSET EventSet)) /\ Sliced(Timed', Flattened(Outs'), st')
      <4>1. F \in SUBSET EventSet
        BY Zenon, <3>3
      <4> QED
        BY Zenon, <2>1, <2>2, <2>3, <2>4, <2>5, <3>5, <4>1
    <3> QED
      BY Zenon, <3>2, <3>4, <3>5 DEF SlicedOn
  <2>6. CASE ~Has(e, "time")
    <3> HIDE DEF r
    <3>1. r = [st |-> st, out |-> <<>>]
      BY Zenon, <2>6 DEF r, FixedTimeWindow, Silent
    <3>2. r.st = st /\ r.out = <<>>
      BY Zenon, <3>1
    <3> QED
      BY Zenon, <1>4, <2>1, <2>2, <2>3, <2>4, <2>6, <3>2
  <2> QED
    BY Zenon, <2>5, <2>6
<1> QED
  BY Zenon, <1>2, <1>3, <1>5, <1>6, LockedHistory

\* What fixed_time_window passes on.
LEMMA IntervalsAre ==
  ASSUME Intervals
  PROVE  IntervalWindows
<1> SUFFICES ASSUME kind = "fixed_time" PROVE IntervalWindows
  BY Zenon DEF IntervalWindows
<1> DEFINE W == Flattened(Outs)
<1>1. Sliced(Timed, W, st)
  BY Zenon DEF Intervals
<1>2. Apart(W, Slice(st.start)) /\ Kept(Timed, W, st.pq, st.start)
  BY Zenon, <1>1 DEF Sliced
<1> HIDE DEF W
<1>3. /\ \A i \in DOMAIN W : \A e, f \in W[i] : e.time \div DT = f.time \div DT
      /\ \A i, j \in DOMAIN W : i < j => \A e \in W[i], f \in W[j] : e.time \div DT < f.time \div DT
  BY Zenon, <1>2 DEF Apart, Slice
<1>4. /\ \A e \in Timed : e \in st.pq \/ (\E i \in DOMAIN W : e \in W[i]) \/ e.time < st.start
      /\ \A e \in st.pq : e.time >= st.start
  BY Zenon, <1>2 DEF Kept
<1> QED
  BY Zenon, <1>3, <1>4 DEF W, IntervalWindows

-----------------------------------------------------------------------------
(* The windows of every function, together.                                 *)

WindowsInv == Counted /\ Moving /\ Cut /\ Recent /\ Intervals

\* A closure that was never called has the state it starts with.
LEMMA WindowsInit == Init => WindowsInv
<1> SUFFICES ASSUME Init PROVE Moving /\ Cut /\ Recent /\ Intervals
  BY Zenon, CountedInit DEF WindowsInv
<1>1. st = InitState(kind) /\ calls = <<>>
  BY Zenon DEF Init
<1>2. K = 0 /\ 1..K = {} /\ N \in Nat /\ N >= 1 /\ DT \in Nat
  BY <1>1, StreamAssumption DEF K
<1>3. Inputs = <<>> /\ Outs = <<>>
  <2>1. Inputs = [i \in 1..0 |-> Input(i)] /\ Outs = [i \in 1..0 |-> calls[i].out]
    BY Zenon, <1>2 DEF Inputs, Outs
  <2> QED
    BY <2>1
<1>4. Timed = {}
  BY Zenon, <1>2 DEF Timed
<1>5. ~(K > 0)
  BY <1>2
<1>6. \A S : <<>> \in Seq(S)
  OBVIOUS
<1>7. Flattened(<<>>) = <<>>
  BY Zenon, FlattenEmpty
<1>8. DOMAIN <<>> = {} /\ Len(<<>>) = 0 /\ <<>> \o <<>> = <<>> /\ 0 < N
  BY <1>2
<1>9. Moving
  <2>1. LastOf(<<>>) = <<>>
    BY <1>2 DEF LastOf
  <2> QED
    BY Zenon, <1>1, <1>3, <1>5, <2>1, Starts DEF Moving
<1>10. Cut
  BY Zenon, <1>1, <1>3, <1>6, <1>7, <1>8, Starts DEF Cut
<1>11. Recent
  <2> SUFFICES ASSUME kind = "moving_time" PROVE Recent
    BY Zenon DEF Recent
  <2>1. st = [pq |-> {}, max |-> 0]
    BY Zenon, <1>1, Starts DEF MovingTimeInit
  <2>2. Newest({}, 0)
    BY DEF Newest
  <2>3. Within({}, 0) = {}
    BY Zenon DEF Within
  <2> QED
    BY Zenon, <1>4, <1>5, <2>1, <2>2, <2>3 DEF Recent
<1>12. Intervals
  <2> SUFFICES ASSUME kind = "fixed_time" PROVE Intervals
    BY Zenon DEF Intervals
  <2>1. st = [pq |-> {}, start |-> 0, max |-> 0, started |-> FALSE]
    BY Zenon, <1>1, Starts DEF FixedTimeInit
  <2>2. /\ st \in [pq : SUBSET {}, start : Nat, max : Nat, started : BOOLEAN]
        /\ st.pq = {} /\ st.start = 0 /\ ~st.started
    BY <2>1
  <2>3. Apart(<<>>, Slice(0)) /\ Kept({}, <<>>, {}, 0)
    BY Zenon, <1>8 DEF Apart, Kept
  <2>4. Sliced({}, <<>>, st)
    BY Zenon, <1>6, <2>2, <2>3 DEF Sliced
  <2> QED
    BY Zenon, <1>3, <1>4, <1>6, <1>7, <2>4 DEF Intervals
<1> QED
  BY Zenon, <1>9, <1>10, <1>11, <1>12

\* Every step keeps what the windows hold.
LEMMA WindowsStep == WindowsInv /\ [Next]_vars => WindowsInv'
  BY Zenon, CountedStep, MovingStep, CutStep, RecentStep, IntervalsStep DEF WindowsInv

\* What the windows hold is what they should pass on.
LEMMA WindowsFollow == WindowsInv => Windows
<1> SUFFICES ASSUME Base, Numbers, Moving, Cut, Recent, Intervals PROVE Windows
  BY Zenon DEF WindowsInv, Counted
<1>1. TypeOK
  <2>1. \A t \in Threads : loc[t] # Idle => t \in Busy
    BY Zenon DEF Busy
  <2> QED
    BY Zenon, <2>1 DEF Base, Numbers, TypeOK
<1>2. EventWindows
  <2>1. Len(Inputs) = K
    BY Zenon, History
  <2> QED
    BY Zenon, <2>1 DEF Moving, Cut, LastOf, EventWindows
<1> QED
  BY Zenon, <1>1, <1>2, RecentIs, IntervalsAre DEF Windows

\* Whatever the order and the number of the calls, and whatever the times of the
\* events: moving_event_window passes on the last N events, fixed_event_window
\* cuts the events into windows of N and loses none, moving_time_window passes
\* on the events less than DT older than the newest, and fixed_time_window
\* passes on every event once, interval by interval, save those that come after
\* their interval was closed.
THEOREM WindowsHold == Spec => []Windows
  BY WindowsInit, WindowsStep, WindowsFollow, PTL DEF Spec

-----------------------------------------------------------------------------
(* throttle.                                                                *)

\* An event is one the function tells apart, and its number.
LEMMA Fields ==
  ASSUME NEW e \in EventSet
  PROVE  \E x \in EventsOf(kind) : /\ \A f : Has(e, f) <=> (Has(x, f) \/ f = "id")
                                   /\ \A f : Has(x, f) /\ f # "id" => e[f] = x[f]
<1>1. PICK n \in Nat, x \in EventsOf(kind) : e = Put(x, "id", n)
  BY Zenon DEF EventSet, EventSetOf
<1>2. \A f : Has(e, f) <=> (Has(x, f) \/ f = "id")
  BY Zenon, <1>1 DEF Has, Put
<1>3. \A f : Has(x, f) /\ f # "id" => e[f] = x[f]
  BY Zenon, <1>1 DEF Has, Put
<1> QED
  BY Zenon, <1>2, <1>3

\* The events of throttle have a time.
LEMMA ThrottleEvents ==
  ASSUME kind = "throttle"
  PROVE  \A e \in EventSet : Get(e, "time") = e.time /\ e.time \in Nat
<1> SUFFICES ASSUME NEW e \in EventSet PROVE Has(e, "time") /\ e.time \in Nat
  BY Zenon DEF Get
<1>1. EventsOf(kind) = [time : Times]
  BY DEF EventsOf
<1>2. PICK x \in EventsOf(kind) : /\ \A f : Has(e, f) <=> (Has(x, f) \/ f = "id")
                                  /\ \A f : Has(x, f) /\ f # "id" => e[f] = x[f]
  BY Zenon, Fields
<1>3. Has(x, "time") /\ x.time \in Times
  <2>1. x \in [time : Times]
    BY Zenon, <1>1
  <2>2. x.time \in Times /\ DOMAIN x = {"time"}
    BY <2>1
  <2> QED
    BY Zenon, <2>2 DEF Has
<1>4. "time" # "id"
  OBVIOUS
<1>5. Has(e, "time") /\ e.time \in Times
  BY Zenon, <1>2, <1>3, <1>4
<1> QED
  BY <1>5, StreamAssumption DEF Times

\* The events f passed on, from the second on, are more than DT apart, and the
\* interval that the last one opened is not over.
Paced(f, t) ==
  /\ t \in [forwarded : {0, 1}, new_interval : Nat]
  /\ t.forwarded = 0 => f = <<>>
  /\ Len(f) >= 2 => f[Len(f)].time + DT <= t.new_interval
  /\ \A i \in 2..(Len(f) - 1) : f[i].time + DT < f[i + 1].time

\* throttle passes on x, or not.
PacedOn(f, x, r) ==
  (r.out = <<>> /\ Paced(f, r.st)) \/ (r.out = <<x>> /\ Paced(Append(f, x), r.st))

\* A new interval begins after the old one is over.
LEMMA PacesOn ==
  ASSUME NEW S, \A y \in S : Get(y, "time") = y.time /\ y.time \in Nat,
         NEW f \in Seq(S), NEW t, Paced(f, t), NEW x \in S
  PROVE  PacedOn(f, x, Throttle(1, DT, t, x))
<1> DEFINE R == Throttle(1, DT, t, x)
           g == Append(f, x)
<1>0. DT \in Nat /\ x.time \in Nat /\ Get(x, "time") = x.time
  BY Zenon, StreamAssumption
<1>1. t \in [forwarded : {0, 1}, new_interval : Nat]
  BY Zenon DEF Paced
<1>2. t.forwarded \in {0, 1} /\ t.new_interval \in Nat
  BY <1>1
<1>3. /\ Len(f) \in Nat /\ Len(g) = Len(f) + 1 /\ g[Len(f) + 1] = x
      /\ \A i \in 1..Len(f) : g[i] = f[i]
  OBVIOUS
<1>4. \A i \in 1..Len(f) : f[i] \in S
  OBVIOUS
<1> HIDE DEF g
<1>5. CASE t.new_interval < x.time
  <2> DEFINE n == t.new_interval + x.time + DT
             v == [forwarded |-> 1, new_interval |-> n]
  <2>1. R = [st |-> v, out |-> <<x>>]
    <3> DEFINE r == [forwarded |-> 0, new_interval |-> n]
    <3>1. r.forwarded < 1 /\ [r EXCEPT !.forwarded = @ + 1] = v
      OBVIOUS
    <3>2. R = IF r.forwarded < 1 THEN Forward([r EXCEPT !.forwarded = @ + 1], <<x>>) ELSE Silent(r)
      BY Zenon, <1>0, <1>5 DEF Throttle
    <3> QED
      BY Zenon, <3>1, <3>2 DEF Forward
  <2>2. n \in Nat /\ x.time + DT <= n
    BY <1>0, <1>2
  <2>3. /\ v \in [forwarded : {0, 1}, new_interval : Nat] /\ v.forwarded # 0
        /\ v.new_interval = n
    BY <2>2
  <2> HIDE DEF v, n
  <2>4. Len(g) >= 2 => g[Len(g)].time + DT <= v.new_interval
    BY Zenon, <1>3, <2>2, <2>3
  <2>5. ASSUME NEW i \in 2..(Len(g) - 1) PROVE g[i].time + DT < g[i + 1].time
    <3>1. CASE i = Len(f)
      <4>1. Len(f) >= 2 /\ i \in 1..Len(f)
        BY <1>3, <3>1
      <4>2. g[i] = f[Len(f)] /\ g[i + 1] = x /\ f[Len(f)].time \in Nat
        BY Zenon, <1>3, <1>4, <3>1, <4>1
      <4>3. f[Len(f)].time + DT <= t.new_interval
        BY Zenon, <4>1 DEF Paced
      <4>4. f[Len(f)].time + DT < x.time
        BY <1>0, <1>2, <1>5, <4>2, <4>3
      <4> QED
        BY Zenon, <4>2, <4>4
    <3>2. CASE i # Len(f)
      <4>1. i \in 2..(Len(f) - 1) /\ i \in 1..Len(f) /\ i + 1 \in 1..Len(f)
        BY <1>3, <3>2
      <4> QED
        BY Zenon, <1>3, <4>1 DEF Paced
    <3> QED
      BY Zenon, <3>1, <3>2
  <2>6. Paced(g, v)
    BY Zenon, <2>3, <2>4, <2>5 DEF Paced
  <2> HIDE DEF R
  <2>7. R.st = v /\ R.out = <<x>>
    BY Zenon, <2>1
  <2>8. PacedOn(f, x, R)
    BY Zenon, <2>6, <2>7 DEF PacedOn, g
  <2> QED
    BY Zenon, <2>8 DEF R
<1>6. CASE ~(t.new_interval < x.time) /\ t.forwarded = 0
  <2> DEFINE v == [t EXCEPT !.forwarded = @ + 1]
  <2>1. R = [st |-> v, out |-> <<x>>]
    <3>1. t.forwarded < 1
      BY <1>6
    <3> QED
      BY Zenon, <1>0, <1>6, <3>1 DEF Throttle, Forward
  <2>2. v \in [forwarded : {0, 1}, new_interval : Nat] /\ v.forwarded # 0
    BY <1>1, <1>6
  <2> HIDE DEF v
  <2>3. f = <<>>
    BY Zenon, <1>6 DEF Paced
  <2>4. Len(g) = 1
    BY <1>3, <2>3
  <2>5. ~(Len(g) >= 2) /\ 2..(Len(g) - 1) = {}
    BY <2>4
  <2>6. Paced(g, v)
    BY Zenon, <2>2, <2>5 DEF Paced
  <2> HIDE DEF R
  <2>7. R.st = v /\ R.out = <<x>>
    BY Zenon, <2>1
  <2>8. PacedOn(f, x, R)
    BY Zenon, <2>6, <2>7 DEF PacedOn, g
  <2> QED
    BY Zenon, <2>8 DEF R
<1>7. CASE ~(t.new_interval < x.time) /\ t.forwarded = 1
  <2>1. R = [st |-> t, out |-> <<>>]
    <3>1. ~(t.forwarded < 1)
      BY <1>7
    <3> QED
      BY Zenon, <1>0, <1>7, <3>1 DEF Throttle, Silent
  <2> HIDE DEF R
  <2>2. R.st = t /\ R.out = <<>>
    BY Zenon, <2>1
  <2>3. PacedOn(f, x, R)
    BY Zenon, <2>2 DEF PacedOn
  <2> QED
    BY Zenon, <2>3 DEF R
<1> QED
  BY Zenon, <1>2, <1>5, <1>6, <1>7

\* throttle's state, from what it has passed on.
Throttled ==
  kind = "throttle" => Outs \in Seq(Seq(EventSet)) /\ Paced(Flattened(Outs), st)

\* Every step keeps throttle's pace.
LEMMA ThrottledStep ==
  ASSUME Counted, Throttled, [Next]_vars
  PROVE  Throttled'
<1> SUFFICES ASSUME kind' = "throttle"
             PROVE  Outs' \in Seq(Seq(EventSet')) /\ Paced(Flattened(Outs'), st')
  BY Zenon DEF Throttled
<1>1. Base /\ Fed
  BY Zenon DEF Counted
<1>2. kind = "throttle" /\ kind \in Locked /\ kind' = kind
  BY Zenon, <1>1, KindStays, WindowKinds
<1>3. EventSet' = EventSet
  BY Zenon, <1>2, EventsStay
<1>4. Outs \in Seq(Seq(EventSet)) /\ Paced(Flattened(Outs), st)
  BY Zenon, <1>2 DEF Throttled
<1>5. CASE UNCHANGED <<st, calls>>
  BY Zenon, <1>2, <1>3, <1>4, <1>5, SameHistory
<1>6. ASSUME NEW e, Called(e)
      PROVE  Outs' \in Seq(Seq(EventSet)) /\ Paced(Flattened(Outs'), st')
  <2> DEFINE r == Throttle(1, DT, st, e)
  <2>1. e \in EventSet /\ st' = r.st /\ Returned(e, r.out)
    BY Zenon, <1>2, <1>6, Closures DEF Called
  <2>2. Outs' = Append(Outs, r.out)
    BY Zenon, <1>1, <2>1, HistoryGrows
  <2>3. /\ Append(Outs, <<>>) \in Seq(Seq(EventSet))
        /\ Flattened(Append(Outs, <<>>)) = Flattened(Outs)
        /\ Append(Outs, <<e>>) \in Seq(Seq(EventSet))
        /\ Flattened(Append(Outs, <<e>>)) = Append(Flattened(Outs), e)
    BY Zenon, <1>4, <2>1, WindowsGrow
  <2>4. Flattened(Outs) \in Seq(EventSet)
    BY Zenon, <1>4, FlattenType
  <2>5. PacedOn(Flattened(Outs), e, r)
    BY Zenon, <1>2, <1>4, <2>1, <2>4, ThrottleEvents, PacesOn
  <2> HIDE DEF r
  <2> QED
    BY Zenon, <2>1, <2>2, <2>3, <2>5 DEF PacedOn
<1> QED
  BY Zenon, <1>2, <1>3, <1>5, <1>6, LockedHistory

\* What the pace means for any three events in a row.
LEMMA ThrottledIs ==
  ASSUME Throttled
  PROVE  ThrottleLimit
<1> SUFFICES ASSUME kind = "throttle" PROVE ThrottleLimit
  BY Zenon DEF ThrottleLimit
<1> DEFINE f == Flattened(Outs)
<1>1. Outs \in Seq(Seq(EventSet)) /\ Paced(f, st)
  BY Zenon DEF Throttled
<1>2. f \in Seq(EventSet)
  BY Zenon, <1>1, FlattenType
<1> HIDE DEF f
<1>3. ASSUME NEW i \in 1..(Len(f) - 2) PROVE \E j, k \in i..(i + 2) : f[k].time - f[j].time > DT
  <2>1. /\ i + 1 \in 2..(Len(f) - 1) /\ (i + 1) + 1 = i + 2 /\ i + 1 \in i..(i + 2)
        /\ i + 2 \in i..(i + 2) /\ i + 1 \in 1..Len(f) /\ i + 2 \in 1..Len(f)
    BY <1>2
  <2>2. f[i + 1] \in EventSet /\ f[i + 2] \in EventSet
    BY <1>2, <2>1
  <2>3. f[i + 1].time \in Nat /\ f[i + 2].time \in Nat
    BY Zenon, <2>2, ThrottleEvents
  <2>4. f[i + 1].time + DT < f[i + 2].time
    BY Zenon, <1>1, <2>1 DEF Paced
  <2>5. DT \in Nat
    BY StreamAssumption
  <2>6. f[i + 2].time - f[i + 1].time > DT
    BY <2>3, <2>4, <2>5
  <2> QED
    BY Zenon, <2>1, <2>6
<1> QED
  BY Zenon, <1>3 DEF f, ThrottleLimit

-----------------------------------------------------------------------------
(* stable.                                                                  *)

\* The events q are in the order of their numbers, all at most k.
Rising(S, q, k) ==
  /\ q \in Seq(S) /\ k \in Nat
  /\ \A i \in DOMAIN q : q[i].id \in Nat /\ q[i].id <= k
  /\ \A i, j \in DOMAIN q : i < j => q[i].id < q[j].id

\* The next event may follow them, or not.
LEMMA RisesOn ==
  ASSUME NEW S, NEW q, NEW k, Rising(S, q, k), NEW x \in S, x.id = k + 1
  PROVE  Rising(S, q, k + 1) /\ Rising(S, Append(q, x), k + 1)
<1>1. k \in Nat /\ k + 1 \in Nat /\ q \in Seq(S) /\ x.id \in Nat /\ x.id <= k + 1
  BY DEF Rising
<1>2. \A i \in DOMAIN q : q[i].id \in Nat /\ q[i].id <= k
  BY Zenon DEF Rising
<1>3. \A i \in DOMAIN q : q[i].id <= k + 1 /\ q[i].id < k + 1
  BY <1>1, <1>2
<1> DEFINE p == Append(q, x)
<1>4. p \in Seq(S)
  BY Zenon, <1>1, AppendIn
<1>5. /\ DOMAIN p = 1..(Len(q) + 1) /\ Len(q) \in Nat /\ DOMAIN q = 1..Len(q)
      /\ \A i \in DOMAIN q : p[i] = q[i]
      /\ \A i \in DOMAIN p : i \in DOMAIN q \/ (i = Len(q) + 1 /\ p[i] = x)
  BY Zenon, <1>1, AppendElements
<1> HIDE DEF p
<1>6. \A i, j \in DOMAIN p : i < j => i \in DOMAIN q
  BY <1>5
<1>7. ASSUME NEW i \in DOMAIN p PROVE p[i].id \in Nat /\ p[i].id <= k + 1
  BY Zenon, <1>1, <1>2, <1>3, <1>5
<1>8. ASSUME NEW i \in DOMAIN p, NEW j \in DOMAIN p, i < j PROVE p[i].id < p[j].id
  <2>1. i \in DOMAIN q /\ p[i] = q[i]
    BY Zenon, <1>5, <1>6, <1>8
  <2>2. CASE j \in DOMAIN q
    BY Zenon, <1>5, <1>8, <2>1, <2>2 DEF Rising
  <2>3. CASE p[j] = x
    BY Zenon, <1>3, <2>1, <2>3
  <2> QED
    BY Zenon, <1>5, <2>2, <2>3
<1>9. Rising(S, q, k + 1)
  BY Zenon, <1>1, <1>2, <1>3 DEF Rising
<1>10. Rising(S, p, k + 1)
  BY Zenon, <1>1, <1>4, <1>7, <1>8 DEF Rising
<1> QED
  BY Zenon, <1>9, <1>10 DEF p

\* What stable has passed on, f, and holds back, and the state of all it holds.
Steady(S, f, s, k) ==
  /\ s = [state |-> s.state, buffer |-> s.buffer, start |-> s.start]
  /\ s.start \in Nat /\ s.buffer \in Seq(S)
  /\ \A i \in DOMAIN s.buffer : s.buffer[i].state = s.state
  /\ Rising(S, f, k) /\ Rising(S, f \o s.buffer, k)

\* The events stable tells apart.
Stateful(S) ==
  \A e \in S : Get(e, "time") = e.time /\ e.time \in Nat /\ Get(e, "state") = e.state

\* The events of stable have a state and a time.
LEMMA AllStateful ==
  ASSUME kind = "stable"
  PROVE  Stateful(EventSet)
<1> SUFFICES ASSUME NEW e \in EventSet PROVE Has(e, "time") /\ e.time \in Nat /\ Has(e, "state")
  BY Zenon DEF Get, Stateful
<1>1. EventsOf(kind) = [state : {"", "ok"}, time : Times]
  BY DEF EventsOf
<1>2. PICK x \in EventsOf(kind) : /\ \A f : Has(e, f) <=> (Has(x, f) \/ f = "id")
                                  /\ \A f : Has(x, f) /\ f # "id" => e[f] = x[f]
  BY Zenon, Fields
<1>3. Has(x, "time") /\ x.time \in Times /\ Has(x, "state")
  <2>1. x \in [state : {"", "ok"}, time : Times]
    BY Zenon, <1>1
  <2>2. x.time \in Times /\ DOMAIN x = {"state", "time"}
    BY <2>1
  <2> QED
    BY Zenon, <2>2 DEF Has
<1>4. "time" # "id"
  OBVIOUS
<1>5. Has(e, "time") /\ e.time \in Times /\ Has(e, "state")
  BY Zenon, <1>2, <1>3, <1>4
<1> QED
  BY <1>5, StreamAssumption DEF Times

\* What a call may do: hold back, or pass on all it holds.
SteadyOn(S, f, k, s, x, r) ==
  \/ r.out = <<>> /\ Steady(S, f, r.st, k + 1)
  \/ /\ r.out \in Seq(S) /\ Steady(S, f \o r.out, r.st, k + 1)
     /\ \A i \in DOMAIN r.out : r.out[i].state = x.state
     /\ s.state = x.state /\ s.start + DT <= x.time

\* stable restarts with every change of state, and passes on what it holds
\* when the state has lasted for DT.
LEMMA SteadiesOn ==
  ASSUME NEW S, Stateful(S), NEW f, NEW s, NEW k, Steady(S, f, s, k), NEW x \in S, x.id = k + 1
  PROVE  SteadyOn(S, f, k, s, x, Stable(DT, s, x))
<1> DEFINE r == Stable(DT, s, x)
<1> SUFFICES SteadyOn(S, f, k, s, x, r)
  BY Zenon
<1> HIDE DEF r
<1>0. x.time \in Nat /\ Get(x, "time") = x.time /\ Get(x, "state") = x.state /\ DT \in Nat
  BY Zenon, StreamAssumption DEF Stateful
<1>1. /\ s = [state |-> s.state, buffer |-> s.buffer, start |-> s.start]
      /\ s.start \in Nat /\ s.buffer \in Seq(S)
      /\ \A i \in DOMAIN s.buffer : s.buffer[i].state = s.state
      /\ Rising(S, f, k) /\ Rising(S, f \o s.buffer, k)
  BY Zenon DEF Steady
<1>2. /\ Rising(S, f, k + 1) /\ Rising(S, Append(f, x), k + 1)
      /\ Rising(S, f \o s.buffer, k + 1) /\ Rising(S, Append(f \o s.buffer, x), k + 1)
  BY Zenon, <1>1, RisesOn
<1>3. f \in Seq(S)
  BY Zenon, <1>1 DEF Rising
<1> DEFINE b == Append(s.buffer, x)
<1>4. f \o b = Append(f \o s.buffer, x) /\ b \in Seq(S)
  <2>1. PICK c : c = s.buffer
    BY Zenon
  <2>2. c \in Seq(S)
    BY Zenon, <1>1, <2>1
  <2>3. f \o Append(c, x) = Append(f \o c, x)
    BY <1>3, <2>2, ConcatAppend
  <2>4. Append(c, x) \in Seq(S)
    BY Zenon, <2>2, AppendIn
  <2> QED
    BY Zenon, <2>1, <2>3, <2>4
<1>5. s.state = x.state => \A i \in DOMAIN b : b[i].state = x.state
  <2>1. /\ \A i \in DOMAIN s.buffer : b[i] = s.buffer[i]
        /\ \A i \in DOMAIN b : i \in DOMAIN s.buffer \/ (i = Len(s.buffer) + 1 /\ b[i] = x)
    <3>1. PICK c : c = s.buffer
      BY Zenon
    <3>2. c \in Seq(S)
      BY Zenon, <1>1, <3>1
    <3>3. /\ \A i \in DOMAIN c : Append(c, x)[i] = c[i]
          /\ \A i \in DOMAIN Append(c, x) :
               i \in DOMAIN c \/ (i = Len(c) + 1 /\ Append(c, x)[i] = x)
      BY Zenon, <3>2, AppendElements
    <3> QED
      BY Zenon, <3>1, <3>3
  <2> HIDE DEF b
  <2> QED
    BY Zenon, <1>1, <2>1
<1> HIDE DEF b
<1>6. CASE s.state # x.state
  <2> DEFINE v == [state |-> x.state, buffer |-> <<x>>, start |-> x.time]
  <2>1. r = [st |-> v, out |-> <<>>]
    BY Zenon, <1>0, <1>6 DEF r, Stable, Silent
  <2>2. r.st = v /\ r.out = <<>>
    BY Zenon, <2>1
  <2>3. v.state = x.state /\ v.buffer = <<x>> /\ v.start = x.time
    BY Zenon
  <2>4. <<x>> \in Seq(S) /\ f \o <<x>> = Append(f, x) /\ \A i \in DOMAIN <<x>> : <<x>>[i] = x
    BY <1>3
  <2>5. Steady(S, f, v, k + 1)
    BY Zenon, <1>0, <1>2, <2>3, <2>4 DEF Steady
  <2> QED
    BY Zenon, <2>2, <2>5 DEF SteadyOn
<1>7. CASE s.state = x.state /\ x.time < s.start
  <2>1. r = [st |-> s, out |-> <<>>]
    BY Zenon, <1>0, <1>7 DEF r, Stable, Silent
  <2>2. r.st = s /\ r.out = <<>>
    BY Zenon, <2>1
  <2>3. Steady(S, f, s, k + 1)
    BY Zenon, <1>1, <1>2 DEF Steady
  <2> QED
    BY Zenon, <2>2, <2>3 DEF SteadyOn
<1>8. CASE s.state = x.state /\ ~(x.time < s.start) /\ s.start + DT > x.time
  <2> DEFINE v == [state |-> s.state, buffer |-> b, start |-> s.start]
  <2>1. [s EXCEPT !.buffer = Append(@, x)] = v
    BY <1>1 DEF b
  <2>2. r = [st |-> [s EXCEPT !.buffer = Append(@, x)], out |-> <<>>]
    BY Zenon, <1>0, <1>8 DEF r, Stable, Silent
  <2>3. r.st = v /\ r.out = <<>>
    BY Zenon, <2>1, <2>2
  <2>4. v.state = s.state /\ v.buffer = b /\ v.start = s.start
    BY Zenon
  <2>5. Steady(S, f, v, k + 1)
    BY Zenon, <1>1, <1>2, <1>4, <1>5, <1>8, <2>4 DEF Steady
  <2> QED
    BY Zenon, <2>3, <2>5 DEF SteadyOn
<1>9. CASE s.state = x.state /\ ~(x.time < s.start) /\ ~(s.start + DT > x.time)
  <2> DEFINE v == [state |-> s.state, buffer |-> <<>>, start |-> s.start]
  <2>1. [s EXCEPT !.buffer = <<>>] = v
    BY <1>1
  <2>2. r = [st |-> [s EXCEPT !.buffer = <<>>], out |-> b]
    BY Zenon, <1>0, <1>9 DEF r, b, Stable, Forward
  <2>3. r.st = v /\ r.out = b
    BY Zenon, <2>1, <2>2
  <2>4. v.state = s.state /\ v.buffer = <<>> /\ v.start = s.start
    BY Zenon
  <2>5. f \o b \in Seq(S)
    BY Zenon, <1>3, <1>4, ConcatIn
  <2>6. <<>> \in Seq(S) /\ DOMAIN <<>> = {} /\ (f \o b) \o <<>> = f \o b
    BY <2>5
  <2>7. Steady(S, f \o b, v, k + 1)
    BY Zenon, <1>1, <1>2, <1>4, <2>4, <2>6 DEF Steady
  <2>8. s.start + DT <= x.time
    BY <1>0, <1>1, <1>9
  <2> QED
    BY Zenon, <1>4, <1>5, <1>9, <2>3, <2>7, <2>8 DEF SteadyOn
<1> QED
  BY Zenon, <1>6, <1>7, <1>8, <1>9

\* The state has lasted since the call b, the first of its run.
Since(b, state, start) ==
  b \in 1..K /\ (\A m \in b..K : Input(m).state = state) /\ Input(b).time = start

\* Every event passed on ends a run of its state that began DT before.
RunsEnd ==
  \A i \in 1..K : \A j \in DOMAIN calls[i].out :
    calls[i].out[j].state # "" =>
      \E b \in 1..i : /\ \A m \in b..i : Input(m).state = calls[i].out[j].state
                      /\ Input(b).time + DT <= Input(i).time

\* stable's state, from the calls so far.
Settled ==
  kind = "stable" =>
    /\ Outs \in Seq(Seq(EventSet)) /\ Steady(EventSet, Flattened(Outs), st, K)
    /\ st.state # "" => \E b : Since(b, st.state, st.start)
    /\ RunsEnd

\* What stable's state means for what it has passed on.
LEMMA SettledIs ==
  ASSUME Settled
  PROVE  StableRuns
<1> SUFFICES ASSUME kind = "stable" PROVE StableRuns
  BY Zenon DEF StableRuns
<1>1. RunsEnd /\ Rising(EventSet, Flattened(Outs), K)
  BY Zenon DEF Settled, Steady
<1> QED
  BY Zenon, <1>1 DEF RunsEnd, Rising, StableRuns

\* Places up to a place are places.
LEMMA Places ==
  ASSUME NEW k \in Nat, NEW i \in 1..k
  PROVE  k \in 1..k /\ \A b \in 1..i : b \in 1..k
OBVIOUS

\* Nothing is at any place of the empty sequence.
LEMMA EmptyDomain == DOMAIN << >> = {}
<1>1. << >> = [i \in 1..0 |-> 0]
  OBVIOUS
<1>2. 1..0 = {}
  OBVIOUS
<1> QED
  BY Zenon, <1>1, <1>2

\* A change of state restarts the clock of stable, and nothing else does.
Timing(s, x) ==
  /\ Stable(DT, s, x).st.state = Get(x, "state")
  /\ Stable(DT, s, x).st.start = IF s.state # Get(x, "state") THEN Get(x, "time") ELSE s.start

\* stable keeps the time of the last change of state.
LEMMA StableClock ==
  ASSUME NEW s, s = [state |-> s.state, buffer |-> s.buffer, start |-> s.start], NEW x
  PROVE  Timing(s, x)
<1> USE DEF Timing
<1> DEFINE r == Stable(DT, s, x)
           b == Append(s.buffer, x)
<1>1. /\ [s EXCEPT !.buffer = Append(@, x)] = [state |-> s.state, buffer |-> b, start |-> s.start]
      /\ [s EXCEPT !.buffer = <<>>] = [state |-> s.state, buffer |-> <<>>, start |-> s.start]
  OBVIOUS
<1>2. \/ /\ s.state # Get(x, "state")
         /\ r.st = [state |-> Get(x, "state"), buffer |-> <<x>>, start |-> Get(x, "time")]
      \/ s.state = Get(x, "state") /\ r.st = s
      \/ s.state = Get(x, "state") /\ r.st = [s EXCEPT !.buffer = Append(@, x)]
      \/ s.state = Get(x, "state") /\ r.st = [s EXCEPT !.buffer = <<>>]
  <2>1. \A v, o : [st |-> v, out |-> o].st = v
    BY Zenon
  <2> QED
    BY Zenon, <2>1 DEF Stable, Silent, Forward
<1> HIDE DEF r, b
<1>3. CASE s.state # Get(x, "state")
  <2>1. r.st = [state |-> Get(x, "state"), buffer |-> <<x>>, start |-> Get(x, "time")]
    BY Zenon, <1>2, <1>3
  <2>2. r.st.state = Get(x, "state") /\ r.st.start = Get(x, "time")
    BY <2>1
  <2> QED
    BY Zenon, <1>3, <2>2 DEF r
<1>4. CASE s.state = Get(x, "state")
  <2>1. r.st.state = s.state /\ r.st.start = s.start
    BY Zenon, <1>1, <1>2, <1>4
  <2> QED
    BY Zenon, <1>4, <2>1 DEF r
<1> QED
  BY Zenon, <1>3, <1>4

\* Every step keeps what stable's state says of the calls.
LEMMA SettledStep ==
  ASSUME Counted, Settled, [Next]_vars
  PROVE  Settled'
<1> DEFINE Goal == /\ Outs' \in Seq(Seq(EventSet)) /\ Steady(EventSet, Flattened(Outs'), st', K')
                   /\ st'.state # "" => \E b : Since(b, st.state, st.start)'
                   /\ RunsEnd'
<1>1. Base /\ Fed
  BY Zenon DEF Counted
<1>2. kind' = kind
  BY Zenon, <1>1, KindStays
<1> SUFFICES ASSUME kind = "stable" PROVE Goal
  <2>1. EventSet' = EventSet
    BY Zenon, <1>2, EventsStay
  <2> QED
    BY Zenon, <1>2, <2>1 DEF Settled, Since
<1>3. kind \in Locked
  BY Zenon, WindowKinds
<1>4. /\ Outs \in Seq(Seq(EventSet)) /\ Steady(EventSet, Flattened(Outs), st, K)
      /\ st.state # "" => \E b : Since(b, st.state, st.start)
      /\ RunsEnd
  BY Zenon DEF Settled
<1>5. CASE UNCHANGED <<st, calls>>
  <2>1. Outs' = Outs /\ K' = K /\ \A i : Input(i)' = Input(i)
    BY Zenon, <1>2, <1>5, SameHistory
  <2>2. \A b : Since(b, st.state, st.start) => Since(b, st.state, st.start)'
    BY Zenon, <1>5, <2>1 DEF Since
  <2>3. RunsEnd'
    BY Zenon, <1>4, <1>5, <2>1 DEF RunsEnd
  <2> QED
    BY Zenon, <1>4, <1>5, <2>1, <2>2, <2>3
<1>6. ASSUME NEW e, Called(e) PROVE Goal
  <2> DEFINE r == Stable(DT, st, e)
  <2>1. e \in EventSet /\ st' = r.st /\ Returned(e, r.out) /\ e.id = K + 1
    BY Zenon, <1>6, Closures DEF Called
  <2>2. /\ Outs' = Append(Outs, r.out) /\ K' = K + 1 /\ K \in Nat
        /\ calls'[K'].e = e /\ calls'[K'].out = r.out
    BY Zenon, <1>1, <2>1, HistoryGrows
  <2>3. \A i \in 1..K : calls'[i] = calls[i]
    BY Zenon, <2>1 DEF Returned
  <2>4. SteadyOn(EventSet, Flattened(Outs), K, st, e, r)
    BY Zenon, <1>4, <2>1, AllStateful, SteadiesOn
  <2>5. Outs' \in Seq(Seq(EventSet)) /\ Steady(EventSet, Flattened(Outs'), st', K')
    <3> HIDE DEF r
    <3>1. <<>> \in Seq(EventSet) /\ (r.out = <<>> \/ r.out \in Seq(EventSet))
      <4>1. <<>> \in Seq(EventSet)
        OBVIOUS
      <4> QED
        BY Zenon, <2>4, <4>1 DEF SteadyOn
    <3>2. r.out \in Seq(EventSet)
      BY Zenon, <3>1
    <3>3. Outs' \in Seq(Seq(EventSet))
      BY Zenon, <1>4, <2>2, <3>2, AppendIn
    <3>4. Flattened(Outs') = Flattened(Outs) \o r.out
      BY Zenon, <1>4, <2>2, <3>2, FlattenAppend
    <3>5. r.out = <<>> => Flattened(Outs') = Flattened(Outs)
      BY Zenon, <1>4, <2>2, WindowsGrow
    <3> QED
      BY Zenon, <2>1, <2>2, <2>4, <3>3, <3>4, <3>5 DEF SteadyOn
  <2>6. \A i \in 1..K' : i \in 1..K \/ i = K'
    BY <2>2
  <2>7. K' \in 1..K' /\ (\A i \in 1..K : i \in 1..K') /\ (\A m \in K'..K' : m = K')
    BY <2>2
  <2>8. \A b \in 1..K : \A m \in b..K' : m \in b..K \/ m = K'
    BY <2>2
  <2>9. \A b \in 1..K, i \in 1..K : \A m \in b..i : m \in 1..K
    BY <2>2
  <2>10. st.state # "" /\ st.state = e.state =>
           \E b \in 1..K : /\ \A m \in b..K' : calls'[m].e.state = e.state
                           /\ calls'[b].e.time = st.start
    <3> SUFFICES ASSUME st.state # "", st.state = e.state
                 PROVE  \E b \in 1..K : /\ \A m \in b..K' : calls'[m].e.state = e.state
                                        /\ calls'[b].e.time = st.start
      BY Zenon
    <3>1. PICK b : Since(b, st.state, st.start)
      BY Zenon, <1>4
    <3>2. b \in 1..K /\ K \in 1..K
      <4>1. b \in 1..K
        BY Zenon, <3>1 DEF Since
      <4>2. K \in Nat
        BY Zenon, <2>2
      <4> QED
        BY Zenon, <4>1, <4>2, Places
    <3>3. calls'[b].e.time = st.start
      BY Zenon, <2>3, <3>1, <3>2 DEF Since, Input
    <3>4. ASSUME NEW m \in b..K' PROVE calls'[m].e.state = e.state
      <4>1. CASE m \in b..K
        <5>1. calls'[m] = calls[m]
          BY Zenon, <2>3, <2>9, <3>2, <4>1
        <5> QED
          BY Zenon, <3>1, <4>1, <5>1 DEF Since, Input
      <4>2. CASE m = K'
        BY Zenon, <2>2, <4>2
      <4> QED
        BY Zenon, <2>8, <3>2, <4>1, <4>2
    <3> QED
      BY Zenon, <3>2, <3>3, <3>4
  <2> HIDE DEF r
  <2>11. RunsEnd'
    <3> SUFFICES ASSUME NEW i \in 1..K', NEW j \in DOMAIN calls'[i].out, calls'[i].out[j].state # ""
                 PROVE  \E b \in 1..i : /\ \A m \in b..i : calls'[m].e.state = calls'[i].out[j].state
                                        /\ calls'[b].e.time + DT <= calls'[i].e.time
      BY Zenon DEF RunsEnd, Input
    <3>1. CASE i \in 1..K
      <4>1. calls'[i] = calls[i]
        BY Zenon, <2>3, <3>1
      <4>2. PICK b \in 1..i : /\ \A m \in b..i : calls[m].e.state = calls[i].out[j].state
                              /\ calls[b].e.time + DT <= calls[i].e.time
        BY Zenon, <1>4, <3>1, <4>1 DEF RunsEnd, Input
      <4>3. b \in 1..K
        <5>1. b \in 1..i
          BY Zenon, <4>2
        <5>2. K \in Nat
          BY Zenon, <2>2
        <5> QED
          BY Zenon, <3>1, <5>1, <5>2, Places
      <4>4. \A m \in b..i : calls'[m] = calls[m]
        BY Zenon, <2>3, <2>9, <3>1, <4>3
      <4>5. calls'[b] = calls[b]
        BY Zenon, <2>3, <4>3
      <4> QED
        BY Zenon, <4>1, <4>2, <4>4, <4>5
    <3>2. CASE i = K'
      <4>1. r.out # <<>>
        <5>1. j \in DOMAIN r.out
          BY Zenon, <2>2, <3>2
        <5> QED
          BY Zenon, <5>1, EmptyDomain
      <4>2. /\ \A l \in DOMAIN r.out : r.out[l].state = e.state
            /\ st.state = e.state /\ st.start + DT <= e.time
        BY Zenon, <2>4, <4>1 DEF SteadyOn
      <4>3. calls'[i].out[j].state = e.state
        BY Zenon, <2>2, <3>2, <4>2
      <4>4. PICK b \in 1..K : /\ \A m \in b..K' : calls'[m].e.state = e.state
                              /\ calls'[b].e.time = st.start
        BY Zenon, <2>10, <4>2, <4>3
      <4>5. b \in 1..i
        BY Zenon, <2>7, <3>2
      <4> QED
        BY Zenon, <2>2, <3>2, <4>2, <4>3, <4>4, <4>5
    <3> QED
      BY Zenon, <2>6, <3>1, <3>2
  <2>12. st'.state # "" => \E b : Since(b, st.state, st.start)'
    <3>1. st'.state = e.state /\ st'.start = IF st.state # e.state THEN e.time ELSE st.start
      <4>1. st = [state |-> st.state, buffer |-> st.buffer, start |-> st.start]
        BY Zenon, <1>4 DEF Steady
      <4>2. Get(e, "state") = e.state /\ Get(e, "time") = e.time
        BY Zenon, <2>1, AllStateful DEF Stateful
      <4>3. Timing(st, e)
        BY Zenon, <4>1, StableClock
      <4> QED
        BY Zenon, <2>1, <4>2, <4>3 DEF r, Timing
    <3>2. CASE st.state # e.state
      <4>1. Since(K, st.state, st.start)'
        BY Zenon, <2>2, <2>7, <3>1, <3>2 DEF Since, Input
      <4> QED
        BY Zenon, <4>1 DEF Since
    <3>3. CASE st.state = e.state
      <4> SUFFICES ASSUME st'.state # "" PROVE \E b : Since(b, st.state, st.start)'
        BY Zenon
      <4>1. PICK b \in 1..K : /\ \A m \in b..K' : calls'[m].e.state = e.state
                              /\ calls'[b].e.time = st.start
        BY Zenon, <2>10, <3>1, <3>3
      <4>2. b \in 1..K'
        BY Zenon, <2>7
      <4>3. Since(b, st.state, st.start)'
        BY Zenon, <3>1, <3>3, <4>1, <4>2 DEF Since, Input
      <4> QED
        BY Zenon, <4>3
    <3> QED
      BY Zenon, <3>2, <3>3
  <2> QED
    BY Zenon, <2>5, <2>11, <2>12
<1> QED
  BY Zenon, <1>3, <1>5, <1>6, LockedHistory

-----------------------------------------------------------------------------
(* changed_state, one copy for each host and service.                       *)

\* The key under which by() keeps the copy for an event.
KeyOf(e) == ByKey(<<"host", "service">>, e)

\* Sequences with the same elements.
LEMMA SameElements ==
  ASSUME NEW S, NEW s \in Seq(S), NEW t \in Seq(S), Len(s) = Len(t) /\ \A i \in 1..Len(s) : s[i] = t[i]
  PROVE  s = t
OBVIOUS

\* q has the elements of s, and then those of t.
Joins(S, q, s, t) ==
  /\ q \in Seq(S) /\ Len(q) = Len(s) + Len(t)
  /\ \A i \in 1..Len(s) : q[i] = s[i]
  /\ \A i \in 1..Len(t) : q[Len(s) + i] = t[i]

\* The places of a concatenation.
LEMMA ConcatPlaces ==
  ASSUME NEW S, NEW s \in Seq(S), NEW t \in Seq(S)
  PROVE  Joins(S, s \o t, s, t)
<1>1. s \o t \in Seq(S) /\ Len(s \o t) = Len(s) + Len(t)
  OBVIOUS
<1>2. \A i \in 1..Len(s) : (s \o t)[i] = s[i]
  OBVIOUS
<1>3. \A i \in 1..Len(t) : (s \o t)[Len(s) + i] = t[i]
  OBVIOUS
<1> QED
  BY Zenon, <1>1, <1>2, <1>3 DEF Joins

\* Pairs, one after the other.
LEMMA Pairs ==
  ASSUME NEW S, NEW a \in S, NEW b \in S, NEW c \in S
  PROVE  <<a, b>> \in Seq(S) /\ (<<>> \o <<a, b>>) \o <<c, b>> = <<a, b, c, b>>
<1> DEFINE p == <<a, b>>
           r == <<c, b>>
           q == p \o r
           t == <<a, b, c, b>>
<1>1. /\ p \in Seq(S) /\ Len(p) = 2 /\ p[1] = a /\ p[2] = b
      /\ r \in Seq(S) /\ Len(r) = 2 /\ r[1] = c /\ r[2] = b
      /\ <<>> \o p = p
  OBVIOUS
<1>2. t \in Seq(S) /\ Len(t) = 4 /\ t[1] = a /\ t[2] = b /\ t[3] = c /\ t[4] = b
  OBVIOUS
<1> HIDE DEF p, r, t
<1>3. /\ 1 \in 1..2 /\ 2 \in 1..2 /\ 2 + 2 = 4 /\ 2 + 1 = 3
      /\ \A i \in 1..4 : i = 1 \/ i = 2 \/ i = 3 \/ i = 4
  OBVIOUS
<1>a. /\ q \in Seq(S) /\ Len(q) = Len(p) + Len(r)
      /\ \A i \in 1..Len(p) : q[i] = p[i]
      /\ \A i \in 1..Len(r) : q[Len(p) + i] = r[i]
  <2>1. p \in Seq(S) /\ r \in Seq(S)
    BY Zenon, <1>1
  <2>2. Joins(S, q, p, r)
    BY Zenon, <2>1, ConcatPlaces
  <2> QED
    BY Zenon, <2>2 DEF Joins
<1> HIDE DEF q
<1>4. q \in Seq(S) /\ Len(q) = 4
  BY <1>1, <1>a
<1>5. q[1] = a /\ q[2] = b
  BY Zenon, <1>1, <1>3, <1>a
<1>6. q[3] = c /\ q[4] = b
  <2>1. q[2 + 1] = c /\ q[2 + 2] = b
    BY Zenon, <1>1, <1>3, <1>a
  <2> QED
    BY <2>1
<1>7. \A i \in 1..Len(q) : q[i] = t[i]
  BY Zenon, <1>2, <1>3, <1>4, <1>5, <1>6
<1>8. q = t
  BY Zenon, <1>2, <1>4, <1>7, SameElements
<1> QED
  BY Zenon, <1>1, <1>8 DEF p, q, r, t

\* A sequence of two.
LEMMA TwoOf ==
  ASSUME NEW T, NEW a \in T, NEW b \in T
  PROVE  /\ <<>> \in Seq(T) /\ Append(<<>>, a) \in Seq(T)
         /\ Append(Append(<<>>, a), b) = <<a, b>>
<1>1. <<>> \in Seq(T) /\ Append(<<>>, a) = <<a>>
  OBVIOUS
<1>2. <<a>> \in Seq(T) /\ <<a>>[1] = a /\ Len(<<a>>) = 1
  OBVIOUS
<1>3. <<a, b>> \in Seq(T) /\ <<a, b>>[1] = a /\ <<a, b>>[2] = b /\ Len(<<a, b>>) = 2
  OBVIOUS
<1>4. /\ 1 \in 1..1 /\ 1 + 1 = 2 /\ \A i \in 1..1 : i = 1
      /\ \A S : \A s \in Seq(S) : s = [i \in 1..Len(s) |-> s[i]] /\ Len(s) \in Nat
  OBVIOUS
<1> DEFINE p == <<a>>
           t == <<a, b>>
<1> HIDE DEF p, t
<1>5. Longer(t, p, b)
  BY Zenon, <1>2, <1>3, <1>4 DEF Longer, IsSeq, p, t
<1> QED
  BY Zenon, <1>1, <1>2, <1>5, IsAppend DEF p, t

\* Every value is followed by a blank.
LEMMA KeyIs ==
  ASSUME NEW e
  PROVE  KeyOf(e) = <<Get(e, "host"), " ", Get(e, "service"), " ">>
<1> DEFINE h == Get(e, "host")
           v == Get(e, "service")
           S == {h, v, " "}
<1>1. [i \in DOMAIN <<"host", "service">> |-> <<ValueToStr(e, <<"host", "service">>[i]), " ">>]
        = <<<<h, " ">>, <<v, " ">>>>
  <2>1. DOMAIN <<"host", "service">> = 1..2 /\ 1 \in 1..2 /\ 2 \in 1..2 /\ \A i \in 1..2 : i = 1 \/ i = 2
    OBVIOUS
  <2>2. <<"host", "service">>[1] = "host" /\ <<"host", "service">>[2] = "service"
    OBVIOUS
  <2>3. ValueToStr(e, "host") = h /\ ValueToStr(e, "service") = v
    BY Zenon DEF ValueToStr, StringFields
  <2> HIDE DEF h, v
  <2> DEFINE f == [i \in 1..2 |-> <<ValueToStr(e, <<"host", "service">>[i]), " ">>]
  <2>4. f[1] = <<h, " ">> /\ f[2] = <<v, " ">> /\ f = [i \in 1..2 |-> f[i]]
    BY Zenon, <2>1, <2>2, <2>3
  <2> HIDE DEF f
  <2>5. PICK a, b : a = <<h, " ">> /\ b = <<v, " ">>
    BY Zenon
  <2>6. <<a, b>> = [i \in 1..2 |-> <<a, b>>[i]] /\ <<a, b>>[1] = a /\ <<a, b>>[2] = b
    OBVIOUS
  <2>7. f = <<a, b>>
    <3>1. \A i \in 1..2 : f[i] = <<a, b>>[i]
      BY Zenon, <2>1, <2>4, <2>5, <2>6
    <3> DEFINE g == <<a, b>>
    <3> HIDE DEF g
    <3>2. g = [i \in 1..2 |-> g[i]] /\ \A i \in 1..2 : f[i] = g[i]
      BY Zenon, <2>6, <3>1 DEF g
    <3> QED
      BY Zenon, <2>4, <3>2 DEF g
  <2> QED
    BY Zenon, <2>1, <2>5, <2>7 DEF f
<1> HIDE DEF h, v
<1>2. PICK a, b : a = <<h, " ">> /\ b = <<v, " ">>
  BY Zenon
<1>3. a \in Seq(S) /\ b \in Seq(S)
  <2>1. h \in S /\ v \in S /\ " " \in S
    BY Zenon
  <2> QED
    BY Zenon, <1>2, <2>1, Pairs
<1>4. /\ <<>> \in Seq(Seq(S)) /\ Append(<<>>, a) \in Seq(Seq(S))
      /\ Append(Append(<<>>, a), b) = <<a, b>>
  BY Zenon, <1>3, TwoOf
<1>5. Flattened(<<a, b>>) = (<<>> \o a) \o b
  <2>1. Flattened(Append(<<>>, a)) = <<>> \o a
    BY Zenon, <1>3, <1>4, FlattenAppend, FlattenEmpty
  <2> QED
    BY Zenon, <1>3, <1>4, <2>1, FlattenAppend
<1>6. (<<>> \o a) \o b = <<h, " ", v, " ">>
  <2>1. h \in S /\ v \in S /\ " " \in S
    BY Zenon
  <2> QED
    BY Zenon, <1>2, <2>1, Pairs
<1>7. KeyOf(e) = Flattened(<<a, b>>)
  BY Zenon, <1>1, <1>2 DEF KeyOf, ByKey
<1> QED
  BY Zenon, <1>5, <1>6, <1>7 DEF h, v

\* Events share a copy when they have host and service in common.
LEMMA SameKey ==
  ASSUME NEW e, NEW f
  PROVE  KeyOf(e) = KeyOf(f) <=> Get(e, "host") = Get(f, "host") /\ Get(e, "service") = Get(f, "service")
<1> DEFINE h == Get(e, "host")
           v == Get(e, "service")
           i == Get(f, "host")
           w == Get(f, "service")
<1>1. KeyOf(e) = <<h, " ", v, " ">> /\ KeyOf(f) = <<i, " ", w, " ">>
  BY Zenon, KeyIs
<1> HIDE DEF h, v, i, w
<1>2. <<h, " ", v, " ">> = <<i, " ", w, " ">> <=> h = i /\ v = w
  OBVIOUS
<1> QED
  BY Zenon, <1>1, <1>2 DEF h, v, i, w

\* changed_state remembers the state of the event, and forwards it when it remembered
\* another.
LEMMA ChangedIs ==
  ASSUME NEW m, NEW e
  PROVE  LET prev == ByState(m, KeyOf(e), "ok")
             r == ByChangedState(<<"host", "service">>, m, e, "ok")
         IN  /\ r.st = Put(m, KeyOf(e), Get(e, "state"))
             /\ r.out = IF prev = Get(e, "state") THEN <<>> ELSE <<e>>
<1> DEFINE prev == ByState(m, KeyOf(e), "ok")
           c == ChangedState(prev, e)
           r == ByChangedState(<<"host", "service">>, m, e, "ok")
           s == Get(e, "state")
<1>1. c = [st |-> s, out |-> IF prev = s THEN <<>> ELSE <<e>>]
  BY Zenon DEF ChangedState, Silent, Forward
<1>2. <<"host", "service">> # <<>>
  OBVIOUS
<1>3. r = [st |-> Put(m, KeyOf(e), c.st), out |-> c.out]
  BY Zenon, <1>2 DEF ByChangedState, KeyOf, ChangedStateInit, Forward
<1> HIDE DEF c, r
<1>4. c.st = s /\ c.out = IF prev = s THEN <<>> ELSE <<e>>
  BY Zenon, <1>1
<1>5. r.st = Put(m, KeyOf(e), s) /\ r.out = IF prev = s THEN <<>> ELSE <<e>>
  BY Zenon, <1>3, <1>4
<1> QED
  BY Zenon, <1>5 DEF r

\* The copy for key is given v, the others are left alone.
Copied(m, key, v, k) ==
  /\ k = key => ByState(Put(m, key, v), k, "ok") = v
  /\ k # key => ByState(Put(m, key, v), k, "ok") = ByState(m, k, "ok")

\* by() assigns one copy, and no other.
LEMMA OtherCopies ==
  ASSUME NEW m, NEW key, NEW v, NEW k
  PROVE  Copied(m, key, v, k)
<1> USE DEF Copied
<1>1. DOMAIN Put(m, key, v) = DOMAIN m \cup {key}
  BY Zenon DEF Put
<1>2. CASE k = key
  BY Zenon, <1>1, <1>2 DEF Put, ByState
<1>3. CASE k # key
  <2>1. k \in DOMAIN m => Put(m, key, v)[k] = m[k]
    BY Zenon, <1>3 DEF Put
  <2> QED
    BY Zenon, <1>1, <1>3, <2>1 DEF ByState
<1> QED
  BY Zenon, <1>2, <1>3

\* The calls before call k that had the host and the service of e, and the state of
\* the last of them.
Alike(e, k) == {j \in 1..k : Input(j).host = e.host /\ Input(j).service = e.service}
PrevState(e, k) == IF Alike(e, k) = {} THEN "ok" ELSE Input(MaxOf(Alike(e, k))).state

\* A set of calls has a last one.
LEMMA LastCall ==
  ASSUME NEW k \in Nat, NEW T, T \subseteq 1..k, T # {}
  PROVE  MaxOf(T) \in T /\ \A j \in T : j <= MaxOf(T)
<1> DEFINE D == {k - j : j \in T}
<1>1. D \subseteq Nat
  BY DEF D
<1>2. D # {}
  BY Zenon
<1> HIDE DEF D
<1>3. PICK d \in D : \A y \in D : d <= y
  BY Zenon, <1>1, <1>2, Least
<1>4. PICK m \in T : d = k - m
  BY Zenon DEF D
<1>5. \A j \in T : d <= k - j
  BY Zenon, <1>3 DEF D
<1>6. \A j \in T : j <= m
  BY <1>4, <1>5
<1> QED
  BY Zenon, <1>6 DEF MaxOf

\* Host, service and state of the events of by().
LEMMA ByEvents ==
  ASSUME kind = "by"
  PROVE  \A e \in EventSet : /\ Get(e, "host") = e.host /\ Get(e, "service") = e.service
                             /\ Get(e, "state") = e.state
<1> SUFFICES ASSUME NEW e \in EventSet PROVE Has(e, "host") /\ Has(e, "service") /\ Has(e, "state")
  BY Zenon DEF Get
<1>1. EventsOf(kind) = [host : {"a", "b"}, service : {"s", "t"}, state : {"ok", "critical"}]
  BY DEF EventsOf
<1>2. PICK x \in EventsOf(kind) : \A f : Has(e, f) <=> (Has(x, f) \/ f = "id")
  BY Zenon, Fields
<1>3. x \in [host : {"a", "b"}, service : {"s", "t"}, state : {"ok", "critical"}]
  BY Zenon, <1>1
<1>4. DOMAIN x = {"host", "service", "state"}
  BY <1>3
<1> QED
  BY Zenon, <1>2, <1>4 DEF Has

\* What was the last state of a host and service does not change with later calls.
LEMMA PrevStays ==
  ASSUME K \in Nat, \A i \in 1..K : calls'[i] = calls[i], NEW e, NEW k \in 0..K
  PROVE  PrevState(e, k)' = PrevState(e, k)
<1>1. \A i \in 1..k : Input(i)' = Input(i)
  <2>1. \A i \in 1..k : i \in 1..K
    OBVIOUS
  <2> QED
    BY Zenon, <2>1 DEF Input
<1>2. Alike(e, k)' = Alike(e, k)
  BY Zenon, <1>1 DEF Alike
<1>3. CASE Alike(e, k) = {}
  BY Zenon, <1>2, <1>3 DEF PrevState
<1>4. CASE Alike(e, k) # {}
  <2>1. k \in Nat
    OBVIOUS
  <2>2. Alike(e, k) \subseteq 1..k
    BY Zenon DEF Alike
  <2>3. MaxOf(Alike(e, k)) \in 1..k
    BY Zenon, <1>4, <2>1, <2>2, LastCall
  <2>4. MaxOf(Alike(e, k))' = MaxOf(Alike(e, k))
    BY Zenon, <1>2 DEF MaxOf
  <2>5. PICK m : m = MaxOf(Alike(e, k))
    BY Zenon
  <2>6. Input(m)' = Input(m)
    BY Zenon, <1>1, <2>3, <2>5
  <2> QED
    BY Zenon, <1>2, <1>4, <2>4, <2>5, <2>6 DEF PrevState, Input
<1> QED
  BY Zenon, <1>3, <1>4

\* What was the state before a call stays it.
LEMMA PrevKept ==
  ASSUME K \in Nat, \A i \in 1..K : calls'[i] = calls[i], NEW i \in 1..K
  PROVE  PrevState(Input(i), i - 1)' = PrevState(Input(i), i - 1)
<1>1. PICK k, x : k = i - 1 /\ x = Input(i)
  BY Zenon
<1>2. k \in 0..K
  BY <1>1
<1>3. PrevState(x, k)' = PrevState(x, k)
  BY Zenon, <1>2, PrevStays
<1>4. Input(i)' = x
  BY Zenon, <1>1 DEF Input
<1>5. PrevState(Input(i), i - 1)' = PrevState(x, k)'
  BY Zenon, <1>1, <1>4 DEF PrevState, Alike, Input
<1> QED
  BY Zenon, <1>1, <1>3, <1>5

\* by() remembers the last state of every host and service, and the calls so far
\* forwarded what changed it.
Remembered ==
  kind = "by" =>
    /\ \A e \in EventSet : ByState(st, KeyOf(e), "ok") = PrevState(e, K)
    /\ \A i \in 1..K : calls[i].out = IF Input(i).state = PrevState(Input(i), i - 1)
                                      THEN <<>> ELSE <<Input(i)>>

\* That is what changed_state is to forward.
LEMMA RememberedIs == ASSUME Remembered PROVE ChangedPerKey
  BY Zenon DEF Remembered, ChangedPerKey, PrevState, Alike

\* A call more: it is the last one of its host and service.
LEMMA PrevGrows ==
  ASSUME K \in Nat, K' = K + 1, \A i \in 1..K : calls'[i] = calls[i],
         NEW x, calls'[K'].e = x, NEW e
  PROVE  PrevState(e, K)' = IF x.host = e.host /\ x.service = e.service
                            THEN x.state ELSE PrevState(e, K)
<1>1. /\ K' \in Nat /\ K' \in 1..K' /\ (\A i \in 1..K : i \in 1..K' /\ i # K')
      /\ \A i \in 1..K' : i \in 1..K \/ i = K'
  OBVIOUS
<1>2. \A i \in 1..K : Input(i)' = Input(i)
  BY Zenon DEF Input
<1>3. PICK n : n = K'
  BY Zenon
<1>4. Input(n)' = x
  BY Zenon, <1>3 DEF Input
<1>5. Alike(e, K)' = {j \in 1..n : Input(j)'.host = e.host /\ Input(j)'.service = e.service}
  BY Zenon, <1>3 DEF Alike
<1>6. CASE x.host = e.host /\ x.service = e.service
  <2>1. n \in Alike(e, K)'
    BY Zenon, <1>1, <1>3, <1>4, <1>5, <1>6
  <2>2. Alike(e, K)' \subseteq 1..n /\ n \in Nat /\ Alike(e, K)' # {}
    BY Zenon, <1>1, <1>3, <1>5, <2>1
  <2>3. PICK T : T = Alike(e, K)'
    BY Zenon
  <2>4. MaxOf(T) \in T /\ \A j \in T : j <= MaxOf(T)
    BY Zenon, <2>2, <2>3, LastCall
  <2>5. MaxOf(T) = n
    BY <2>1, <2>2, <2>3, <2>4
  <2>6. MaxOf(Alike(e, K))' = n
    BY Zenon, <2>3, <2>5 DEF MaxOf
  <2> QED
    BY Zenon, <1>4, <1>6, <2>2, <2>6 DEF PrevState, Input
<1>7. CASE ~(x.host = e.host /\ x.service = e.service)
  <2>1. n \notin Alike(e, K)'
    BY Zenon, <1>4, <1>5, <1>7
  <2>2. ASSUME NEW j PROVE j \in Alike(e, K)' <=> j \in Alike(e, K)
    <3>1. CASE j \in 1..K
      BY Zenon, <1>1, <1>2, <1>3, <1>5, <3>1 DEF Alike
    <3>2. CASE j \notin 1..K
      BY Zenon, <1>1, <1>3, <1>5, <2>1, <3>2 DEF Alike
    <3> QED
      BY Zenon, <3>1, <3>2
  <2>3. Alike(e, K)' = Alike(e, K)
    BY Zenon, <2>2
  <2>4. CASE Alike(e, K) = {}
    BY Zenon, <1>7, <2>3, <2>4 DEF PrevState
  <2>5. CASE Alike(e, K) # {}
    <3>1. Alike(e, K) \subseteq 1..K
      BY Zenon DEF Alike
    <3>2. MaxOf(Alike(e, K)) \in 1..K
      BY Zenon, <2>5, <3>1, LastCall
    <3>3. MaxOf(Alike(e, K))' = MaxOf(Alike(e, K))
      BY Zenon, <2>3 DEF MaxOf
    <3>4. PICK m : m = MaxOf(Alike(e, K))
      BY Zenon
    <3>5. Input(m)' = Input(m)
      BY Zenon, <1>2, <3>2, <3>4
    <3> QED
      BY Zenon, <1>7, <2>3, <2>5, <3>3, <3>4, <3>5 DEF PrevState, Input
  <2> QED
    BY Zenon, <2>4, <2>5
<1> QED
  BY Zenon, <1>6, <1>7

\* Which closure by() makes of changed_state, and with what it starts.
LEMMA ByClosure ==
  /\ \A s, e : Apply("by", s, e) = ByChangedState(<<"host", "service">>, s, e, "ok")
  /\ InitState("by") = <<>> /\ "by" \in Locked
  BY DEF Apply, InitState, Locked

\* Every step keeps what by() remembers.
LEMMA RememberedStep ==
  ASSUME Counted, Remembered, [Next]_vars
  PROVE  Remembered'
<1>1. Base /\ Fed
  BY Zenon DEF Counted
<1>2. kind' = kind
  BY Zenon, <1>1, KindStays
<1>3. EventSet' = EventSet
  BY Zenon, <1>2, EventsStay
<1> DEFINE Known == \A e \in EventSet : ByState(st', KeyOf(e), "ok") = PrevState(e, K)'
           Said(i) == calls'[i].out = IF calls'[i].e.state = PrevState(Input(i), i - 1)'
                                      THEN <<>> ELSE <<calls'[i].e>>
<1> SUFFICES ASSUME kind = "by" PROVE Known /\ \A i \in 1..K' : Said(i)
  BY Zenon, <1>2, <1>3 DEF Remembered, Input
<1>4. kind \in Locked
  BY Zenon, ByClosure
<1>5. /\ \A e \in EventSet : ByState(st, KeyOf(e), "ok") = PrevState(e, K)
      /\ \A i \in 1..K : calls[i].out = IF Input(i).state = PrevState(Input(i), i - 1)
                                        THEN <<>> ELSE <<Input(i)>>
  BY Zenon DEF Remembered
<1>6. K \in Nat /\ \A i \in 1..K : Input(i) \in EventSet
  BY Zenon, <1>1, <1>4, History DEF Fed
<1>7. CASE UNCHANGED <<st, calls>>
  <2>1. K' = K /\ \A i : Input(i)' = Input(i)
    BY Zenon, <1>2, <1>7, SameHistory
  <2>2. \A i \in 1..K : calls'[i] = calls[i]
    BY Zenon, <1>7
  <2>3. \A i \in 1..K : PrevState(Input(i), i - 1)' = PrevState(Input(i), i - 1)
    BY Zenon, <1>6, <2>2, PrevKept
  <2>4. \A e : PrevState(e, K)' = PrevState(e, K)
    <3> SUFFICES ASSUME NEW e PROVE PrevState(e, K)' = PrevState(e, K)
      BY Zenon
    <3>1. PICK k : k = K
      BY Zenon
    <3>2. k \in 0..K
      BY <1>6, <3>1
    <3>3. PrevState(e, k)' = PrevState(e, k)
      BY Zenon, <1>6, <2>2, <3>2, PrevStays
    <3>4. PrevState(e, K)' = PrevState(e, k)' /\ PrevState(e, K) = PrevState(e, k)
      BY Zenon, <2>1, <3>1 DEF PrevState, Alike
    <3> QED
      BY Zenon, <3>3, <3>4
  <2> QED
    BY Zenon, <1>5, <1>7, <2>1, <2>3, <2>4 DEF Input
<1>8. ASSUME NEW e, Called(e) PROVE Known /\ \A i \in 1..K' : Said(i)
  <2> DEFINE r == ByChangedState(<<"host", "service">>, st, e, "ok")
  <2>1. e \in EventSet /\ st' = r.st /\ Returned(e, r.out)
    BY Zenon, <1>8, ByClosure DEF Called
  <2>2. calls'[K'].e = e /\ calls'[K'].out = r.out /\ K' = K + 1
    BY Zenon, <1>1, <2>1, HistoryGrows
  <2>3. \A i \in 1..K : calls'[i] = calls[i]
    BY Zenon, <2>1 DEF Returned
  <2>4. \A f \in EventSet : /\ Get(f, "host") = f.host /\ Get(f, "service") = f.service
                            /\ Get(f, "state") = f.state
    BY Zenon, ByEvents
  <2>5. /\ r.st = Put(st, KeyOf(e), e.state)
        /\ r.out = IF PrevState(e, K) = e.state THEN <<>> ELSE <<e>>
    BY Zenon, <1>5, <2>1, <2>4, ChangedIs
  <2> HIDE DEF r
  <2>6. Known
    <3> SUFFICES ASSUME NEW f \in EventSet PROVE ByState(st', KeyOf(f), "ok") = PrevState(f, K)'
      BY Zenon
    <3>1. KeyOf(f) = KeyOf(e) <=> e.host = f.host /\ e.service = f.service
      BY Zenon, <2>1, <2>4, SameKey
    <3>2. ByState(st', KeyOf(f), "ok") = IF KeyOf(f) = KeyOf(e) THEN e.state ELSE ByState(st, KeyOf(f), "ok")
      <4>1. PICK m, key, v, k : m = st /\ key = KeyOf(e) /\ v = e.state /\ k = KeyOf(f)
        BY Zenon
      <4>2. st' = Put(m, key, v)
        BY Zenon, <2>1, <2>5, <4>1
      <4>3. Copied(m, key, v, k)
        BY Zenon, OtherCopies
      <4> QED
        BY Zenon, <4>1, <4>2, <4>3 DEF Copied
    <3>3. PrevState(f, K)' = IF e.host = f.host /\ e.service = f.service THEN e.state ELSE PrevState(f, K)
      BY Zenon, <1>6, <2>2, <2>3, PrevGrows
    <3> QED
      BY Zenon, <1>5, <3>1, <3>2, <3>3
  <2>7. ASSUME NEW i \in 1..K' PROVE Said(i)
    <3>1. CASE i \in 1..K
      <4>1. calls'[i] = calls[i] /\ calls[i].e = Input(i)
        BY Zenon, <2>3, <3>1 DEF Input
      <4>2. PrevState(Input(i), i - 1)' = PrevState(Input(i), i - 1)
        BY Zenon, <1>6, <2>3, <3>1, PrevKept
      <4> QED
        BY Zenon, <1>5, <3>1, <4>1, <4>2
    <3>2. CASE i = K'
      <4>1. PICK k : k = K
        BY Zenon
      <4>2. k = i - 1 /\ k \in 0..K
        BY <1>6, <2>2, <3>2, <4>1
      <4>3. PrevState(e, k)' = PrevState(e, k)
        BY Zenon, <1>6, <2>3, <4>2, PrevStays
      <4>4. calls'[i].e = e /\ calls'[i].out = r.out
        BY Zenon, <2>2, <3>2
      <4>5. PrevState(Input(i), i - 1)' = PrevState(e, k)'
        BY Zenon, <4>2, <4>4 DEF PrevState, Alike, Input
      <4> QED
        BY Zenon, <2>5, <4>1, <4>3, <4>4, <4>5
    <3>3. i \in 1..K \/ i = K'
      BY <1>6, <2>2
    <3> QED
      BY Zenon, <3>1, <3>2, <3>3
  <2> QED
    BY Zenon, <2>6, <2>7
<1> QED
  BY Zenon, <1>4, <1>7, <1>8, LockedHistory

================================================================================
