-------------------------- MODULE TcpFramingProofs --------------------------
(***************************************************************************)
(* What the server makes of its clients' bytes, for any number of loops,   *)
(* workers, connections and descriptors, any messages and any sizes of the *)
(* buffers: Frames, the invariant that a connection cuts the bytes into    *)
(* the messages its client sent, whatever the pieces they arrive in, and   *)
(* the proof that every step keeps it where Places holds.                  *)
(* TcpServerProofs shows that Places is kept, too, and has the theorems.   *)
(***************************************************************************)
EXTENDS TcpServer, FiniteSetTheorems, WellFoundedInduction, TLAPS

-----------------------------------------------------------------------------
(* Where a descriptor is.                                                   *)

\* The descriptors handed to a loop, and those it has taken over.
Waiting(l) == {new_fds[l][i] : i \in DOMAIN new_fds[l]}
Place(l) == DOMAIN fds[l] \cup Waiting(l)

MapKinds ==
  /\ owner \in [Fds -> Conns \cup {NoConn}]
  /\ next_loop \in Loops
  /\ new_fds \in [Loops -> Seq(Fds)]
  /\ DOMAIN fds = Loops /\ DOMAIN conn_maps = Loops /\ DOMAIN connections = Loops
  /\ DOMAIN loop = Loops

\* A descriptor in use is in one place, as the connection that has it.
InOnePlace ==
  /\ \A l \in Loops :
       /\ DOMAIN fds[l] \subseteq Fds /\ DOMAIN fds[l] \cap Waiting(l) = {}
       /\ DOMAIN fds[l] = DOMAIN conn_maps[l] /\ DOMAIN fds[l] = DOMAIN connections[l]
       /\ \A fd \in Waiting(l) : owner[fd] # NoConn
       /\ \A fd \in DOMAIN fds[l] :
            /\ owner[fd] # NoConn /\ conn_maps[l][fd].c = owner[fd]
            /\ "c" \in DOMAIN conn_maps[l][fd]
  /\ \A l, k \in Loops : l # k => Place(l) \cap Place(k) = {}

\* The callback that a loop is in is about a descriptor it watches.
CallbackKnown ==
  \A l \in Loops : loop[l] \in {Idle, Exited}
                     \/ ("fd" \in DOMAIN loop[l] /\ loop[l].fd \in DOMAIN fds[l])

Places == MapKinds /\ InOnePlace /\ CallbackKnown

\* A loop that is not idle is in a callback about one of its descriptors.
LEMMA Where ==
  ASSUME Places, NEW l \in Loops, loop[l].at \notin {"idle", "exited"}
  PROVE  /\ "fd" \in DOMAIN loop[l] /\ loop[l].fd \in DOMAIN fds[l]
         /\ "c" \in DOMAIN conn_maps[l][loop[l].fd]
BY DEF Places, CallbackKnown, InOnePlace, Idle, Exited

-----------------------------------------------------------------------------
(* Induction over the numbers, and a client's bytes.                        *)

\* A set of natural numbers that is not empty has a least element.
LEMMA Least ==
  ASSUME NEW T, T \subseteq Nat, T # {}
  PROVE  \E x \in T : \A y \in T : x <= y
<1> DEFINE R == {ss \in Nat \X Nat : ss[1] < ss[2]}
<1>1. R = OpToRel(<, Nat)
  BY Zenon DEF OpToRel
<1>2. IsWellFoundedOn(R, Nat)
  BY Zenon, <1>1, NatLessThanWellFounded
<1> HIDE DEF R
<1>3. PICK x \in T : \A y \in T : ~ (<<y, x>> \in R)
  BY Zenon, <1>2, WFMin
<1>4. ASSUME NEW y \in T PROVE x <= y
  <2>1. <<y, x>> \in Nat \X Nat /\ <<y, x>>[1] = y /\ <<y, x>>[2] = x
    BY Zenon
  <2>2. y < x => <<y, x>> \in R
    BY Zenon, <2>1 DEF R
  <2> QED
    BY <1>3, <2>2
<1> QED
  BY Zenon, <1>4

\* Induction over the natural numbers, for a set: the statement is that every
\* number is in the set.
LEMMA SetInduction ==
  ASSUME NEW T, 0 \in T, \A n \in Nat : n \in T => n + 1 \in T
  PROVE  Nat \subseteq T
<1> SUFFICES ASSUME Nat \ T # {} PROVE FALSE
  BY Zenon
<1>1. PICK x \in Nat \ T : \A y \in Nat \ T : x <= y
  BY Zenon, Least
<1>2. x # 0 /\ x - 1 \in Nat /\ x - 1 \notin Nat \ T
  BY <1>1
<1>3. (x - 1) + 1 \in T
  BY Zenon, <1>2
<1> QED
  BY <1>1, <1>3

\* A function that adds the values of h one after the other exists: the one with
\* which Start computes where a message begins.
LEMMA Recursion ==
  ASSUME NEW N \in Nat, NEW h \in [1..N -> Nat]
  PROVE  \E f \in [0..N -> Nat] : f = [k \in 0..N |-> IF k = 0 THEN 0 ELSE f[k - 1] + h[k]]
<1> DEFINE Ok(n) == \E f \in [0..n -> Nat] :
                       f[0] = 0 /\ \A k \in 1..n : f[k] = f[k - 1] + h[k]
           T == {n \in Nat : n <= N => Ok(n)}
<1> HIDE DEF Ok
<1>1. 0 \in T
  <2> DEFINE z == [k \in 0..0 |-> 0]
  <2>1. z \in [0..0 -> Nat] /\ z[0] = 0
    OBVIOUS
  <2>2. \A k \in 1..0 : FALSE
    OBVIOUS
  <2> HIDE DEF z
  <2>3. Ok(0)
    BY Zenon, <2>1, <2>2 DEF Ok
  <2> QED
    BY Zenon, <2>3
<1>2. ASSUME NEW n \in Nat, n \in T PROVE n + 1 \in T
  <2>0. CASE ~(n + 1 <= N)
    BY <2>0
  <2> SUFFICES ASSUME n + 1 <= N PROVE Ok(n + 1)
    BY <2>0
  <2>a. Ok(n)
    BY <1>2
  <2>1. PICK f \in [0..n -> Nat] : f[0] = 0 /\ \A k \in 1..n : f[k] = f[k - 1] + h[k]
    BY Zenon, <2>a DEF Ok
  <2> DEFINE g == [k \in 0..(n + 1) |-> IF k <= n THEN f[k] ELSE f[n] + h[n + 1]]
  <2>2. g \in [0..(n + 1) -> Nat]
    BY <2>1
  <2>3. g[0] = 0
    BY <2>1
  <2>4. ASSUME NEW k \in 1..(n + 1) PROVE g[k] = g[k - 1] + h[k]
    BY <2>1
  <2> HIDE DEF g
  <2> QED
    BY Zenon, <2>2, <2>3, <2>4 DEF Ok
<1> HIDE DEF T
<1>a. \A n \in Nat : n \in T => n + 1 \in T
  BY Zenon, <1>2
<1>3. N \in T
  BY Zenon, <1>1, <1>a, SetInduction
<1>4. PICK f \in [0..N -> Nat] : f[0] = 0 /\ \A k \in 1..N : f[k] = f[k - 1] + h[k]
  <2>1. Ok(N)
    BY <1>3 DEF T
  <2> QED
    BY Zenon, <2>1 DEF Ok
<1>5. f = [k \in 0..N |-> IF k = 0 THEN 0 ELSE f[k - 1] + h[k]]
  <2>1. \A k \in 0..N : f[k] = IF k = 0 THEN 0 ELSE f[k - 1] + h[k]
    BY <1>4
  <2> QED
    BY Zenon, <2>1
<1> QED
  BY Zenon, <1>5

\* Where message i of a client begins: after the header and the body of the one
\* before it.
LEMMA StartIs ==
  ASSUME NEW msgs \in Seq(Nat)
  PROVE  /\ Start(msgs, 1) = 0
         /\ \A i \in 1..(Len(msgs) + 1) : Start(msgs, i) \in Nat
         /\ \A i \in 1..Len(msgs) : Start(msgs, i + 1) = Start(msgs, i) + HeaderLen + msgs[i]
<1> DEFINE P(f) == f = [k \in 0..Len(msgs) |-> IF k = 0 THEN 0 ELSE f[k - 1] + HeaderLen + msgs[k]]
           F == CHOOSE f : P(f)
<1>1. \A i : Start(msgs, i) = F[i - 1]
  BY Zenon DEF Start
<1>2. \E f : P(f)
  <2> DEFINE h == [k \in 1..Len(msgs) |-> HeaderLen + msgs[k]]
  <2>1. Len(msgs) \in Nat /\ h \in [1..Len(msgs) -> Nat]
    BY Buffers
  <2>2. \A k \in 1..Len(msgs) : h[k] = HeaderLen + msgs[k]
    BY Zenon
  <2> HIDE DEF h
  <2>3. PICK f \in [0..Len(msgs) -> Nat] :
          f = [k \in 0..Len(msgs) |-> IF k = 0 THEN 0 ELSE f[k - 1] + h[k]]
    BY Zenon, <2>1, Recursion
  <2>4. ASSUME NEW k \in 0..Len(msgs), k # 0
        PROVE  f[k - 1] + h[k] = f[k - 1] + HeaderLen + msgs[k]
    <3>1. k \in 1..Len(msgs) /\ k - 1 \in 0..Len(msgs)
      BY <2>1, <2>4
    <3>2. f[k - 1] \in Nat /\ msgs[k] \in Nat
      BY <3>1
    <3>a. HeaderLen \in Nat
      BY Zenon, Buffers
    <3>3. h[k] = HeaderLen + msgs[k]
      BY Zenon, <2>2, <3>1
    <3>4. \A a, b, d \in Nat : a + (b + d) = a + b + d
      OBVIOUS
    <3> QED
      BY <3>2, <3>a, <3>3, <3>4
  <2>5. P(f)
    BY Zenon, <2>3, <2>4
  <2> QED
    BY Zenon, <2>5
<1>3. P(F)
  BY Zenon, <1>2
<1> HIDE DEF F
<1>4. F[0] = 0 /\ \A k \in 1..Len(msgs) : F[k] = F[k - 1] + HeaderLen + msgs[k]
  BY <1>3
<1> DEFINE T == {n \in Nat : n <= Len(msgs) => F[n] \in Nat}
<1>5. 0 \in T
  BY <1>4
<1>6. ASSUME NEW n \in Nat, n \in T PROVE n + 1 \in T
  <2>1. CASE n + 1 <= Len(msgs)
    <3>1. n + 1 \in 1..Len(msgs) /\ (n + 1) - 1 = n /\ n <= Len(msgs)
      BY <2>1
    <3>2. F[n + 1] = F[n] + HeaderLen + msgs[n + 1]
      BY Zenon, <1>4, <3>1
    <3>3. F[n] \in Nat /\ msgs[n + 1] \in Nat
      BY <1>6, <3>1
    <3> QED
      BY <3>2, <3>3, Buffers
  <2>2. CASE ~(n + 1 <= Len(msgs))
    BY <2>2
  <2> QED
    BY Zenon, <2>1, <2>2
<1>7. \A n \in Nat : n \in T => n + 1 \in T
  BY Zenon, <1>6
<1> HIDE DEF T
<1>8. Nat \subseteq T
  BY Zenon, <1>5, <1>7, SetInduction
<1>9. \A n \in 0..Len(msgs) : F[n] \in Nat
  BY <1>8 DEF T
<1>10. Start(msgs, 1) = 0
  <2>1. 1 - 1 = 0
    OBVIOUS
  <2> QED
    BY Zenon, <1>1, <1>4, <2>1
<1>11. ASSUME NEW i \in 1..(Len(msgs) + 1) PROVE Start(msgs, i) \in Nat
  <2>1. i - 1 \in 0..Len(msgs)
    OBVIOUS
  <2> QED
    BY Zenon, <1>1, <1>9, <2>1
<1>12. ASSUME NEW i \in 1..Len(msgs)
       PROVE  Start(msgs, i + 1) = Start(msgs, i) + HeaderLen + msgs[i]
  <2>1. (i + 1) - 1 = i
    OBVIOUS
  <2> QED
    BY Zenon, <1>1, <1>4, <2>1
<1> QED
  BY Zenon, <1>10, <1>11, <1>12

\* The messages of a client follow each other without a gap or an overlap.
LEMMA StartGrows ==
  ASSUME NEW msgs \in Seq(Nat), NEW i \in 1..Len(msgs), NEW j \in 1..(Len(msgs) + 1), i < j
  PROVE  Start(msgs, i) + HeaderLen + msgs[i] <= Start(msgs, j)
<1>1. /\ \A k \in 1..(Len(msgs) + 1) : Start(msgs, k) \in Nat
      /\ \A k \in 1..Len(msgs) : Start(msgs, k + 1) = Start(msgs, k) + HeaderLen + msgs[k]
  BY Zenon, StartIs
<1> DEFINE T == {n \in Nat : i + 1 + n <= Len(msgs) + 1 =>
                               Start(msgs, i + 1) <= Start(msgs, i + 1 + n)}
<1>2. 0 \in T
  <2>1. i + 1 + 0 = i + 1 /\ i + 1 \in 1..(Len(msgs) + 1)
    OBVIOUS
  <2> QED
    BY <1>1, <2>1
<1>3. ASSUME NEW n \in Nat, n \in T PROVE n + 1 \in T
  <2>1. CASE i + 1 + (n + 1) <= Len(msgs) + 1
    <3> DEFINE k == i + 1 + n
    <3>1. k \in 1..Len(msgs) /\ k + 1 = i + 1 + (n + 1) /\ k \in 1..(Len(msgs) + 1)
      BY <2>1
    <3>a. k + 1 \in 1..(Len(msgs) + 1) /\ i + 1 \in 1..(Len(msgs) + 1)
      BY <2>1
    <3>2. Start(msgs, i + 1) <= Start(msgs, k)
      BY <1>3, <3>1
    <3>3. Start(msgs, k + 1) = Start(msgs, k) + HeaderLen + msgs[k]
      BY Zenon, <1>1, <3>1
    <3> HIDE DEF k
    <3>b. msgs[k] \in Nat
      BY <3>1
    <3>4. msgs[k] \in Nat /\ HeaderLen \in Nat
      BY Zenon, <3>b, Buffers
    <3>c. Start(msgs, k) \in Nat /\ Start(msgs, i + 1) \in Nat
      BY Zenon, <1>1, <3>1, <3>a
    <3>5. Start(msgs, i + 1) <= Start(msgs, k + 1)
      BY <3>2, <3>3, <3>4, <3>c
    <3> QED
      BY <3>1, <3>5
  <2>2. CASE ~(i + 1 + (n + 1) <= Len(msgs) + 1)
    BY <2>2
  <2> QED
    BY Zenon, <2>1, <2>2
<1>4. \A n \in Nat : n \in T => n + 1 \in T
  BY Zenon, <1>3
<1> HIDE DEF T
<1>a. Nat \subseteq T
  BY Zenon, <1>2, <1>4, SetInduction
<1>b. j - i - 1 \in Nat /\ i + 1 + (j - i - 1) = j
  OBVIOUS
<1>5. j - i - 1 \in T /\ i + 1 + (j - i - 1) = j
  BY Zenon, <1>a, <1>b
<1>6. Start(msgs, i + 1) <= Start(msgs, j)
  BY <1>5 DEF T
<1> QED
  BY Zenon, <1>1, <1>6

\* The header at the start of a message is that message's.
LEMMA HeaderIs ==
  ASSUME NEW msgs \in Seq(Nat), NEW i \in 1..Len(msgs)
  PROVE  HeaderAt(msgs, Start(msgs, i)) = i
<1>1. \A k \in 1..(Len(msgs) + 1) : Start(msgs, k) \in Nat
  BY Zenon, StartIs
<1>2. ASSUME NEW k \in 1..Len(msgs), k # i PROVE Start(msgs, k) # Start(msgs, i)
  <2>1. msgs[k] \in Nat /\ msgs[i] \in Nat /\ HeaderLen \in Nat /\ HeaderLen # 0
    BY Buffers
  <2>2. CASE k < i
    BY <1>1, <2>1, <2>2, StartGrows
  <2>3. CASE i < k
    BY <1>1, <2>1, <2>3, StartGrows
  <2> QED
    BY <1>2, <2>2, <2>3
<1>3. {k \in DOMAIN msgs : Start(msgs, k) = Start(msgs, i)} = {i}
  BY <1>2
<1> QED
  BY Zenon, <1>3 DEF HeaderAt

\* The bytes of the whole messages before a position.
LEMMA WholeIs ==
  ASSUME NEW msgs \in Seq(Nat), NEW n \in 0..Len(msgs), NEW got \in Nat,
         Start(msgs, n + 1) <= got
  PROVE  n <= Whole(msgs, got)
<1>1. \A k \in 1..(Len(msgs) + 1) : Start(msgs, k) \in Nat
  BY Zenon, StartIs
<1> DEFINE S == {i \in DOMAIN msgs : Start(msgs, i + 1) <= got}
<1>2. ASSUME NEW i \in 1..n PROVE i \in S
  <2>1. i \in 1..Len(msgs) /\ i + 1 \in 1..(Len(msgs) + 1) /\ n + 1 \in 1..(Len(msgs) + 1)
    OBVIOUS
  <2>2. Start(msgs, i + 1) <= Start(msgs, n + 1)
    <3>1. CASE i = n
      BY <1>1, <2>1, <3>1
    <3>2. CASE i < n
      <4>1. i + 1 \in 1..Len(msgs) /\ i + 1 < n + 1
        BY <3>2
      <4>2. Start(msgs, i + 1) + HeaderLen + msgs[i + 1] <= Start(msgs, n + 1)
        BY Zenon, <2>1, <4>1, StartGrows
      <4>a. msgs[i + 1] \in Nat
        BY <4>1
      <4>3. msgs[i + 1] \in Nat /\ HeaderLen \in Nat
        BY Zenon, <4>a, Buffers
      <4>4. Start(msgs, i + 1) \in Nat /\ Start(msgs, n + 1) \in Nat
        BY Zenon, <1>1, <2>1
      <4> QED
        BY <4>2, <4>3, <4>4
    <3> QED
      BY <3>1, <3>2
  <2>3. Start(msgs, i + 1) \in Nat /\ Start(msgs, n + 1) \in Nat
    BY Zenon, <1>1, <2>1
  <2>4. Start(msgs, i + 1) <= got
    BY <2>2, <2>3
  <2> QED
    BY <2>1, <2>4
<1>3. IsFiniteSet(S) /\ 1..n \subseteq S
  <2>1. IsFiniteSet(1..Len(msgs))
    BY FS_Interval
  <2>2. S \subseteq 1..Len(msgs)
    OBVIOUS
  <2> QED
    BY Zenon, <1>2, <2>1, <2>2, FS_Subset
<1>4. Cardinality(1..n) = n
  BY FS_Interval
<1>5. Cardinality(1..n) <= Cardinality(S)
  BY Zenon, <1>3, FS_Subset
<1> QED
  BY Zenon, <1>4, <1>5 DEF Whole

-----------------------------------------------------------------------------
(* One connection: x is the tcp_connection, y the riemann_tcp_connection,   *)
(* msgs what its client sends, hs the messages of it that were given to the *)
(* executor, and a the bytes of acks the client has.                        *)

AllFit(msgs) == \A i \in DOMAIN msgs : Fits(msgs[i])

\* The buffer starts at the header, or behind it, of the first message that was
\* not given to the executor: of any client that sends no message too big, and of
\* any other until that closes the connection.
Exact(x, y, msgs, hs) ==
  ~x.close \/ AllFit(msgs) =>
    /\ Len(hs) <= Len(msgs)
    /\ \A k \in 1..Len(hs) : hs[k] = k
    /\ y.reading_header => x.pos = Start(msgs, Len(hs) + 1)
    /\ ~y.reading_header => /\ Len(hs) < Len(msgs) /\ y.size = msgs[Len(hs) + 1]
                            /\ x.pos = Start(msgs, Len(hs) + 1) + HeaderLen

Cut(x, y, msgs, hs, a) ==
  /\ x.got <= Total(msgs)
  /\ a + x.w = AckLen * Len(hs)
  /\ ~y.reading_header => Fits(y.size)
  /\ Exact(x, y, msgs, hs)

\* The loop of read_cb has stopped on an empty message.
AfterEmpty(x, y, hs) == hs # <<>> /\ y.size = 0 /\ ReadableBytes(x) <= BuffSize - HeaderLen

\* There is nothing left that read_cb could do.
Settled(x, y, hs) ==
  /\ y.reading_header => ReadableBytes(x) < HeaderLen \/ AfterEmpty(x, y, hs)
  /\ ~y.reading_header => ReadableBytes(x) < y.size

\* A body of no bytes was announced by a header that has left the buffer.
Roomy(x, y) == ~y.reading_header /\ y.size = 0 => ReadableBytes(x) <= BuffSize - HeaderLen

\* The fields of a connection.
LEMMA ConnFields ==
  ASSUME NEW x \in TcpConnections
  PROVE  /\ x = [c |-> x.c, pos |-> x.pos, got |-> x.got, w |-> x.w, close |-> x.close]
         /\ x.c \in Conns /\ x.pos \in Nat /\ x.got \in Nat /\ x.w \in 0..BuffSize /\ x.close \in BOOLEAN
         /\ x.got - x.pos \in 0..BuffSize
BY Zenon DEF TcpConnections, ReadableBytes

\* A connection from its fields.
LEMMA ConnMade ==
  ASSUME NEW c \in Conns, NEW p \in Nat, NEW g \in Nat, NEW w \in 0..BuffSize, NEW b \in BOOLEAN,
         g - p \in 0..BuffSize
  PROVE  [c |-> c, pos |-> p, got |-> g, w |-> w, close |-> b] \in TcpConnections
BY Zenon DEF TcpConnections, ReadableBytes

\* Marking a connection closed changes nothing else of it.
LEMMA ConnClosed ==
  ASSUME NEW x \in TcpConnections, NEW z, z = [x EXCEPT !.close = TRUE]
  PROVE  /\ z \in TcpConnections /\ z.close /\ z.c = x.c /\ z.pos = x.pos /\ z.got = x.got /\ z.w = x.w
<1>1. /\ x = [c |-> x.c, pos |-> x.pos, got |-> x.got, w |-> x.w, close |-> x.close]
      /\ x.c \in Conns /\ x.pos \in Nat /\ x.got \in Nat /\ x.w \in 0..BuffSize
      /\ x.got - x.pos \in 0..BuffSize
  BY Zenon, ConnFields
<1>2. z = [c |-> x.c, pos |-> x.pos, got |-> x.got, w |-> x.w, close |-> TRUE]
  BY Zenon, <1>1
<1>3. [c |-> x.c, pos |-> x.pos, got |-> x.got, w |-> x.w, close |-> TRUE] \in TcpConnections
  BY Zenon, <1>1, ConnMade
<1>4. z \in TcpConnections
  BY <1>2, <1>3, Zenon
<1> QED
  BY Zenon, <1>2, <1>4

\* read: what tcp_connection::read leaves of the buffer's invariant.
LEMMA ReadCut ==
  ASSUME NEW x \in TcpConnections, NEW y \in RiemannTcpConnections, NEW msgs \in Seq(Nat),
         NEW hs \in Seq(Nat), NEW a \in Nat, Cut(x, y, msgs, hs, a), ~x.close, Settled(x, y, hs),
         NEW gone, NEW z \in Read(x, Total(msgs) - x.got, gone)
  PROVE  /\ z \in TcpConnections /\ z.c = x.c /\ Cut(z, y, msgs, hs, a)
         /\ z.got > x.got => Roomy(z, y)
         /\ ~(z.got > x.got) => z.close \/ Settled(z, y, hs)
<1>1. /\ x = [c |-> x.c, pos |-> x.pos, got |-> x.got, w |-> x.w, close |-> x.close]
      /\ x.c \in Conns /\ x.pos \in Nat /\ x.got \in Nat /\ x.w \in 0..BuffSize /\ x.close \in BOOLEAN
      /\ x.got - x.pos \in 0..BuffSize /\ BuffSize \in Nat
  BY Zenon, ConnFields, Buffers
<1>2. Total(msgs) \in Nat
  BY StartIs DEF Total
<1>a. y.size \in Nat /\ y.reading_header \in BOOLEAN
  BY Zenon DEF RiemannTcpConnections
<1>3. CASE z = x
  BY <1>1, <1>3
<1>4. ASSUME NEW n \in 1..(Total(msgs) - x.got), n <= BuffSize - (x.got - x.pos),
             z = [x EXCEPT !.got = @ + n]
      PROVE  /\ z \in TcpConnections /\ z.c = x.c /\ Cut(z, y, msgs, hs, a)
             /\ z.got > x.got /\ Roomy(z, y)
  <2>1. z = [c |-> x.c, pos |-> x.pos, got |-> x.got + n, w |-> x.w, close |-> x.close]
    BY Zenon, <1>1, <1>4
  <2>2. n \in Nat /\ n >= 1 /\ x.got + n \in Nat /\ x.got + n <= Total(msgs)
    BY <1>1, <1>2
  <2>3. (x.got + n) - x.pos \in 0..BuffSize
    BY <1>1, <1>4, <2>2
  <2>4. z \in TcpConnections
    BY Zenon, <1>1, <2>1, <2>2, <2>3, ConnMade
  <2>5. z.c = x.c /\ z.pos = x.pos /\ z.got = x.got + n /\ z.w = x.w /\ z.close = x.close
    BY Zenon, <2>1
  <2>6. Cut(z, y, msgs, hs, a)
    BY Zenon, <2>2, <2>5 DEF Cut, Exact
  <2>7. Roomy(z, y)
    BY <1>1, <1>a DEF Roomy, Settled, ReadableBytes
  <2> QED
    BY <1>1, <2>2, <2>4, <2>5, <2>6, <2>7
<1>5. CASE z = [x EXCEPT !.close = TRUE]
  <2>1. z = [c |-> x.c, pos |-> x.pos, got |-> x.got, w |-> x.w, close |-> TRUE]
    BY Zenon, <1>1, <1>5
  <2>4. z \in TcpConnections
    BY Zenon, <1>1, <2>1, ConnMade
  <2>5. z.c = x.c /\ z.pos = x.pos /\ z.got = x.got /\ z.w = x.w /\ z.close
    BY Zenon, <2>1
  <2>6. Cut(z, y, msgs, hs, a)
    BY Zenon, <2>5 DEF Cut, Exact
  <2> QED
    BY <1>1, <2>4, <2>5, <2>6
<1>6. \/ z = x \/ z = [x EXCEPT !.close = TRUE]
      \/ \E n \in 1..(Total(msgs) - x.got) : /\ n <= BuffSize - (x.got - x.pos)
                                             /\ z = [x EXCEPT !.got = @ + n]
  BY Zenon DEF Read, ReadFromFd, Reserve, ReadableBytes
<1> QED
  BY Zenon, <1>3, <1>4, <1>5, <1>6

\* What HeaderAt returns.
LEMMA HeaderIn ==
  ASSUME NEW msgs \in Seq(Nat), NEW pos
  PROVE  HeaderAt(msgs, pos) = 0 \/ HeaderAt(msgs, pos) \in DOMAIN msgs
<1> DEFINE at == {i \in DOMAIN msgs : Start(msgs, i) = pos}
<1>1. HeaderAt(msgs, pos) = IF at = {} THEN 0 ELSE CHOOSE i \in at : TRUE
  BY Zenon DEF HeaderAt
<1>2. at # {} => (CHOOSE i \in at : TRUE) \in at
  BY Zenon
<1> QED
  BY Zenon, <1>1, <1>2

\* z and u are what read_header makes of a connection x, y whose header says size.
HeaderRead(x, y, msgs, size, z, u) ==
  /\ y.reading_header
  /\ ReadableBytes(x) >= HeaderLen
  /\ size \in IF HeaderAt(msgs, x.pos) # 0 THEN {msgs[HeaderAt(msgs, x.pos)]} ELSE 0..(BuffSize + 1)
  /\ z = [c |-> x.c, pos |-> x.pos + HeaderLen, got |-> x.got, w |-> x.w, close |-> x.close \/ ~Fits(size)]
  /\ u = [reading_header |-> ~Fits(size), size |-> size]

\* read_header keeps the buffer's invariant.
LEMMA HeaderCut ==
  ASSUME NEW x \in TcpConnections, NEW y \in RiemannTcpConnections, NEW msgs \in Seq(Nat),
         NEW hs \in Seq(Nat), NEW a \in Nat, Cut(x, y, msgs, hs, a),
         NEW size, NEW z, NEW u, HeaderRead(x, y, msgs, size, z, u)
  PROVE  /\ z \in TcpConnections /\ z.c = x.c /\ u \in RiemannTcpConnections
         /\ Cut(z, u, msgs, hs, a) /\ Roomy(z, u)
<1>1. /\ x = [c |-> x.c, pos |-> x.pos, got |-> x.got, w |-> x.w, close |-> x.close]
      /\ x.c \in Conns /\ x.pos \in Nat /\ x.got \in Nat /\ x.w \in 0..BuffSize /\ x.close \in BOOLEAN
      /\ x.got - x.pos \in 0..BuffSize /\ BuffSize \in Nat /\ HeaderLen \in Nat \ {0}
  BY Zenon, ConnFields, Buffers
<1>0. /\ y.reading_header /\ x.got - x.pos >= HeaderLen
      /\ size \in IF HeaderAt(msgs, x.pos) # 0 THEN {msgs[HeaderAt(msgs, x.pos)]} ELSE 0..(BuffSize + 1)
      /\ u = [reading_header |-> ~Fits(size), size |-> size]
  BY Zenon DEF HeaderRead, ReadableBytes
<1>2. size \in Nat
  <2>1. CASE HeaderAt(msgs, x.pos) # 0
    <3>1. HeaderAt(msgs, x.pos) \in DOMAIN msgs /\ size = msgs[HeaderAt(msgs, x.pos)]
      BY Zenon, <1>0, <2>1, HeaderIn
    <3> QED
      BY <3>1
  <2>2. CASE HeaderAt(msgs, x.pos) = 0
    BY <1>0, <1>1, <2>2
  <2> QED
    BY Zenon, <2>1, <2>2
<1>3. Fits(size) \in BOOLEAN /\ (x.close \/ ~Fits(size)) \in BOOLEAN
  BY DEF Fits
<1>4. z = [c |-> x.c, pos |-> x.pos + HeaderLen, got |-> x.got, w |-> x.w, close |-> x.close \/ ~Fits(size)]
  BY Zenon DEF HeaderRead
<1>5. x.got - (x.pos + HeaderLen) \in 0..BuffSize /\ x.pos + HeaderLen \in Nat
  BY <1>0, <1>1
<1>6. z \in TcpConnections
  <2> DEFINE b == x.close \/ ~Fits(size)
             p == x.pos + HeaderLen
  <2>1. b \in BOOLEAN /\ p \in Nat /\ x.got - p \in 0..BuffSize
    BY Zenon, <1>3, <1>5
  <2>2. z = [c |-> x.c, pos |-> p, got |-> x.got, w |-> x.w, close |-> b]
    BY <1>4, Zenon
  <2> HIDE DEF b, p
  <2>3. x.c \in Conns /\ x.got \in Nat /\ x.w \in 0..BuffSize
    BY Zenon, <1>1
  <2>4. \A c \in Conns, q, g \in Nat, m \in 0..BuffSize, d \in BOOLEAN : g - q \in 0..BuffSize =>
          [c |-> c, pos |-> q, got |-> g, w |-> m, close |-> d] \in TcpConnections
    BY ConnMade, Zenon
  <2>5. [c |-> x.c, pos |-> p, got |-> x.got, w |-> x.w, close |-> b] \in TcpConnections
    BY Zenon, <2>1, <2>3, <2>4
  <2> QED
    BY <2>2, <2>5, Zenon
<1>7. /\ z.c = x.c /\ z.pos = x.pos + HeaderLen /\ z.got = x.got /\ z.w = x.w
      /\ z.close = (x.close \/ ~Fits(size))
  BY Zenon, <1>4
<1>8. u \in RiemannTcpConnections /\ u.size = size /\ u.reading_header = ~Fits(size)
  BY Zenon, <1>0, <1>2, <1>3 DEF RiemannTcpConnections
<1>9. ASSUME ~x.close \/ AllFit(msgs)
      PROVE  /\ Len(hs) < Len(msgs) /\ size = msgs[Len(hs) + 1] /\ x.pos = Start(msgs, Len(hs) + 1)
             /\ \A k \in 1..Len(hs) : hs[k] = k
  <2>1. /\ Len(hs) <= Len(msgs) /\ x.pos = Start(msgs, Len(hs) + 1) /\ \A k \in 1..Len(hs) : hs[k] = k
        /\ x.got <= Start(msgs, Len(msgs) + 1)
    BY Zenon, <1>0, <1>9 DEF Cut, Exact, Total
  <2>2. Len(hs) # Len(msgs)
    <3>1. x.got \in Nat /\ x.pos \in Nat /\ x.got > x.pos
      BY <1>0, <1>1
    <3> QED
      BY <2>1, <3>1
  <2>3. Len(hs) + 1 \in 1..Len(msgs) /\ Len(hs) < Len(msgs)
    BY <2>1, <2>2
  <2>4. HeaderAt(msgs, x.pos) = Len(hs) + 1
    BY Zenon, <2>1, <2>3, HeaderIs
  <2>5. Len(hs) + 1 # 0
    OBVIOUS
  <2> QED
    BY Zenon, <1>0, <2>1, <2>3, <2>4, <2>5
<1>10. ASSUME ~z.close \/ AllFit(msgs)
       PROVE  Fits(size) /\ (~x.close \/ AllFit(msgs))
  <2>1. CASE ~z.close
    BY <1>7, <2>1, Zenon
  <2>2. CASE AllFit(msgs)
    <3>1. size = msgs[Len(hs) + 1] /\ Len(hs) < Len(msgs)
      BY Zenon, <1>9, <2>2
    <3>2. Len(hs) + 1 \in DOMAIN msgs
      BY <3>1
    <3> QED
      BY Zenon, <2>2, <3>1, <3>2 DEF AllFit
  <2> QED
    BY Zenon, <1>10, <2>1, <2>2
<1>11. Exact(z, u, msgs, hs)
  <2> SUFFICES ASSUME ~z.close \/ AllFit(msgs)
               PROVE  /\ Len(hs) <= Len(msgs)
                      /\ \A k \in 1..Len(hs) : hs[k] = k
                      /\ u.reading_header => z.pos = Start(msgs, Len(hs) + 1)
                      /\ ~u.reading_header => /\ Len(hs) < Len(msgs) /\ u.size = msgs[Len(hs) + 1]
                                              /\ z.pos = Start(msgs, Len(hs) + 1) + HeaderLen
    BY Zenon DEF Exact
  <2>1. Fits(size) /\ (~x.close \/ AllFit(msgs))
    BY Zenon, <1>10
  <2>2. ~u.reading_header
    BY Zenon, <1>8, <2>1
  <2>3. /\ Len(hs) < Len(msgs) /\ size = msgs[Len(hs) + 1] /\ x.pos = Start(msgs, Len(hs) + 1)
        /\ \A k \in 1..Len(hs) : hs[k] = k
    BY Zenon, <1>9, <2>1
  <2> QED
    BY <1>7, <1>8, <2>2, <2>3
<1>12. Cut(z, u, msgs, hs, a)
  BY Zenon, <1>7, <1>8, <1>11 DEF Cut
<1>13. Roomy(z, u)
  BY <1>1, <1>5, <1>7 DEF Roomy, ReadableBytes
<1> QED
  BY Zenon, <1>6, <1>7, <1>8, <1>12, <1>13

\* z and u are what read_message makes of a connection x, y when it gives the
\* i-th message to the executor.
MessageRead(x, y, msgs, i, z, u) ==
  /\ ~y.reading_header
  /\ BodyComplete(x, y.size)
  /\ AckFits(x)
  /\ i = HeaderAt(msgs, x.pos - HeaderLen)
  /\ z = [c |-> x.c, pos |-> x.pos + y.size, got |-> x.got, w |-> x.w + AckLen, close |-> x.close]
  /\ u = [reading_header |-> TRUE, size |-> y.size]

\* read_message keeps the buffer's invariant, with the message given to the
\* executor and its ack queued.
LEMMA MessageCut ==
  ASSUME NEW x \in TcpConnections, NEW y \in RiemannTcpConnections, NEW msgs \in Seq(Nat),
         NEW hs \in Seq(Nat), NEW a \in Nat, Cut(x, y, msgs, hs, a), Roomy(x, y),
         NEW i, NEW z, NEW u, MessageRead(x, y, msgs, i, z, u)
  PROVE  /\ z \in TcpConnections /\ z.c = x.c /\ u \in RiemannTcpConnections
         /\ i \in Nat /\ Append(hs, i) \in Seq(Nat)
         /\ Cut(z, u, msgs, Append(hs, i), a)
         /\ AfterMessage(y.size) = "write" => AfterEmpty(z, u, Append(hs, i))
         /\ ~x.close \/ AllFit(msgs) => i = Len(hs) + 1
<1>1. /\ x = [c |-> x.c, pos |-> x.pos, got |-> x.got, w |-> x.w, close |-> x.close]
      /\ x.c \in Conns /\ x.pos \in Nat /\ x.got \in Nat /\ x.w \in 0..BuffSize /\ x.close \in BOOLEAN
      /\ x.got - x.pos \in 0..BuffSize
  BY Zenon, ConnFields
<1>b. BuffSize \in Nat /\ HeaderLen \in Nat \ {0} /\ AckLen \in Nat
  BY Zenon, Buffers
<1>a. y.size \in Nat
  BY Zenon DEF RiemannTcpConnections
<1>0. /\ ~y.reading_header /\ x.got - x.pos >= y.size /\ BuffSize - x.w >= AckLen
      /\ i = HeaderAt(msgs, x.pos - HeaderLen) /\ u = [reading_header |-> TRUE, size |-> y.size]
  BY Zenon DEF MessageRead, BodyComplete, ReadableBytes, AckFits
<1>2. i \in Nat
  <2>1. i = 0 \/ i \in DOMAIN msgs
    BY Zenon, <1>0, HeaderIn
  <2> QED
    BY <2>1
<1>3. Append(hs, i) \in Seq(Nat) /\ Len(Append(hs, i)) = Len(hs) + 1 /\ Append(hs, i) # <<>>
  <2>1. hs \in Seq(Nat) /\ i \in Nat
    BY Zenon, <1>2
  <2>2. Append(hs, i) \in Seq(Nat) /\ Len(Append(hs, i)) = Len(hs) + 1
    BY ONLY <2>1
  <2>3. Len(hs) \in Nat
    BY ONLY <2>1
  <2>4. Append(hs, i) # <<>>
    <3>1. SUFFICES ASSUME Append(hs, i) = <<>> PROVE FALSE
      OBVIOUS
    <3>2. Len(<<>>) = Len(hs) + 1
      BY Zenon, <2>2, <3>1
    <3>3. Len(<<>>) = 0
      OBVIOUS
    <3> QED
      BY ONLY <2>3, <3>2, <3>3
  <2> QED
    BY Zenon, <2>2, <2>4
<1>4. z = [c |-> x.c, pos |-> x.pos + y.size, got |-> x.got, w |-> x.w + AckLen, close |-> x.close]
  BY Zenon DEF MessageRead
<1>5. x.got - (x.pos + y.size) \in 0..BuffSize /\ x.pos + y.size \in Nat /\ x.w + AckLen \in 0..BuffSize
  <2>1. x.pos \in Nat /\ x.got \in Nat /\ x.w \in 0..BuffSize /\ x.got - x.pos \in 0..BuffSize
    BY Zenon, <1>1
  <2>2. x.got - x.pos >= y.size /\ BuffSize - x.w >= AckLen
    BY Zenon, <1>0
  <2>3. \A p, g, m \in Nat : g - p \in 0..BuffSize /\ g - p >= m =>
                               g - (p + m) \in 0..BuffSize /\ p + m \in Nat
    BY <1>b
  <2>4. x.w + AckLen \in 0..BuffSize
    BY <1>b, <2>1, <2>2
  <2> QED
    BY Zenon, <1>a, <2>1, <2>2, <2>3, <2>4
<1>6. z \in TcpConnections
  <2> DEFINE p == x.pos + y.size
             v == x.w + AckLen
  <2>1. p \in Nat /\ x.got - p \in 0..BuffSize /\ v \in 0..BuffSize
    BY Zenon, <1>5
  <2>2. z = [c |-> x.c, pos |-> p, got |-> x.got, w |-> v, close |-> x.close]
    BY <1>4, Zenon
  <2> HIDE DEF p, v
  <2>3. x.c \in Conns /\ x.got \in Nat /\ x.close \in BOOLEAN
    BY Zenon, <1>1
  <2>4. \A c \in Conns, q, g \in Nat, m \in 0..BuffSize, d \in BOOLEAN : g - q \in 0..BuffSize =>
          [c |-> c, pos |-> q, got |-> g, w |-> m, close |-> d] \in TcpConnections
    BY ConnMade, Zenon
  <2>5. [c |-> x.c, pos |-> p, got |-> x.got, w |-> v, close |-> x.close] \in TcpConnections
    BY Zenon, <2>1, <2>3, <2>4
  <2> QED
    BY <2>2, <2>5, Zenon
<1>7. z.c = x.c /\ z.pos = x.pos + y.size /\ z.got = x.got /\ z.w = x.w + AckLen /\ z.close = x.close
  BY Zenon, <1>4
<1>8. u \in RiemannTcpConnections /\ u.size = y.size /\ u.reading_header
  BY Zenon, <1>0, <1>a DEF RiemannTcpConnections
<1>9. ASSUME ~x.close \/ AllFit(msgs)
      PROVE  /\ Len(hs) < Len(msgs) /\ y.size = msgs[Len(hs) + 1] /\ i = Len(hs) + 1
             /\ x.pos = Start(msgs, Len(hs) + 1) + HeaderLen
             /\ \A k \in 1..Len(hs) : hs[k] = k
  <2>1. /\ Len(hs) < Len(msgs) /\ y.size = msgs[Len(hs) + 1]
        /\ x.pos = Start(msgs, Len(hs) + 1) + HeaderLen
        /\ \A k \in 1..Len(hs) : hs[k] = k
    BY Zenon, <1>0, <1>9 DEF Cut, Exact
  <2>2. Len(hs) + 1 \in 1..Len(msgs) /\ Len(hs) + 1 \in 1..(Len(msgs) + 1)
    BY <2>1
  <2>3. Start(msgs, Len(hs) + 1) \in Nat
    BY Zenon, <2>2, StartIs
  <2>4. x.pos - HeaderLen = Start(msgs, Len(hs) + 1)
    BY <1>b, <2>1, <2>3
  <2>5. i = Len(hs) + 1
    BY Zenon, <1>0, <2>2, <2>4, HeaderIs
  <2> QED
    BY Zenon, <2>1, <2>5
<1>10. Exact(z, u, msgs, Append(hs, i))
  <2> SUFFICES ASSUME ~x.close \/ AllFit(msgs)
               PROVE  /\ Len(hs) + 1 <= Len(msgs)
                      /\ \A k \in 1..(Len(hs) + 1) : Append(hs, i)[k] = k
                      /\ z.pos = Start(msgs, (Len(hs) + 1) + 1)
    BY Zenon, <1>3, <1>7, <1>8 DEF Exact
  <2>1. /\ Len(hs) < Len(msgs) /\ y.size = msgs[Len(hs) + 1] /\ i = Len(hs) + 1
        /\ x.pos = Start(msgs, Len(hs) + 1) + HeaderLen
        /\ \A k \in 1..Len(hs) : hs[k] = k
    BY Zenon, <1>9
  <2>2. Len(hs) + 1 \in 1..Len(msgs) /\ Len(hs) + 1 \in 1..(Len(msgs) + 1)
    BY <2>1
  <2>3. Start(msgs, (Len(hs) + 1) + 1) = Start(msgs, Len(hs) + 1) + HeaderLen + msgs[Len(hs) + 1]
    BY Zenon, <2>2, StartIs
  <2>4. \A k \in 1..(Len(hs) + 1) : Append(hs, i)[k] = k
    BY <1>2, <2>1
  <2> QED
    BY <1>7, <2>1, <2>2, <2>3, <2>4
<1>11. a + z.w = AckLen * Len(Append(hs, i))
  <2>1. a + x.w = AckLen * Len(hs)
    BY Zenon DEF Cut
  <2>2. Len(hs) \in Nat
    OBVIOUS
  <2>3. \A m, n \in Nat : m * (n + 1) = m * n + m
    OBVIOUS
  <2>4. AckLen * (Len(hs) + 1) = AckLen * Len(hs) + AckLen
    BY Zenon, <1>b, <2>2, <2>3
  <2>5. a + (x.w + AckLen) = (a + x.w) + AckLen
    BY <1>1, <1>b
  <2> QED
    BY Zenon, <1>3, <1>7, <2>1, <2>4, <2>5
<1>12. Cut(z, u, msgs, Append(hs, i), a)
  BY Zenon, <1>7, <1>8, <1>10, <1>11 DEF Cut
<1>13. AfterMessage(y.size) = "write" => AfterEmpty(z, u, Append(hs, i))
  <2>1. AfterMessage(y.size) = "write" => y.size = 0
    BY Zenon DEF AfterMessage
  <2>2. ASSUME y.size = 0 PROVE z.got - z.pos <= BuffSize - HeaderLen
    <3>1. z.pos = x.pos /\ z.got = x.got
      BY <1>1, <1>7, <2>2
    <3>2. x.got - x.pos <= BuffSize - HeaderLen
      BY Zenon, <1>0, <2>2 DEF Roomy, ReadableBytes
    <3> QED
      BY Zenon, <3>1, <3>2
  <2> QED
    BY Zenon, <1>3, <1>8, <2>1, <2>2 DEF AfterEmpty, ReadableBytes
<1> QED
  BY Zenon, <1>2, <1>3, <1>6, <1>7, <1>8, <1>9, <1>12, <1>13

\* write_cb takes bytes of acks from the buffer to the client.
LEMMA WriteCut ==
  ASSUME NEW x \in TcpConnections, NEW y \in RiemannTcpConnections, NEW msgs \in Seq(Nat),
         NEW hs \in Seq(Nat), NEW a \in Nat, Cut(x, y, msgs, hs, a), ~x.close,
         NEW gone, NEW z \in WriteToFd(x, gone)
  PROVE  /\ z \in TcpConnections /\ z.c = x.c /\ a + (x.w - z.w) \in Nat
         /\ Cut(z, y, msgs, hs, a + (x.w - z.w))
         /\ z.pos = x.pos /\ z.got = x.got
         /\ a + (x.w - z.w) <= AckLen * Len(hs)
<1>1. /\ x = [c |-> x.c, pos |-> x.pos, got |-> x.got, w |-> x.w, close |-> x.close]
      /\ x.c \in Conns /\ x.pos \in Nat /\ x.got \in Nat /\ x.w \in 0..BuffSize /\ x.close \in BOOLEAN
      /\ x.got - x.pos \in 0..BuffSize
  BY Zenon, ConnFields
<1>b. BuffSize \in Nat /\ AckLen * Len(hs) \in Nat /\ a + x.w = AckLen * Len(hs)
  <2>1. AckLen \in Nat /\ Len(hs) \in Nat /\ BuffSize \in Nat
    BY Buffers
  <2>2. \A m, n \in Nat : m * n \in Nat
    OBVIOUS
  <2> QED
    BY Zenon, <2>1, <2>2 DEF Cut
<1>2. PICK v \in 0..BuffSize, b \in BOOLEAN :
        v <= x.w /\ z = [c |-> x.c, pos |-> x.pos, got |-> x.got, w |-> v, close |-> b]
  <2>1. ASSUME NEW n \in 1..x.w, z = [x EXCEPT !.w = @ - n]
        PROVE  /\ z = [c |-> x.c, pos |-> x.pos, got |-> x.got, w |-> x.w - n, close |-> x.close]
               /\ x.w - n \in 0..BuffSize /\ x.w - n <= x.w
    <3>1. z = [c |-> x.c, pos |-> x.pos, got |-> x.got, w |-> x.w - n, close |-> x.close]
      BY Zenon, <1>1, <2>1
    <3>2. x.w \in 0..BuffSize
      BY Zenon, <1>1
    <3>3. x.w - n \in 0..BuffSize /\ x.w - n <= x.w
      BY <1>b, <3>2
    <3> QED
      BY Zenon, <3>1, <3>3
  <2>2. CASE z = [x EXCEPT !.close = TRUE]
    <3>0. x.w \in 0..BuffSize /\ x.w <= x.w
      <4>1. x.w \in 0..BuffSize
        BY Zenon, <1>1
      <4> QED
        BY <1>b, <4>1
    <3>a. z = [c |-> x.c, pos |-> x.pos, got |-> x.got, w |-> x.w, close |-> TRUE]
      BY Zenon, <1>1, <2>2
    <3>1. z = [c |-> x.c, pos |-> x.pos, got |-> x.got, w |-> x.w, close |-> TRUE] /\ x.w <= x.w
      BY Zenon, <3>0, <3>a
    <3> QED
      BY Zenon, <1>1, <3>1
  <2>3. z = [x EXCEPT !.close = TRUE] \/ \E n \in 1..x.w : z = [x EXCEPT !.w = @ - n]
    BY Zenon DEF WriteToFd
  <2> QED
    BY Zenon, <1>1, <2>1, <2>2, <2>3
<1>3. z \in TcpConnections
  BY Zenon, <1>1, <1>2, ConnMade
<1>4. z.c = x.c /\ z.pos = x.pos /\ z.got = x.got /\ z.w = v
  BY Zenon, <1>2
<1>5. a + (x.w - v) \in Nat /\ (a + (x.w - v)) + v = a + x.w /\ a + (x.w - v) <= a + x.w
  BY <1>1, <1>b, <1>2
<1>6. Exact(z, y, msgs, hs)
  BY Zenon, <1>4 DEF Cut, Exact
<1> QED
  BY Zenon, <1>b, <1>3, <1>4, <1>5, <1>6 DEF Cut

-----------------------------------------------------------------------------
(* The maps of a loop, from descriptors.                                    *)

Maps(V) == UNION {[D -> V] : D \in SUBSET Fds}

\* A map is a function on some of the descriptors.
LEMMA MapIs ==
  ASSUME NEW V, NEW m
  PROVE  m \in Maps(V) <=> (DOMAIN m \subseteq Fds /\ m \in [DOMAIN m -> V])
<1>1. ASSUME m \in Maps(V) PROVE DOMAIN m \subseteq Fds /\ m \in [DOMAIN m -> V]
  <2>1. PICK D \in SUBSET Fds : m \in [D -> V]
    BY <1>1, Zenon DEF Maps
  <2> QED
    BY Zenon, <2>1
<1>2. ASSUME DOMAIN m \subseteq Fds, m \in [DOMAIN m -> V] PROVE m \in Maps(V)
  <2>1. DOMAIN m \in SUBSET Fds
    BY Zenon, <1>2
  <2> QED
    BY <1>2, <2>1, Zenon DEF Maps
<1> QED
  BY Zenon, <1>1, <1>2

\* A loop changes what one of its maps has for a descriptor.
LEMMA MapUpdate ==
  ASSUME NEW V, NEW M \in [Loops -> Maps(V)], NEW l \in Loops, NEW f \in DOMAIN M[l], NEW v \in V,
         NEW N, N = [M EXCEPT ![l][f] = v]
  PROVE  /\ N \in [Loops -> Maps(V)]
         /\ \A k \in Loops : DOMAIN N[k] = DOMAIN M[k]
         /\ N[l][f] = v
         /\ \A k \in Loops : \A g \in DOMAIN M[k] : k # l \/ g # f => N[k][g] = M[k][g]
<1>1. DOMAIN M[l] \subseteq Fds /\ M[l] \in [DOMAIN M[l] -> V]
  BY Zenon, MapIs
<1> DEFINE m == [M[l] EXCEPT ![f] = v]
<1>2. m \in [DOMAIN M[l] -> V] /\ DOMAIN m = DOMAIN M[l] /\ m[f] = v
      /\ \A g \in DOMAIN M[l] : g # f => m[g] = M[l][g]
  BY Zenon, <1>1
<1>3. N = [M EXCEPT ![l] = m]
  BY Zenon
<1> HIDE DEF m
<1>4. m \in Maps(V)
  BY Zenon, <1>1, <1>2, MapIs
<1>5. N \in [Loops -> Maps(V)] /\ N[l] = m /\ \A k \in Loops : k # l => N[k] = M[k]
  BY Zenon, <1>3, <1>4
<1> QED
  BY Zenon, <1>2, <1>5

\* A loop leaves a map as it is.
LEMMA MapSame ==
  ASSUME NEW V, NEW M \in [Loops -> Maps(V)], NEW l \in Loops, NEW f \in DOMAIN M[l]
  PROVE  /\ M = [M EXCEPT ![l][f] = M[l][f]]
         /\ M[l][f] \in V
<1>1. DOMAIN M[l] \subseteq Fds /\ M[l] \in [DOMAIN M[l] -> V]
  BY Zenon, MapIs
<1>2. M[l] = [M[l] EXCEPT ![f] = M[l][f]]
  BY Zenon, <1>1
<1>3. M = [M EXCEPT ![l] = M[l]]
  BY Zenon
<1> QED
  BY Zenon, <1>1, <1>2, <1>3

\* A loop changes one of its maps as a whole.
LEMMA MapReplace ==
  ASSUME NEW V, NEW M \in [Loops -> Maps(V)], NEW l \in Loops, NEW D, D \subseteq Fds,
         NEW m \in [D -> V], NEW N, N = [M EXCEPT ![l] = m]
  PROVE  /\ N \in [Loops -> Maps(V)] /\ N[l] = m /\ DOMAIN N[l] = D
         /\ \A k \in Loops : k # l => N[k] = M[k]
<1>1. DOMAIN m = D
  BY Zenon
<1>2. m \in Maps(V)
  BY Zenon, <1>1, MapIs
<1> QED
  BY Zenon, <1>1, <1>2

\* N is M when loop l has dropped the descriptor f, or has added those of n.
Without(M, N, l, f) == N = [M EXCEPT ![l] = Drop(M[l], f)]
With(M, N, l, n) == N = [M EXCEPT ![l] = Insert(M[l], n)]

\* A loop drops a descriptor from one of its maps.
LEMMA MapDrop ==
  ASSUME NEW V, NEW M \in [Loops -> Maps(V)], NEW l \in Loops, NEW f,
         NEW N, Without(M, N, l, f)
  PROVE  /\ N \in [Loops -> Maps(V)] /\ DOMAIN N[l] = DOMAIN M[l] \ {f}
         /\ \A k \in Loops : k # l => N[k] = M[k]
         /\ \A g \in DOMAIN M[l] \ {f} : N[l][g] = M[l][g]
<1> DEFINE d == Drop(M[l], f)
           D == DOMAIN M[l] \ {f}
<1>0. DOMAIN M[l] \subseteq Fds /\ M[l] \in [DOMAIN M[l] -> V]
  BY Zenon, MapIs
<1>1. d \in [D -> V] /\ D \subseteq Fds /\ \A g \in D : d[g] = M[l][g]
  BY Zenon, <1>0 DEF Drop
<1>2. N = [M EXCEPT ![l] = d]
  BY Zenon DEF Without
<1> HIDE DEF d, D
<1>3. N \in [Loops -> Maps(V)] /\ N[l] = d /\ DOMAIN N[l] = D /\ \A k \in Loops : k # l => N[k] = M[k]
  BY Zenon, <1>1, <1>2, MapReplace
<1> QED
  BY Zenon, <1>1, <1>3 DEF D

Added(V, M, N, l, S, n) ==
  /\ N \in [Loops -> Maps(V)] /\ DOMAIN N[l] = DOMAIN M[l] \cup S
  /\ \A k \in Loops : k # l => N[k] = M[k]
  /\ \A g \in DOMAIN M[l] : N[l][g] = M[l][g]
  /\ \A g \in S \ DOMAIN M[l] : N[l][g] = n[g]

\* A loop adds descriptors to one of its maps.
LEMMA MapInsert ==
  ASSUME NEW V, NEW M \in [Loops -> Maps(V)], NEW l \in Loops, NEW S \in SUBSET Fds, NEW n \in [S -> V],
         NEW N, With(M, N, l, n)
  PROVE  Added(V, M, N, l, S, n)
<1> DEFINE d == Insert(M[l], n)
           D == DOMAIN M[l] \cup S
<1>0. DOMAIN M[l] \subseteq Fds /\ M[l] \in [DOMAIN M[l] -> V] /\ DOMAIN n = S
  BY Zenon, MapIs
<1>1. d \in [D -> V] /\ D \subseteq Fds /\ (\A g \in DOMAIN M[l] : d[g] = M[l][g])
      /\ \A g \in S \ DOMAIN M[l] : d[g] = n[g]
  BY Zenon, <1>0 DEF Insert
<1>2. N = [M EXCEPT ![l] = d]
  BY Zenon DEF With
<1> HIDE DEF d, D
<1>3. N \in [Loops -> Maps(V)] /\ N[l] = d /\ DOMAIN N[l] = D /\ \A k \in Loops : k # l => N[k] = M[k]
  BY Zenon, <1>1, <1>2, MapReplace
<1> QED
  BY Zenon, <1>1, <1>3 DEF D, Added

-----------------------------------------------------------------------------
(* All connections.                                                         *)

MapFns ==
  /\ fds \in [Loops -> Maps({"read", "readwrite"})]
  /\ conn_maps \in [Loops -> Maps(TcpConnections)]
  /\ connections \in [Loops -> Maps(RiemannTcpConnections)]

\* A descriptor in use stands for a client of its own, and nothing has been read
\* from one that no loop watches yet.
Clients ==
  /\ \A f, g \in Fds : owner[f] = owner[g] /\ owner[f] # NoConn => f = g
  /\ \A f \in Fds : owner[f] # NoConn => peer[owner[f]].at \in {"open", "gone"}
  /\ \A c \in Conns : peer[c].at \in {"new", "never"} => handed[c] = <<>> /\ acked[c] = 0
  /\ \A l \in Loops : \A fd \in Waiting(l) : handed[owner[fd]] = <<>> /\ acked[owner[fd]] = 0

\* The callback r is about the descriptor f.
Busy(r, f) == r.at \notin {"idle", "exited"} /\ r.fd = f

\* What holds of a connection at the steps of its loop r: only between callbacks
\* and before the write there is nothing left to do.
Stage(r, f, x, y, hs) ==
  /\ ~Busy(r, f) => ~x.close /\ Settled(x, y, hs)
  /\ Busy(r, f) /\ r.at = "write" => x.close \/ Settled(x, y, hs)
  /\ Busy(r, f) /\ r.at = "parse" => Roomy(x, y)
  /\ Busy(r, f) /\ r.at \in {"push", "advance", "store"} =>
       y.reading_header /\ (r.then = "write" => AfterEmpty(x, y, hs))

Cuts ==
  \A l \in Loops : \A f \in DOMAIN conn_maps[l] :
    LET x == conn_maps[l][f]
        y == connections[l][f]
    IN  /\ Cut(x, y, peer[x.c].msgs, handed[x.c], acked[x.c])
        /\ Stage(loop[l], f, x, y, handed[x.c])

\* What was given to the executor, and acknowledged, also of clients that left.
Sent(hs) == Cardinality({k \in DOMAIN hs : hs[k] # 0})

History ==
  \A c \in Conns :
    /\ AllFit(peer[c].msgs) => \A k \in DOMAIN handed[c] : handed[c][k] = k
    /\ acked[c] <= AckLen * Sent(handed[c])

Frames == PoolTypes /\ MapFns /\ Clients /\ Cuts /\ History

\* The number of a client's messages among those given to the executor.
LEMMA SentFacts ==
  ASSUME NEW hs \in Seq(Nat)
  PROVE  /\ Sent(hs) \in Nat
         /\ \A i \in Nat : Sent(hs) <= Sent(Append(hs, i)) /\ Sent(Append(hs, i)) \in Nat
         /\ (\A k \in 1..Len(hs) : hs[k] = k) => Sent(hs) = Len(hs)
<1>1. ASSUME NEW s \in Seq(Nat)
      PROVE  IsFiniteSet({k \in DOMAIN s : s[k] # 0}) /\ Sent(s) \in Nat
  <2>1. IsFiniteSet(1..Len(s)) /\ DOMAIN s = 1..Len(s)
    BY FS_Interval
  <2>2. {k \in DOMAIN s : s[k] # 0} \subseteq 1..Len(s)
    BY Zenon, <2>1
  <2>3. IsFiniteSet({k \in DOMAIN s : s[k] # 0})
    BY Zenon, <2>1, <2>2, FS_Subset
  <2> QED
    BY Zenon, <2>3, FS_CardinalityType DEF Sent
<1>2. ASSUME NEW i \in Nat PROVE Sent(hs) <= Sent(Append(hs, i)) /\ Sent(Append(hs, i)) \in Nat
  <2> DEFINE g == Append(hs, i)
  <2>1. g \in Seq(Nat) /\ \A k \in DOMAIN hs : k \in DOMAIN g /\ g[k] = hs[k]
    OBVIOUS
  <2> HIDE DEF g
  <2>2. {k \in DOMAIN hs : hs[k] # 0} \subseteq {k \in DOMAIN g : g[k] # 0}
    BY Zenon, <2>1
  <2>3. IsFiniteSet({k \in DOMAIN g : g[k] # 0}) /\ Sent(g) \in Nat
    BY Zenon, <1>1, <2>1
  <2>4. Cardinality({k \in DOMAIN hs : hs[k] # 0}) <= Cardinality({k \in DOMAIN g : g[k] # 0})
    BY Zenon, <2>2, <2>3, FS_Subset
  <2>5. Sent(hs) <= Sent(g)
    BY Zenon, <2>4 DEF Sent
  <2> QED
    BY Zenon, <2>3, <2>5 DEF g
<1>3. ASSUME \A k \in 1..Len(hs) : hs[k] = k PROVE Sent(hs) = Len(hs)
  <2>1. {k \in DOMAIN hs : hs[k] # 0} = 1..Len(hs)
    BY <1>3
  <2>2. Cardinality(1..Len(hs)) = Len(hs)
    <3>1. Cardinality(1..Len(hs)) = IF 1 > Len(hs) THEN 0 ELSE Len(hs) - 1 + 1
      BY FS_Interval
    <3> QED
      BY <3>1
  <2> QED
    BY Zenon, <2>1, <2>2 DEF Sent
<1> QED
  BY Zenon, <1>1, <1>2, <1>3

\* What a loop has for a connection that it watches.
WatchedAt(l, f) ==
  /\ f \in DOMAIN conn_maps[l] /\ f \in DOMAIN connections[l] /\ f \in Fds
  /\ conn_maps[l][f] \in TcpConnections /\ connections[l][f] \in RiemannTcpConnections
  /\ fds[l][f] \in {"read", "readwrite"}
  /\ conn_maps[l][f].c \in Conns /\ conn_maps[l][f].c = owner[f]
  /\ peer[conn_maps[l][f].c].msgs \in Seq(Nat)
  /\ handed[conn_maps[l][f].c] \in Seq(Nat) /\ acked[conn_maps[l][f].c] \in Nat
  /\ peer[conn_maps[l][f].c].at \in {"open", "gone"}
  /\ \A k \in Loops : \A g \in DOMAIN fds[k] :
       k # l \/ g # f => conn_maps[k][g].c # conn_maps[l][f].c
  /\ \A k \in Loops : \A g \in Waiting(k) : owner[g] # conn_maps[l][f].c

\* A connection that a loop watches: its parts, and that no other has its client.
LEMMA Watched ==
  ASSUME Places, Frames, NEW l \in Loops, NEW f \in DOMAIN fds[l]
  PROVE  WatchedAt(l, f)
<1>1. /\ DOMAIN fds[l] \subseteq Fds
      /\ \A k \in Loops : DOMAIN fds[k] = DOMAIN conn_maps[k] /\ DOMAIN fds[k] = DOMAIN connections[k]
      /\ \A k \in Loops : \A g \in DOMAIN fds[k] : g \in Fds /\ owner[g] # NoConn /\ conn_maps[k][g].c = owner[g]
      /\ \A k \in Loops : Waiting(k) \subseteq Fds
  <2>1. \A k \in Loops : Waiting(k) \subseteq Fds
    BY DEF Frames, PoolTypes, Waiting
  <2> QED
    BY Zenon, <2>1 DEF Places, InOnePlace
<1>2. f \in DOMAIN conn_maps[l] /\ f \in DOMAIN connections[l] /\ f \in Fds
  BY Zenon, <1>1
<1>3. conn_maps[l][f] \in TcpConnections
  BY Zenon, <1>2, MapSame DEF Frames, MapFns
<1>4. connections[l][f] \in RiemannTcpConnections
  BY Zenon, <1>2, MapSame DEF Frames, MapFns
<1>5. fds[l][f] \in {"read", "readwrite"}
  BY Zenon, MapSame DEF Frames, MapFns
<1>6. conn_maps[l][f].c \in Conns
  BY Zenon, <1>3, ConnFields
<1>7. /\ peer[conn_maps[l][f].c].msgs \in Seq(Nat)
      /\ handed[conn_maps[l][f].c] \in Seq(Nat) /\ acked[conn_maps[l][f].c] \in Nat
  BY Zenon, <1>6 DEF Frames, PoolTypes
<1>8. peer[conn_maps[l][f].c].at \in {"open", "gone"}
  BY Zenon, <1>1 DEF Frames, Clients
<1>9. ASSUME NEW k \in Loops, NEW g \in DOMAIN fds[k], k # l \/ g # f
      PROVE  conn_maps[k][g].c # conn_maps[l][f].c
  <2>1. g # f
    BY <1>9 DEF Places, InOnePlace, Place
  <2> QED
    BY <1>1, <2>1 DEF Frames, Clients
<1>10. ASSUME NEW k \in Loops, NEW g \in Waiting(k)
       PROVE  owner[g] # conn_maps[l][f].c
  <2>1. g # f
    BY <1>10 DEF Places, InOnePlace, Place
  <2> QED
    BY <1>1, <2>1 DEF Frames, Clients
<1> QED
  BY Zenon, <1>1, <1>2, <1>3, <1>4, <1>5, <1>6, <1>7, <1>8, <1>9, <1>10 DEF WatchedAt

\* A step of a loop in a callback changes one connection, and keeps the invariant
\* if that connection does.
LEMMA OneConn ==
  ASSUME Places, Frames, NEW l \in Loops, NEW f \in DOMAIN fds[l],
         NEW c, c = conn_maps[l][f].c,
         NEW z \in TcpConnections, z.c = c, NEW u \in RiemannTcpConnections,
         NEW r \in {Idle, Exited} \cup Callbacks \cup AddTaskCalls,
         NEW m \in {"read", "readwrite"}, NEW hs \in Seq(Nat), NEW a \in Nat,
         loop[l] = Idle \/ Busy(loop[l], f), r = Idle \/ Busy(r, f),
         UNCHANGED <<owner, peer, next_loop, new_fds, pending>>,
         fds' = [fds EXCEPT ![l][f] = m], conn_maps' = [conn_maps EXCEPT ![l][f] = z],
         connections' = [connections EXCEPT ![l][f] = u], loop' = [loop EXCEPT ![l] = r],
         handed' = [handed EXCEPT ![c] = hs], acked' = [acked EXCEPT ![c] = a],
         Cut(z, u, peer[c].msgs, hs, a), Stage(r, f, z, u, hs), a <= AckLen * Sent(hs)
  PROVE  Frames'
<1>1. /\ f \in DOMAIN conn_maps[l] /\ f \in DOMAIN connections[l] /\ f \in Fds /\ c \in Conns
      /\ peer[c].at \in {"open", "gone"} /\ c = owner[f]
      /\ \A k \in Loops : \A g \in DOMAIN fds[k] : k # l \/ g # f => conn_maps[k][g].c # c
      /\ \A k \in Loops : \A g \in Waiting(k) : owner[g] # c
  <2>1. WatchedAt(l, f)
    BY Zenon, Watched
  <2> QED
    BY Zenon, <2>1 DEF WatchedAt
<1>2. /\ fds \in [Loops -> Maps({"read", "readwrite"})] /\ conn_maps \in [Loops -> Maps(TcpConnections)]
      /\ connections \in [Loops -> Maps(RiemannTcpConnections)]
      /\ handed \in [Conns -> Seq(Nat)] /\ acked \in [Conns -> Nat] /\ DOMAIN loop = Loops
      /\ \A k \in Loops : DOMAIN fds[k] = DOMAIN conn_maps[k]
      /\ \A k \in Loops : \A g \in DOMAIN conn_maps[k] : conn_maps[k][g].c \in Conns
  <2>1. \A k \in Loops : DOMAIN fds[k] = DOMAIN conn_maps[k]
    BY Zenon DEF Places, InOnePlace
  <2>2. \A k \in Loops : \A g \in DOMAIN conn_maps[k] : conn_maps[k][g].c \in Conns
    BY Zenon, <2>1, Watched DEF WatchedAt
  <2> QED
    BY Zenon, <2>1, <2>2 DEF Frames, MapFns, PoolTypes
<1>3. /\ fds' \in [Loops -> Maps({"read", "readwrite"})]
      /\ \A k \in Loops : DOMAIN fds'[k] = DOMAIN fds[k]
  <2> DEFINE V == {"read", "readwrite"}
             M == fds
             N == fds'
  <2>1. M \in [Loops -> Maps(V)] /\ f \in DOMAIN M[l] /\ m \in V /\ N = [M EXCEPT ![l][f] = m]
    BY Zenon, <1>2
  <2> HIDE DEF V, M, N
  <2>2. N \in [Loops -> Maps(V)] /\ \A k \in Loops : DOMAIN N[k] = DOMAIN M[k]
    BY Zenon, <2>1, MapUpdate
  <2> QED
    BY Zenon, <2>2 DEF V, M, N
<1>4. /\ conn_maps' \in [Loops -> Maps(TcpConnections)]
      /\ \A k \in Loops : DOMAIN conn_maps'[k] = DOMAIN conn_maps[k]
      /\ conn_maps'[l][f] = z
      /\ \A k \in Loops : \A g \in DOMAIN conn_maps[k] : k # l \/ g # f => conn_maps'[k][g] = conn_maps[k][g]
  <2> DEFINE V == TcpConnections
             M == conn_maps
             N == conn_maps'
  <2>1. M \in [Loops -> Maps(V)] /\ f \in DOMAIN M[l] /\ z \in V /\ N = [M EXCEPT ![l][f] = z]
    BY Zenon, <1>1, <1>2
  <2> HIDE DEF V, M, N
  <2>2. /\ N \in [Loops -> Maps(V)] /\ \A k \in Loops : DOMAIN N[k] = DOMAIN M[k]
        /\ N[l][f] = z
        /\ \A k \in Loops : \A g \in DOMAIN M[k] : k # l \/ g # f => N[k][g] = M[k][g]
    BY Zenon, <2>1, MapUpdate
  <2> QED
    BY Zenon, <2>2 DEF V, M, N
<1>5. /\ connections' \in [Loops -> Maps(RiemannTcpConnections)]
      /\ \A k \in Loops : DOMAIN connections'[k] = DOMAIN connections[k]
      /\ connections'[l][f] = u
      /\ \A k \in Loops : \A g \in DOMAIN connections[k] : k # l \/ g # f => connections'[k][g] = connections[k][g]
  <2> DEFINE V == RiemannTcpConnections
             M == connections
             N == connections'
  <2>1. M \in [Loops -> Maps(V)] /\ f \in DOMAIN M[l] /\ u \in V /\ N = [M EXCEPT ![l][f] = u]
    BY Zenon, <1>1, <1>2
  <2> HIDE DEF V, M, N
  <2>2. /\ N \in [Loops -> Maps(V)] /\ \A k \in Loops : DOMAIN N[k] = DOMAIN M[k]
        /\ N[l][f] = u
        /\ \A k \in Loops : \A g \in DOMAIN M[k] : k # l \/ g # f => N[k][g] = M[k][g]
    BY Zenon, <2>1, MapUpdate
  <2> QED
    BY Zenon, <2>2 DEF V, M, N
<1>6. /\ handed' \in [Conns -> Seq(Nat)] /\ handed'[c] = hs /\ \A d \in Conns : d # c => handed'[d] = handed[d]
      /\ acked' \in [Conns -> Nat] /\ acked'[c] = a /\ \A d \in Conns : d # c => acked'[d] = acked[d]
  BY Zenon, <1>1, <1>2
<1>7. /\ loop' \in [Loops -> {Idle, Exited} \cup Callbacks \cup AddTaskCalls] /\ loop'[l] = r
      /\ \A k \in Loops : k # l => loop'[k] = loop[k]
  BY Zenon, <1>2 DEF Frames, PoolTypes
<1>8. PoolTypes' /\ MapFns'
  BY Zenon, <1>3, <1>4, <1>5, <1>6, <1>7 DEF Frames, PoolTypes, MapFns
<1>9. Clients'
  <2>1. \A k \in Loops : Waiting(k)' = Waiting(k)
    BY Zenon DEF Waiting
  <2>2. \A k \in Loops : \A g \in Waiting(k) : g \in Fds /\ owner[g] \in Conns
    BY Sizes DEF Frames, PoolTypes, Waiting, Places, InOnePlace, NoConn
  <2>3. \A d \in Conns : peer'[d].at \in {"new", "never"} => handed'[d] = <<>> /\ acked'[d] = 0
    BY Zenon, <1>1, <1>6 DEF Frames, Clients
  <2>4. \A k \in Loops : \A g \in Waiting(k) : handed'[owner'[g]] = <<>> /\ acked'[owner'[g]] = 0
    BY <1>1, <1>6, <2>2 DEF Frames, Clients
  <2> QED
    BY Zenon, <2>1, <2>3, <2>4 DEF Frames, Clients
<1>10. ASSUME NEW k \in Loops, NEW g \in DOMAIN conn_maps'[k]
       PROVE  LET x == conn_maps'[k][g]
                  y == connections'[k][g]
              IN  /\ Cut(x, y, peer'[x.c].msgs, handed'[x.c], acked'[x.c])
                  /\ Stage(loop'[k], g, x, y, handed'[x.c])
  <2>1. CASE k = l /\ g = f
    BY <1>4, <1>5, <1>6, <1>7, <2>1
  <2>2. CASE k # l \/ g # f
    <3> DEFINE x == conn_maps[k][g]
               y == connections[k][g]
    <3>1. g \in DOMAIN conn_maps[k] /\ g \in DOMAIN connections[k] /\ g \in DOMAIN fds[k]
      BY <1>2, <1>4 DEF Places, InOnePlace
    <3>2. x.c \in Conns /\ x.c # c
      BY Zenon, <1>1, <1>2, <2>2, <3>1
    <3>3. conn_maps'[k][g] = x /\ connections'[k][g] = y
      BY Zenon, <1>4, <1>5, <2>2, <3>1
    <3>4. handed'[x.c] = handed[x.c] /\ acked'[x.c] = acked[x.c] /\ peer'[x.c] = peer[x.c]
      BY Zenon, <1>6, <3>2
    <3>5. /\ Cut(x, y, peer[x.c].msgs, handed[x.c], acked[x.c])
          /\ Stage(loop[k], g, x, y, handed[x.c])
      BY Zenon, <3>1 DEF Frames, Cuts
    <3> HIDE DEF x, y
    <3>6. Stage(loop'[k], g, x, y, handed[x.c])
      <4>1. CASE k # l
        BY Zenon, <1>7, <3>5, <4>1
      <4>2. CASE k = l /\ g # f
        <5>1. ~Busy(loop[l], g) /\ ~Busy(r, g)
          BY <4>2 DEF Busy, Idle
        <5> QED
          BY Zenon, <1>7, <3>5, <4>2, <5>1 DEF Stage
      <4> QED
        BY Zenon, <2>2, <4>1, <4>2
    <3> QED
      BY Zenon, <3>3, <3>4, <3>5, <3>6
  <2> QED
    BY Zenon, <2>1, <2>2
<1>11. Cuts'
  BY <1>10, Zenon DEF Cuts
<1>12. History'
  <2>1. ASSUME NEW d \in Conns, d # c
        PROVE  /\ AllFit(peer'[d].msgs) => \A k \in DOMAIN handed'[d] : handed'[d][k] = k
               /\ acked'[d] <= AckLen * Sent(handed'[d])
    <3>1. peer'[d] = peer[d] /\ handed'[d] = handed[d] /\ acked'[d] = acked[d]
      BY Zenon, <1>6, <2>1
    <3> QED
      BY Zenon, <3>1 DEF Frames, History
  <2>2. AllFit(peer[c].msgs) => \A k \in DOMAIN hs : hs[k] = k
    <3>1. AllFit(peer[c].msgs) => \A k \in 1..Len(hs) : hs[k] = k
      BY Zenon DEF Cut, Exact
    <3> QED
      BY <3>1
  <2>3. /\ AllFit(peer'[c].msgs) => \A k \in DOMAIN handed'[c] : handed'[c][k] = k
        /\ acked'[c] <= AckLen * Sent(handed'[c])
    BY <1>6, <2>2, Zenon
  <2> QED
    BY <2>1, <2>3, Zenon DEF History
<1> QED
  BY Zenon, <1>8, <1>9, <1>11, <1>12 DEF Frames

\* A connection that is left as it is.
SameAt(l, f, x, y) ==
  /\ fds = [fds EXCEPT ![l][f] = fds[l][f]]
  /\ conn_maps = [conn_maps EXCEPT ![l][f] = x]
  /\ connections = [connections EXCEPT ![l][f] = y]
  /\ loop = [loop EXCEPT ![l] = loop[l]]
  /\ loop[l] \in {Idle, Exited} \cup Callbacks \cup AddTaskCalls
  /\ handed = [handed EXCEPT ![x.c] = handed[x.c]]
  /\ acked = [acked EXCEPT ![x.c] = acked[x.c]]
  /\ Cut(x, y, peer[x.c].msgs, handed[x.c], acked[x.c])
  /\ Stage(loop[l], f, x, y, handed[x.c])
  /\ acked[x.c] <= AckLen * Sent(handed[x.c])

\* What a connection that a loop watches has, and what it means to leave it.
LEMMA Same ==
  ASSUME Places, Frames, NEW l \in Loops, NEW f \in DOMAIN fds[l],
         NEW x, x = conn_maps[l][f], NEW y, y = connections[l][f]
  PROVE  SameAt(l, f, x, y)
<1>1. f \in DOMAIN conn_maps[l] /\ f \in DOMAIN connections[l] /\ x.c \in Conns
  BY Zenon, Watched DEF WatchedAt
<1>2. fds = [fds EXCEPT ![l][f] = fds[l][f]]
  BY Zenon, MapSame DEF Frames, MapFns
<1>3. conn_maps = [conn_maps EXCEPT ![l][f] = x]
  BY <1>1, MapSame DEF Frames, MapFns
<1>4. connections = [connections EXCEPT ![l][f] = y]
  BY <1>1, MapSame DEF Frames, MapFns
<1>5. /\ handed = [handed EXCEPT ![x.c] = handed[x.c]] /\ acked = [acked EXCEPT ![x.c] = acked[x.c]]
      /\ loop = [loop EXCEPT ![l] = loop[l]]
      /\ loop[l] \in {Idle, Exited} \cup Callbacks \cup AddTaskCalls
  BY Zenon DEF Frames, PoolTypes
<1>6. /\ Cut(x, y, peer[x.c].msgs, handed[x.c], acked[x.c])
      /\ Stage(loop[l], f, x, y, handed[x.c])
  BY <1>1, Zenon DEF Frames, Cuts
<1>7. acked[x.c] <= AckLen * Sent(handed[x.c])
  BY <1>1, Zenon DEF Frames, History
<1> QED
  BY <1>2, <1>3, <1>4, <1>5, <1>6, <1>7, Zenon DEF SameAt

\* The callback a loop is in.
LEMMA Here ==
  ASSUME Places, Frames, NEW l \in Loops, loop[l].at \notin {"idle", "exited"}
  PROVE  /\ loop[l].fd \in DOMAIN fds[l] /\ Busy(loop[l], loop[l].fd)
         /\ loop[l].at \in {"parse", "write"} => loop[l] \in Callbacks
         /\ loop[l].at \in {"push", "advance", "store"} => loop[l] \in AddTaskCalls
         /\ loop[l].at \in {"parse", "write", "push", "advance", "store"}
<1>1. loop[l].fd \in DOMAIN fds[l]
  BY Zenon, Where
<1>2. loop[l] \in Callbacks \cup AddTaskCalls
  BY DEF Frames, PoolTypes, Idle, Exited
<1> QED
  BY Zenon, <1>1, <1>2 DEF Callbacks, AddTaskCalls, Busy

\* The start of a callback.
LEMMA FramesSocket ==
  ASSUME Places, Frames, NEW l \in Loops, NEW fd \in Fds, NEW rd \in BOOLEAN, NEW wr \in BOOLEAN,
         SocketCallback(l, fd, rd, wr)
  PROVE  Frames'
<1>1. loop[l] = Idle /\ fd \in DOMAIN fds[l]
  BY Zenon DEF SocketCallback
<1> DEFINE x == conn_maps[l][fd]
           y == connections[l][fd]
           c == x.c
           hs == handed[x.c]
           a == acked[x.c]
           msgs == peer[x.c].msgs
           m == fds[l][fd]
           left == Total(peer[x.c].msgs) - x.got
           gone == peer[x.c].at = "gone"
<1>2. /\ x \in TcpConnections /\ y \in RiemannTcpConnections /\ msgs \in Seq(Nat)
      /\ hs \in Seq(Nat) /\ a \in Nat /\ m \in {"read", "readwrite"}
  <2>1. WatchedAt(l, fd)
    BY Zenon, <1>1, Watched
  <2> QED
    BY Zenon, <2>1 DEF WatchedAt
<1>3. /\ fds = [fds EXCEPT ![l][fd] = m] /\ connections = [connections EXCEPT ![l][fd] = y]
      /\ handed = [handed EXCEPT ![c] = hs] /\ acked = [acked EXCEPT ![c] = a]
      /\ Cut(x, y, msgs, hs, a) /\ Stage(loop[l], fd, x, y, hs) /\ a <= AckLen * Sent(hs)
  <2>1. SameAt(l, fd, x, y)
    BY Zenon, <1>1, Same
  <2> QED
    BY Zenon, <2>1 DEF SameAt
<1>4. PICK z \in IF rd THEN Read(x, left, gone) ELSE {x} :
        /\ conn_maps' = [conn_maps EXCEPT ![l][fd] = z]
        /\ loop' = [loop EXCEPT ![l] = [at |-> IF z.got > x.got THEN "parse" ELSE "write",
                                        fd |-> fd, wr |-> wr]]
  BY Zenon DEF SocketCallback
<1> DEFINE r == [at |-> IF z.got > x.got THEN "parse" ELSE "write", fd |-> fd, wr |-> wr]
<1>5. UNCHANGED <<owner, peer, next_loop, new_fds, pending, fds, connections, handed, acked>>
  BY Zenon DEF SocketCallback
<1>6. ~x.close /\ Settled(x, y, hs)
  <2>1. loop[l].at = "idle"
    BY <1>1 DEF Idle
  <2>2. ~Busy(loop[l], fd)
    BY Zenon, <2>1 DEF Busy
  <2> HIDE DEF x, y, hs
  <2> QED
    BY Zenon, <1>3, <2>2 DEF Stage
<1>7. /\ z \in TcpConnections /\ z.c = c /\ Cut(z, y, msgs, hs, a)
      /\ z.got > x.got => Roomy(z, y)
      /\ ~(z.got > x.got) => z.close \/ Settled(z, y, hs)
  <2>1. CASE rd
    <3>1. z \in Read(x, Total(msgs) - x.got, gone)
      BY Zenon, <1>4, <2>1
    <3> HIDE DEF x, y, hs, a, msgs, gone
    <3>2. /\ z \in TcpConnections /\ z.c = x.c /\ Cut(z, y, msgs, hs, a)
          /\ z.got > x.got => Roomy(z, y)
          /\ ~(z.got > x.got) => z.close \/ Settled(z, y, hs)
      BY Zenon, <1>2, <1>3, <1>6, <3>1, ReadCut
    <3> QED
      BY Zenon, <3>2
  <2>2. CASE ~rd
    <3>1. z = x
      BY Zenon, <1>4, <2>2
    <3>2. x.got \in Nat
      BY Zenon, <1>2, ConnFields
    <3> HIDE DEF x, y, hs, a, msgs
    <3>3. ~(x.got > x.got)
      BY <3>2
    <3> QED
      BY Zenon, <1>2, <1>3, <1>6, <3>1, <3>3
  <2> QED
    BY Zenon, <2>1, <2>2
<1>8. /\ r \in Callbacks /\ r.fd = fd /\ r.at \notin {"idle", "exited"}
      /\ r.at \in {"parse", "write"}
      /\ r.at = "parse" => z.got > x.got
      /\ r.at = "write" => ~(z.got > x.got)
  BY Zenon DEF Callbacks
<1>9. loop' = [loop EXCEPT ![l] = r] /\ conn_maps' = [conn_maps EXCEPT ![l][fd] = z]
  BY Zenon, <1>4
<1> HIDE DEF r, y, hs, a, m, msgs
<1>10. Stage(r, fd, z, y, hs) /\ Busy(r, fd)
  BY Zenon, <1>7, <1>8 DEF Stage, Busy
<1>11. c = conn_maps[l][fd].c /\ Cut(z, y, peer[c].msgs, hs, a)
  BY Zenon, <1>7 DEF msgs
<1> HIDE DEF x, c
<1> QED
  <2>1. /\ fds' = [fds EXCEPT ![l][fd] = m] /\ connections' = [connections EXCEPT ![l][fd] = y]
        /\ handed' = [handed EXCEPT ![c] = hs] /\ acked' = [acked EXCEPT ![c] = a]
        /\ UNCHANGED <<owner, peer, next_loop, new_fds, pending>>
    BY Zenon, <1>3, <1>5
  <2>2. r \in {Idle, Exited} \cup Callbacks \cup AddTaskCalls
    BY Zenon, <1>8
  <2> QED
    BY <1>1, <1>2, <1>3, <1>7, <1>9, <1>10, <1>11, <2>1, <2>2, OneConn, Zenon

\* read_header.
LEMMA FramesHeader ==
  ASSUME Places, Frames, NEW l \in Loops, ReadHeader(l)
  PROVE  Frames'
<1> DEFINE f == loop[l].fd
           x == conn_maps[l][f]
           y == connections[l][f]
           c == x.c
           hs == handed[x.c]
           a == acked[x.c]
           msgs == peer[x.c].msgs
           m == fds[l][f]
<1>0. loop[l].at = "parse" /\ y.reading_header
  BY Zenon DEF ReadHeader, Riemann
<1>1. f \in DOMAIN fds[l] /\ Busy(loop[l], f) /\ loop[l] \in Callbacks
  BY Zenon, <1>0, Here
<1>2. /\ x \in TcpConnections /\ y \in RiemannTcpConnections /\ msgs \in Seq(Nat)
      /\ hs \in Seq(Nat) /\ a \in Nat /\ m \in {"read", "readwrite"}
  <2>1. WatchedAt(l, f)
    BY Zenon, <1>1, Watched
  <2> QED
    BY Zenon, <2>1 DEF WatchedAt
<1>3. /\ fds = [fds EXCEPT ![l][f] = m] /\ connections = [connections EXCEPT ![l][f] = y]
      /\ conn_maps = [conn_maps EXCEPT ![l][f] = x] /\ loop = [loop EXCEPT ![l] = loop[l]]
      /\ handed = [handed EXCEPT ![c] = hs] /\ acked = [acked EXCEPT ![c] = a]
      /\ Cut(x, y, msgs, hs, a) /\ a <= AckLen * Sent(hs)
  <2>1. SameAt(l, f, x, y)
    BY Zenon, <1>1, Same
  <2> QED
    BY Zenon, <2>1 DEF SameAt
<1>4. UNCHANGED <<owner, peer, next_loop, new_fds, pending, fds, handed, acked>>
  BY Zenon DEF ReadHeader
<1>5. CASE ReadableBytes(x) < HeaderLen
  <2> DEFINE r == [loop[l] EXCEPT !.at = "write"]
  <2>1. r \in Callbacks /\ r.fd = f /\ r.at = "write"
    BY Zenon, <1>1 DEF Callbacks
  <2>2. loop' = [loop EXCEPT ![l] = r] /\ UNCHANGED <<conn_maps, connections>>
    BY Zenon, <1>5 DEF ReadHeader, At, Conn
  <2> HIDE DEF r, x, y, hs, a, m, msgs, c
  <2>3. Stage(r, f, x, y, hs) /\ Busy(r, f)
    BY Zenon, <1>0, <1>5, <2>1 DEF Stage, Busy, Settled
  <2>4. c = conn_maps[l][f].c /\ x.c = c /\ Cut(x, y, peer[c].msgs, hs, a)
    BY Zenon, <1>3 DEF msgs, c, x
  <2>5. /\ fds' = [fds EXCEPT ![l][f] = m] /\ connections' = [connections EXCEPT ![l][f] = y]
        /\ conn_maps' = [conn_maps EXCEPT ![l][f] = x]
        /\ handed' = [handed EXCEPT ![c] = hs] /\ acked' = [acked EXCEPT ![c] = a]
        /\ UNCHANGED <<owner, peer, next_loop, new_fds, pending>>
    BY Zenon, <1>3, <1>4, <2>2
  <2>6. r \in {Idle, Exited} \cup Callbacks \cup AddTaskCalls
    BY Zenon, <2>1
  <2> HIDE DEF f
  <2> QED
    BY <1>1, <1>2, <1>3, <2>2, <2>3, <2>4, <2>5, <2>6, OneConn, Zenon
<1>6. CASE ~(ReadableBytes(x) < HeaderLen)
  <2>1. PICK size \in IF HeaderAt(msgs, x.pos) # 0 THEN {msgs[HeaderAt(msgs, x.pos)]} ELSE 0..(BuffSize + 1) :
          /\ conn_maps' = [conn_maps EXCEPT ![l][f] =
                             [x EXCEPT !.pos = @ + HeaderLen, !.close = @ \/ ~Fits(size)]]
          /\ connections' = [connections EXCEPT ![l][f] = [reading_header |-> ~Fits(size), size |-> size]]
          /\ UNCHANGED loop
    BY <1>6, Zenon DEF ReadHeader, Conn, SetConn, SetRiemann
  <2> DEFINE z == [x EXCEPT !.pos = @ + HeaderLen, !.close = @ \/ ~Fits(size)]
             u == [reading_header |-> ~Fits(size), size |-> size]
  <2>2. ReadableBytes(x) >= HeaderLen
    <3> HIDE DEF x
    <3>1. x.got \in Nat /\ x.pos \in Nat
      BY Zenon, <1>2, ConnFields
    <3>2. HeaderLen \in Nat
      BY Zenon, Buffers
    <3> QED
      BY <1>6, <3>1, <3>2 DEF ReadableBytes
  <2>3. /\ conn_maps' = [conn_maps EXCEPT ![l][f] = z] /\ connections' = [connections EXCEPT ![l][f] = u]
        /\ z = [x EXCEPT !.pos = @ + HeaderLen, !.close = @ \/ ~Fits(size)]
        /\ u = [reading_header |-> ~Fits(size), size |-> size]
    BY Zenon, <2>1
  <2> HIDE DEF z, u, x, y, hs, a, m, msgs, c
  <2>4. /\ z \in TcpConnections /\ z.c = x.c /\ u \in RiemannTcpConnections
        /\ Cut(z, u, msgs, hs, a) /\ Roomy(z, u)
    <3>1. Cut(x, y, msgs, hs, a)
      BY Zenon, <1>3
    <3>0. x = [c |-> x.c, pos |-> x.pos, got |-> x.got, w |-> x.w, close |-> x.close]
      BY Zenon, <1>2, ConnFields
    <3>a. u = [reading_header |-> ~Fits(size), size |-> size]
      BY Zenon, <2>3
    <3>2. z = [c |-> x.c, pos |-> x.pos + HeaderLen, got |-> x.got, w |-> x.w, close |-> x.close \/ ~Fits(size)]
      BY Zenon, <2>3, <3>0
    <3>3. x \in TcpConnections /\ y \in RiemannTcpConnections /\ msgs \in Seq(Nat) /\ hs \in Seq(Nat) /\ a \in Nat
      BY Zenon, <1>2
    <3>4. size \in IF HeaderAt(msgs, x.pos) # 0 THEN {msgs[HeaderAt(msgs, x.pos)]} ELSE 0..(BuffSize + 1)
      BY Zenon, <2>1
    <3> QED
      <4>1. HeaderRead(x, y, msgs, size, z, u)
        BY <1>0, <2>2, <3>2, <3>a, <3>4, Zenon DEF HeaderRead
      <4> QED
        BY Zenon, <3>1, <3>3, <4>1, HeaderCut
  <2>5. Stage(loop[l], f, z, u, hs)
    BY Zenon, <1>0, <1>1, <2>4 DEF Stage
  <2>6. c = conn_maps[l][f].c /\ z.c = c /\ Cut(z, u, peer[c].msgs, hs, a)
    BY Zenon, <2>4 DEF msgs, c, x
  <2>7. /\ fds' = [fds EXCEPT ![l][f] = m] /\ loop' = [loop EXCEPT ![l] = loop[l]]
        /\ handed' = [handed EXCEPT ![c] = hs] /\ acked' = [acked EXCEPT ![c] = a]
        /\ UNCHANGED <<owner, peer, next_loop, new_fds, pending>>
    BY Zenon, <1>3, <1>4, <2>1
  <2>8. loop[l] \in {Idle, Exited} \cup Callbacks \cup AddTaskCalls
    BY Zenon, <1>1
  <2> HIDE DEF f
  <2> QED
    BY <1>1, <1>2, <1>3, <2>3, <2>4, <2>5, <2>6, <2>7, <2>8, OneConn, Zenon
<1> QED
  BY Zenon, <1>5, <1>6

\* read_message, with add_task up to the push.
LEMMA FramesMessage ==
  ASSUME Places, Frames, NEW l \in Loops, next_thread \in Workers, ReadMessage(l)
  PROVE  Frames'
<1> DEFINE f == loop[l].fd
           x == conn_maps[l][f]
           y == connections[l][f]
           c == x.c
           hs == handed[x.c]
           a == acked[x.c]
           msgs == peer[x.c].msgs
           m == fds[l][f]
<1>0. loop[l].at = "parse" /\ ~y.reading_header
  BY Zenon DEF ReadMessage, Riemann
<1>1. f \in DOMAIN fds[l] /\ Busy(loop[l], f) /\ loop[l] \in Callbacks
  BY Zenon, <1>0, Here
<1>2. /\ x \in TcpConnections /\ y \in RiemannTcpConnections /\ msgs \in Seq(Nat) /\ c \in Conns
      /\ hs \in Seq(Nat) /\ a \in Nat /\ m \in {"read", "readwrite"}
  <2>1. WatchedAt(l, f)
    BY Zenon, <1>1, Watched
  <2> QED
    BY Zenon, <2>1 DEF WatchedAt
<1>3. /\ fds = [fds EXCEPT ![l][f] = m] /\ connections = [connections EXCEPT ![l][f] = y]
      /\ conn_maps = [conn_maps EXCEPT ![l][f] = x]
      /\ handed = [handed EXCEPT ![c] = hs] /\ acked = [acked EXCEPT ![c] = a]
      /\ Cut(x, y, msgs, hs, a) /\ Stage(loop[l], f, x, y, hs) /\ a <= AckLen * Sent(hs)
  <2>1. SameAt(l, f, x, y)
    BY Zenon, <1>1, Same
  <2> QED
    BY Zenon, <2>1 DEF SameAt
<1>4. UNCHANGED <<owner, peer, next_loop, new_fds, pending, fds, acked>>
  BY Zenon DEF ReadMessage
<1>5. c = conn_maps[l][f].c /\ msgs = peer[c].msgs
  BY Zenon
<1>w. ASSUME NEW r, r = [loop[l] EXCEPT !.at = "write"]
      PROVE  /\ r \in Callbacks /\ r.fd = f /\ r.at = "write" /\ Busy(r, f)
             /\ r \in {Idle, Exited} \cup Callbacks \cup AddTaskCalls
  <2>1. r \in Callbacks /\ r.fd = f /\ r.at = "write"
    BY Zenon, <1>1, <1>w DEF Callbacks
  <2> QED
    BY Zenon, <2>1 DEF Busy
<1>6. CASE ~BodyComplete(x, y.size)
  <2> DEFINE r == [loop[l] EXCEPT !.at = "write"]
  <2>1. loop' = [loop EXCEPT ![l] = r] /\ UNCHANGED <<conn_maps, connections, handed>>
    BY Zenon, <1>6 DEF ReadMessage, At, Conn, Riemann
  <2>2. r.at = "write" /\ Busy(r, f) /\ r \in {Idle, Exited} \cup Callbacks \cup AddTaskCalls
    BY Zenon, <1>w
  <2> HIDE DEF r, x, y, hs, a, m, msgs, c
  <2>3. ReadableBytes(x) < y.size
    <3>1. x.got - x.pos \in Int /\ y.size \in Int
      BY <1>2, ConnFields DEF RiemannTcpConnections
    <3> QED
      BY <1>6, <3>1 DEF BodyComplete, ReadableBytes
  <2>4. Stage(r, f, x, y, hs)
    BY Zenon, <1>0, <2>2, <2>3 DEF Stage, Settled
  <2>5. /\ fds' = [fds EXCEPT ![l][f] = m] /\ connections' = [connections EXCEPT ![l][f] = y]
        /\ conn_maps' = [conn_maps EXCEPT ![l][f] = x]
        /\ handed' = [handed EXCEPT ![c] = hs] /\ acked' = [acked EXCEPT ![c] = a]
        /\ UNCHANGED <<owner, peer, next_loop, new_fds, pending>>
    BY Zenon, <1>3, <1>4, <2>1
  <2>6. x.c = c /\ Cut(x, y, peer[c].msgs, hs, a)
    BY Zenon, <1>3, <1>5 DEF c
  <2> HIDE DEF f
  <2> QED
    BY <1>1, <1>2, <1>3, <1>5, <2>1, <2>2, <2>4, <2>5, <2>6, OneConn, Zenon
<1>7. CASE BodyComplete(x, y.size) /\ ~AckFits(x)
  <2> DEFINE r == [loop[l] EXCEPT !.at = "write"]
             z == [x EXCEPT !.close = TRUE]
  <2>1. /\ loop' = [loop EXCEPT ![l] = r] /\ UNCHANGED <<connections, handed>>
        /\ conn_maps' = [conn_maps EXCEPT ![l][f] = z]
    BY Zenon, <1>7 DEF ReadMessage, At, Conn, Riemann, SetConn
  <2>2. r.at = "write" /\ Busy(r, f) /\ r \in {Idle, Exited} \cup Callbacks \cup AddTaskCalls
    BY Zenon, <1>w
  <2>3. z.close /\ z.c = c /\ z.pos = x.pos /\ z.got = x.got /\ z.w = x.w /\ z \in TcpConnections
    <3>0. z = [x EXCEPT !.close = TRUE] /\ x \in TcpConnections /\ c = x.c
      BY Zenon, <1>2
    <3> HIDE DEF x, z, c
    <3> QED
      BY Zenon, <3>0, ConnClosed
  <2> HIDE DEF r, z, y, hs, a, m, msgs
  <2>4. Stage(r, f, z, y, hs)
    BY Zenon, <2>2, <2>3 DEF Stage
  <2>5. /\ fds' = [fds EXCEPT ![l][f] = m] /\ connections' = [connections EXCEPT ![l][f] = y]
        /\ handed' = [handed EXCEPT ![c] = hs] /\ acked' = [acked EXCEPT ![c] = a]
        /\ UNCHANGED <<owner, peer, next_loop, new_fds, pending>>
    BY Zenon, <1>3, <1>4, <2>1
  <2> HIDE DEF x
  <2>6. Exact(z, y, msgs, hs)
    BY Zenon, <1>3, <2>3 DEF Cut, Exact
  <2>7. Cut(z, y, peer[c].msgs, hs, a)
    BY Zenon, <1>3, <1>5, <2>3, <2>6 DEF Cut
  <2> HIDE DEF f, c
  <2> QED
    BY <1>1, <1>2, <1>3, <1>5, <2>1, <2>2, <2>3, <2>4, <2>5, <2>7, OneConn, Zenon
<1>8. CASE BodyComplete(x, y.size) /\ AckFits(x)
  <2> DEFINE i == HeaderAt(msgs, x.pos - HeaderLen)
             z == [AddOkResponse(x) EXCEPT !.pos = @ + y.size]
             u == [reading_header |-> TRUE, size |-> y.size]
             h == Append(hs, i)
             r == [at |-> "push", w |-> next_thread, fd |-> f, wr |-> loop[l].wr,
                   task |-> <<c, Len(h)>>, then |-> AfterMessage(y.size)]
  <2>1. /\ conn_maps' = [conn_maps EXCEPT ![l][f] = z] /\ connections' = [connections EXCEPT ![l][f] = u]
        /\ handed' = [handed EXCEPT ![c] = Append(@, i)]
        /\ loop' = [loop EXCEPT ![l] = [at |-> "push", w |-> next_thread, fd |-> @.fd, wr |-> @.wr,
                      task |-> <<c, Len(handed'[c])>>, then |-> AfterMessage(y.size)]]
    BY <1>8, Zenon DEF ReadMessage, Conn, Riemann, SetConn, SetRiemann
  <2>2. handed' = [handed EXCEPT ![c] = h] /\ handed'[c] = h
    BY Zenon, <1>2, <2>1 DEF Frames, PoolTypes
  <2>3. loop' = [loop EXCEPT ![l] = r]
    BY Zenon, <2>1, <2>2
  <2>4. Roomy(x, y)
    BY Zenon, <1>0, <1>1, <1>3 DEF Stage
  <2>5. /\ i = HeaderAt(msgs, x.pos - HeaderLen) /\ z = [AddOkResponse(x) EXCEPT !.pos = @ + y.size]
        /\ u = [reading_header |-> TRUE, size |-> y.size] /\ h = Append(hs, i) /\ u.reading_header
    BY Zenon
  <2>6. /\ r.at = "push" /\ r.w = next_thread /\ r.fd = f /\ r.wr = loop[l].wr
        /\ r.task = <<c, Len(h)>> /\ r.then = AfterMessage(y.size)
        /\ r = [at |-> r.at, w |-> r.w, fd |-> r.fd, wr |-> r.wr, task |-> r.task, then |-> r.then]
    BY Zenon
  <2> HIDE DEF i, z, u, h, r, x, y, hs, a, m, msgs, c
  <2>7. /\ z \in TcpConnections /\ z.c = x.c /\ u \in RiemannTcpConnections
        /\ i \in Nat /\ h \in Seq(Nat) /\ Cut(z, u, msgs, h, a)
        /\ AfterMessage(y.size) = "write" => AfterEmpty(z, u, h)
    <3>1. Cut(x, y, msgs, hs, a)
      BY Zenon, <1>3
    <3>2. x \in TcpConnections /\ y \in RiemannTcpConnections /\ msgs \in Seq(Nat) /\ hs \in Seq(Nat) /\ a \in Nat
      BY Zenon, <1>2
    <3>0. x = [c |-> x.c, pos |-> x.pos, got |-> x.got, w |-> x.w, close |-> x.close]
      BY Zenon, <1>2, ConnFields
    <3>3. z = [c |-> x.c, pos |-> x.pos + y.size, got |-> x.got, w |-> x.w + AckLen, close |-> x.close]
      BY Zenon, <2>5, <3>0 DEF AddOkResponse, QueueWrite
    <3>4. /\ i = HeaderAt(msgs, x.pos - HeaderLen) /\ h = Append(hs, i)
          /\ u = [reading_header |-> TRUE, size |-> y.size]
      BY Zenon, <2>5
    <3> QED
      <4>1. MessageRead(x, y, msgs, i, z, u)
        BY <1>0, <1>8, <3>3, <3>4, Zenon DEF MessageRead
      <4> QED
        BY <2>4, <3>1, <3>2, <3>4, <4>1, MessageCut
  <2>8. r \in {Idle, Exited} \cup Callbacks \cup AddTaskCalls /\ Busy(r, f)
    <3>1. r.wr \in BOOLEAN /\ r.fd \in Fds
      BY Zenon, <1>1, <2>6 DEF Callbacks
    <3>2. r.task \in TaskIds
      BY <1>2, <2>6, <2>7 DEF TaskIds
    <3>3. r.then \in {"parse", "write"}
      BY Zenon, <2>6 DEF AfterMessage
    <3>4. r \in AddTaskCalls
      BY <2>6, <3>1, <3>2, <3>3, Zenon DEF AddTaskCalls
    <3> QED
      BY Zenon, <2>6, <3>4 DEF Busy
  <2>9. Stage(r, f, z, u, h)
    BY Zenon, <2>5, <2>6, <2>7, <2>8 DEF Stage
  <2>10. a <= AckLen * Sent(h)
    <3>1. Sent(hs) \in Nat /\ Sent(h) \in Nat /\ Sent(hs) <= Sent(h)
      BY Zenon, <1>2, <2>5, <2>7, SentFacts
    <3>2. AckLen \in Nat
      BY Zenon, Buffers
    <3>3. \A p, q, n \in Nat : p <= q => n * p <= n * q
      OBVIOUS
    <3>4. AckLen * Sent(hs) <= AckLen * Sent(h) /\ AckLen * Sent(hs) \in Nat /\ AckLen * Sent(h) \in Nat
      BY <3>1, <3>2, <3>3
    <3> QED
      BY <1>2, <1>3, <3>4
  <2>11. /\ fds' = [fds EXCEPT ![l][f] = m] /\ acked' = [acked EXCEPT ![c] = a]
         /\ UNCHANGED <<owner, peer, next_loop, new_fds, pending>>
    BY Zenon, <1>3, <1>4
  <2>12. z.c = c /\ Cut(z, u, peer[c].msgs, h, a)
    BY Zenon, <1>5, <2>7 DEF c
  <2> HIDE DEF f
  <2> QED
    BY <1>1, <1>2, <1>5, <2>1, <2>2, <2>3, <2>7, <2>8, <2>9, <2>10, <2>11, <2>12, OneConn, ZenonT(40)
<1> QED
  BY Zenon, <1>6, <1>7, <1>8

\* add_task's other steps leave the connection as it is, and go on with what
\* follows the message.
LEMMA FramesAdd ==
  ASSUME Places, Frames, NEW l \in Loops, next_thread \in Workers,
         PushTask(l) \/ AdvanceRead(l) \/ AdvanceStore(l)
  PROVE  Frames'
<1> DEFINE f == loop[l].fd
           x == conn_maps[l][f]
           y == connections[l][f]
           c == x.c
           hs == handed[x.c]
           a == acked[x.c]
           m == fds[l][f]
<1>0. loop[l].at \in {"push", "advance", "store"}
  BY Zenon DEF PushTask, AdvanceRead, AdvanceStore
<1>1. f \in DOMAIN fds[l] /\ Busy(loop[l], f) /\ loop[l] \in AddTaskCalls
  BY Zenon, <1>0, Here
<1>2. /\ x \in TcpConnections /\ y \in RiemannTcpConnections
      /\ hs \in Seq(Nat) /\ a \in Nat /\ m \in {"read", "readwrite"}
  <2>1. WatchedAt(l, f)
    BY Zenon, <1>1, Watched
  <2> QED
    BY Zenon, <2>1 DEF WatchedAt
<1>3. /\ fds = [fds EXCEPT ![l][f] = m] /\ connections = [connections EXCEPT ![l][f] = y]
      /\ conn_maps = [conn_maps EXCEPT ![l][f] = x]
      /\ handed = [handed EXCEPT ![c] = hs] /\ acked = [acked EXCEPT ![c] = a]
      /\ Cut(x, y, peer[c].msgs, hs, a) /\ Stage(loop[l], f, x, y, hs) /\ a <= AckLen * Sent(hs)
  <2>1. SameAt(l, f, x, y)
    BY Zenon, <1>1, Same
  <2> QED
    BY Zenon, <2>1 DEF SameAt
<1>4. UNCHANGED <<owner, peer, next_loop, new_fds, pending, fds, conn_maps, connections, handed, acked>>
  BY Zenon DEF PushTask, AdvanceRead, AdvanceStore, pool_vars
<1>5. y.reading_header /\ (loop[l].then = "write" => AfterEmpty(x, y, hs))
  <2> HIDE DEF x, y, hs, f
  <2> QED
    BY Zenon, <1>0, <1>1, <1>3 DEF Stage
<1>6. PICK r : /\ loop' = [loop EXCEPT ![l] = r] /\ Busy(r, f)
               /\ r \in {Idle, Exited} \cup Callbacks \cup AddTaskCalls
               /\ r.at \in {"push", "advance", "store"} => r.then = loop[l].then
               /\ r.at \in {"parse", "write"} => r.at = loop[l].then
               /\ r.at \in {"push", "advance", "store", "parse", "write"}
  <2>1. CASE PushTask(l)
    <3> DEFINE r == [loop[l] EXCEPT !.at = "advance"]
    <3>1. loop' = [loop EXCEPT ![l] = r]
      BY Zenon, <2>1 DEF PushTask, At
    <3>2. r \in AddTaskCalls /\ r.at = "advance" /\ r.fd = f /\ r.then = loop[l].then
      BY Zenon, <1>1 DEF AddTaskCalls
    <3> HIDE DEF r
    <3> QED
      BY Zenon, <3>1, <3>2 DEF Busy
  <2>2. CASE AdvanceRead(l)
    <3> DEFINE r == [loop[l] EXCEPT !.at = "store", !.w = next_thread]
    <3>1. loop' = [loop EXCEPT ![l] = r]
      BY Zenon, <2>2 DEF AdvanceRead
    <3>2. r \in AddTaskCalls /\ r.at = "store" /\ r.fd = f /\ r.then = loop[l].then
      BY Zenon, <1>1 DEF AddTaskCalls
    <3> HIDE DEF r
    <3> QED
      BY Zenon, <3>1, <3>2 DEF Busy
  <2>3. CASE AdvanceStore(l)
    <3> DEFINE r == [at |-> loop[l].then, fd |-> f, wr |-> loop[l].wr]
    <3>1. loop' = [loop EXCEPT ![l] = r]
      BY Zenon, <2>3 DEF AdvanceStore
    <3>2. r.at \in {"parse", "write"} /\ r.at = loop[l].then /\ r \in Callbacks /\ r.fd = f
      BY Zenon, <1>1 DEF AddTaskCalls, Callbacks
    <3> HIDE DEF r
    <3> QED
      BY Zenon, <3>1, <3>2 DEF Busy
  <2> QED
    BY Zenon, <2>1, <2>2, <2>3
<1> HIDE DEF y, hs, a, m
<1>7. Stage(r, f, x, y, hs)
  <2> HIDE DEF x, f
  <2> QED
    BY Zenon, <1>5, <1>6 DEF Stage, Settled, Roomy
<1>8. /\ fds' = [fds EXCEPT ![l][f] = m] /\ connections' = [connections EXCEPT ![l][f] = y]
      /\ conn_maps' = [conn_maps EXCEPT ![l][f] = x]
      /\ handed' = [handed EXCEPT ![c] = hs] /\ acked' = [acked EXCEPT ![c] = a]
      /\ UNCHANGED <<owner, peer, next_loop, new_fds, pending>>
  BY Zenon, <1>3, <1>4
<1>9. c = conn_maps[l][f].c /\ x.c = c
  BY Zenon
<1> HIDE DEF f, x, c
<1> QED
  BY <1>1, <1>2, <1>3, <1>6, <1>7, <1>8, <1>9, OneConn, Zenon

\* A connection that is closed leaves the maps.
LEMMA FramesDrop ==
  ASSUME Places, Frames, NEW l \in Loops, NEW f \in DOMAIN fds[l], Busy(loop[l], f),
         NEW c, c = conn_maps[l][f].c, NEW a \in Nat, a <= AckLen * Sent(handed[c]),
         loop' = [loop EXCEPT ![l] = Idle],
         fds' = [fds EXCEPT ![l] = Drop(fds[l], f)],
         conn_maps' = [conn_maps EXCEPT ![l] = Drop(conn_maps[l], f)],
         connections' = [connections EXCEPT ![l] = Drop(connections[l], f)],
         owner' = [owner EXCEPT ![f] = NoConn], acked' = [acked EXCEPT ![c] = a],
         UNCHANGED <<peer, next_loop, new_fds, pending, handed>>
  PROVE  Frames'
<1>1. /\ f \in DOMAIN conn_maps[l] /\ f \in DOMAIN connections[l] /\ f \in Fds /\ c \in Conns
      /\ peer[c].at \in {"open", "gone"} /\ c = owner[f]
      /\ \A k \in Loops : \A g \in DOMAIN fds[k] : k # l \/ g # f => conn_maps[k][g].c # c
      /\ \A k \in Loops : \A g \in Waiting(k) : owner[g] # c
  <2>1. WatchedAt(l, f)
    BY Zenon, Watched
  <2> QED
    BY Zenon, <2>1 DEF WatchedAt
<1>2. /\ fds \in [Loops -> Maps({"read", "readwrite"})] /\ conn_maps \in [Loops -> Maps(TcpConnections)]
      /\ connections \in [Loops -> Maps(RiemannTcpConnections)]
      /\ handed \in [Conns -> Seq(Nat)] /\ acked \in [Conns -> Nat] /\ DOMAIN loop = Loops
      /\ \A k \in Loops : DOMAIN fds[k] = DOMAIN conn_maps[k] /\ DOMAIN fds[k] = DOMAIN connections[k]
      /\ \A k \in Loops : \A g \in DOMAIN conn_maps[k] : conn_maps[k][g].c \in Conns
  <2>1. \A k \in Loops : DOMAIN fds[k] = DOMAIN conn_maps[k] /\ DOMAIN fds[k] = DOMAIN connections[k]
    BY Zenon DEF Places, InOnePlace
  <2>2. \A k \in Loops : \A g \in DOMAIN conn_maps[k] : conn_maps[k][g].c \in Conns
    BY Zenon, <2>1, Watched DEF WatchedAt
  <2> QED
    BY Zenon, <2>1, <2>2 DEF Frames, MapFns, PoolTypes
<1>3. fds' \in [Loops -> Maps({"read", "readwrite"})]
  <2> DEFINE V == {"read", "readwrite"}
             M == fds
             N == fds'
  <2>1. M \in [Loops -> Maps(V)] /\ Without(M, N, l, f)
    BY Zenon, <1>2 DEF Without
  <2> HIDE DEF V, M, N
  <2>2. N \in [Loops -> Maps(V)]
    BY Zenon, <2>1, MapDrop
  <2> QED
    BY Zenon, <2>2 DEF V, M, N
<1>4. /\ conn_maps' \in [Loops -> Maps(TcpConnections)] /\ DOMAIN conn_maps'[l] = DOMAIN conn_maps[l] \ {f}
      /\ \A k \in Loops : k # l => conn_maps'[k] = conn_maps[k]
      /\ \A g \in DOMAIN conn_maps[l] \ {f} : conn_maps'[l][g] = conn_maps[l][g]
  <2> DEFINE V == TcpConnections
             M == conn_maps
             N == conn_maps'
  <2>1. M \in [Loops -> Maps(V)] /\ Without(M, N, l, f)
    BY Zenon, <1>2 DEF Without
  <2> HIDE DEF V, M, N
  <2>2. /\ N \in [Loops -> Maps(V)] /\ DOMAIN N[l] = DOMAIN M[l] \ {f}
        /\ \A k \in Loops : k # l => N[k] = M[k]
        /\ \A g \in DOMAIN M[l] \ {f} : N[l][g] = M[l][g]
    BY <2>1, MapDrop
  <2> QED
    BY Zenon, <2>2 DEF V, M, N
<1>5. /\ connections' \in [Loops -> Maps(RiemannTcpConnections)]
      /\ \A k \in Loops : k # l => connections'[k] = connections[k]
      /\ \A g \in DOMAIN connections[l] \ {f} : connections'[l][g] = connections[l][g]
  <2> DEFINE V == RiemannTcpConnections
             M == connections
             N == connections'
  <2>1. M \in [Loops -> Maps(V)] /\ Without(M, N, l, f)
    BY Zenon, <1>2 DEF Without
  <2> HIDE DEF V, M, N
  <2>2. /\ N \in [Loops -> Maps(V)] /\ DOMAIN N[l] = DOMAIN M[l] \ {f}
        /\ \A k \in Loops : k # l => N[k] = M[k]
        /\ \A g \in DOMAIN M[l] \ {f} : N[l][g] = M[l][g]
    BY <2>1, MapDrop
  <2> QED
    BY Zenon, <2>2 DEF V, M, N
<1>6. /\ acked' \in [Conns -> Nat] /\ acked'[c] = a /\ \A d \in Conns : d # c => acked'[d] = acked[d]
      /\ owner' \in [Fds -> Conns \cup {NoConn}] /\ owner'[f] = NoConn
      /\ \A g \in Fds : g # f => owner'[g] = owner[g]
  BY Zenon, <1>1, <1>2 DEF Frames, PoolTypes
<1>7. /\ loop' \in [Loops -> {Idle, Exited} \cup Callbacks \cup AddTaskCalls] /\ loop'[l] = Idle
      /\ \A k \in Loops : k # l => loop'[k] = loop[k]
  BY Zenon, <1>2 DEF Frames, PoolTypes
<1>8. PoolTypes' /\ MapFns'
  BY Zenon, <1>3, <1>4, <1>5, <1>6, <1>7 DEF Frames, PoolTypes, MapFns
<1>9. Clients'
  <2>1. \A k \in Loops : Waiting(k)' = Waiting(k)
    BY Zenon DEF Waiting
  <2>2. \A k \in Loops : \A g \in Waiting(k) : g \in Fds /\ owner[g] \in Conns /\ g # f
    BY <1>1, Sizes DEF Frames, PoolTypes, Waiting, Places, InOnePlace, NoConn
  <2>3. \A d \in Conns : peer'[d].at \in {"new", "never"} => handed'[d] = <<>> /\ acked'[d] = 0
    BY Zenon, <1>1, <1>6 DEF Frames, Clients
  <2>4. \A k \in Loops : \A g \in Waiting(k) : handed'[owner'[g]] = <<>> /\ acked'[owner'[g]] = 0
    BY <1>1, <1>6, <2>2 DEF Frames, Clients
  <2>5. \A g, h \in Fds : owner'[g] = owner'[h] /\ owner'[g] # NoConn => g = h
    BY Zenon, <1>6 DEF Frames, Clients
  <2>6. \A g \in Fds : owner'[g] # NoConn => peer'[owner'[g]].at \in {"open", "gone"}
    BY Zenon, <1>6 DEF Frames, Clients
  <2> QED
    BY Zenon, <2>1, <2>3, <2>4, <2>5, <2>6 DEF Clients
<1>10. ASSUME NEW k \in Loops, NEW g \in DOMAIN conn_maps'[k]
       PROVE  LET x == conn_maps'[k][g]
                  y == connections'[k][g]
              IN  /\ Cut(x, y, peer'[x.c].msgs, handed'[x.c], acked'[x.c])
                  /\ Stage(loop'[k], g, x, y, handed'[x.c])
  <2> DEFINE x == conn_maps[k][g]
             y == connections[k][g]
  <2>1. /\ k # l \/ g # f
        /\ g \in DOMAIN conn_maps[k] /\ g \in DOMAIN connections[k] /\ g \in DOMAIN fds[k]
        /\ conn_maps'[k][g] = x /\ connections'[k][g] = y
    <3>1. CASE k = l
      BY Zenon, <1>2, <1>4, <1>5, <3>1
    <3>2. CASE k # l
      BY Zenon, <1>2, <1>4, <1>5, <3>2
    <3> QED
      BY Zenon, <3>1, <3>2
  <2>2. x.c \in Conns /\ x.c # c
    BY Zenon, <1>1, <1>2, <2>1
  <2>3. acked'[x.c] = acked[x.c]
    BY Zenon, <1>6, <2>2
  <2>4. /\ Cut(x, y, peer[x.c].msgs, handed[x.c], acked[x.c])
        /\ Stage(loop[k], g, x, y, handed[x.c])
    BY Zenon, <2>1 DEF Frames, Cuts
  <2> HIDE DEF x, y
  <2>5. Stage(loop'[k], g, x, y, handed[x.c])
    <3>1. CASE k # l
      BY Zenon, <1>7, <2>4, <3>1
    <3>2. CASE k = l /\ g # f
      <4>1. ~Busy(loop[l], g) /\ ~Busy(Idle, g)
        BY Zenon, <3>2 DEF Busy, Idle
      <4> QED
        BY Zenon, <1>7, <2>4, <3>2, <4>1 DEF Stage
    <3> QED
      BY Zenon, <2>1, <3>1, <3>2
  <2> QED
    BY Zenon, <2>1, <2>3, <2>4, <2>5
<1>11. Cuts'
  BY <1>10, Zenon DEF Cuts
<1>12. History'
  <2>1. ASSUME NEW d \in Conns
        PROVE  /\ AllFit(peer'[d].msgs) => \A k \in DOMAIN handed'[d] : handed'[d][k] = k
               /\ acked'[d] <= AckLen * Sent(handed'[d])
    BY Zenon, <1>6 DEF Frames, History
  <2> QED
    BY <2>1, Zenon DEF History
<1> QED
  BY Zenon, <1>8, <1>9, <1>11, <1>12 DEF Frames

\* What the end of a callback leaves of a connection, and the acks its client has.
LEMMA Ends ==
  ASSUME NEW x \in TcpConnections, NEW y \in RiemannTcpConnections, NEW msgs \in Seq(Nat),
         NEW hs \in Seq(Nat), NEW a \in Nat, Cut(x, y, msgs, hs, a), a <= AckLen * Sent(hs),
         x.close \/ Settled(x, y, hs), NEW may \in BOOLEAN, may => ~x.close, NEW gone,
         NEW z \in IF may THEN WriteToFd(x, gone) ELSE {x}
  PROVE  /\ a + (x.w - z.w) \in Nat /\ a + (x.w - z.w) <= AckLen * Sent(hs)
         /\ ~z.close => /\ z \in TcpConnections /\ z.c = x.c /\ Settled(z, y, hs)
                        /\ Cut(z, y, msgs, hs, a + (x.w - z.w))
<1>1. CASE may
  <2>1. z \in WriteToFd(x, gone) /\ ~x.close
    BY Zenon, <1>1
  <2>2. /\ z \in TcpConnections /\ z.c = x.c /\ a + (x.w - z.w) \in Nat
        /\ Cut(z, y, msgs, hs, a + (x.w - z.w)) /\ z.pos = x.pos /\ z.got = x.got
        /\ a + (x.w - z.w) <= AckLen * Len(hs)
    BY <2>1, WriteCut
  <2>3. \A k \in 1..Len(hs) : hs[k] = k
    BY Zenon, <2>1 DEF Cut, Exact
  <2>4. Sent(hs) = Len(hs)
    BY Zenon, <2>3, SentFacts
  <2>5. Settled(z, y, hs)
    BY Zenon, <2>1, <2>2 DEF Settled, AfterEmpty, ReadableBytes
  <2> QED
    BY Zenon, <2>2, <2>4, <2>5
<1>2. CASE ~may
  <2>1. z = x
    BY Zenon, <1>2
  <2>2. x.w \in Int
    BY ConnFields, Buffers
  <2>3. a + (x.w - z.w) = a
    BY <2>1, <2>2
  <2> QED
    BY Zenon, <2>1, <2>3
<1> QED
  BY Zenon, <1>1, <1>2

\* The end of a callback.
LEMMA FramesFinish ==
  ASSUME Places, Frames, NEW l \in Loops, Finish(l)
  PROVE  Frames'
<1> DEFINE f == loop[l].fd
           x == conn_maps[l][f]
           y == connections[l][f]
           c == x.c
           hs == handed[x.c]
           a == acked[x.c]
           msgs == peer[x.c].msgs
           gone == peer[x.c].at = "gone"
           may == MayWrite(l, x)
<1>0. loop[l].at = "write"
  BY Zenon DEF Finish
<1>1. f \in DOMAIN fds[l] /\ Busy(loop[l], f) /\ loop[l] \in Callbacks
  BY Zenon, <1>0, Here
<1>2. /\ x \in TcpConnections /\ y \in RiemannTcpConnections /\ msgs \in Seq(Nat) /\ c \in Conns
      /\ hs \in Seq(Nat) /\ a \in Nat
  <2>1. WatchedAt(l, f)
    BY Zenon, <1>1, Watched
  <2> QED
    BY Zenon, <2>1 DEF WatchedAt
<1>3. /\ connections = [connections EXCEPT ![l][f] = y] /\ handed = [handed EXCEPT ![c] = hs]
      /\ Cut(x, y, msgs, hs, a) /\ Stage(loop[l], f, x, y, hs) /\ a <= AckLen * Sent(hs)
  <2>1. SameAt(l, f, x, y)
    BY Zenon, <1>1, Same
  <2> QED
    BY Zenon, <2>1 DEF SameAt
<1>4. UNCHANGED <<peer, next_loop, new_fds, pending, handed>> /\ loop' = [loop EXCEPT ![l] = Idle]
  BY Zenon DEF Finish
<1>5. PICK z \in IF may THEN WriteToFd(x, gone) ELSE {x} :
        /\ acked' = [acked EXCEPT ![c] = @ + (x.w - z.w)]
        /\ IF z.close THEN Closed(l, f)
           ELSE /\ SetConn(l, z)
                /\ fds' = [fds EXCEPT ![l][f] = ConnToMode(z)]
                /\ UNCHANGED <<connections, gauges, owner>>
  BY Zenon DEF Finish, Conn
<1> DEFINE b == a + (x.w - z.w)
           m == ConnToMode(z)
<1>6. acked' = [acked EXCEPT ![c] = b]
  BY Zenon, <1>5
<1>7. may \in BOOLEAN /\ (may => ~x.close)
  BY Zenon DEF MayWrite
<1>8. x.close \/ Settled(x, y, hs)
  <2> HIDE DEF x, y, hs, f
  <2> QED
    BY Zenon, <1>0, <1>1, <1>3 DEF Stage
<1>9. /\ b \in Nat /\ b <= AckLen * Sent(hs)
      /\ ~z.close => /\ z \in TcpConnections /\ z.c = x.c /\ Settled(z, y, hs)
                     /\ Cut(z, y, msgs, hs, b)
  <2> HIDE DEF x, y, hs, a, msgs, gone, may
  <2> QED
    BY Zenon, <1>2, <1>3, <1>5, <1>7, <1>8, Ends
<1>10. c = conn_maps[l][f].c /\ hs = handed[c] /\ msgs = peer[c].msgs /\ c = x.c
  BY Zenon
<1>11. CASE z.close
  <2>1. /\ fds' = [fds EXCEPT ![l] = Drop(fds[l], f)]
        /\ conn_maps' = [conn_maps EXCEPT ![l] = Drop(conn_maps[l], f)]
        /\ connections' = [connections EXCEPT ![l] = Drop(connections[l], f)]
        /\ owner' = [owner EXCEPT ![f] = NoConn]
    BY Zenon, <1>5, <1>11 DEF Closed
  <2> HIDE DEF f, x, y, c, hs, a, msgs, gone, may, b
  <2>2. b <= AckLen * Sent(handed[c])
    BY Zenon, <1>9, <1>10
  <2> QED
    BY <1>1, <1>4, <1>6, <1>9, <1>10, <2>1, <2>2, FramesDrop, Zenon
<1>12. CASE ~z.close
  <2>1. /\ conn_maps' = [conn_maps EXCEPT ![l][f] = z] /\ fds' = [fds EXCEPT ![l][f] = m]
        /\ UNCHANGED <<connections, owner>>
    BY Zenon, <1>5, <1>12 DEF SetConn
  <2>2. m \in {"read", "readwrite"}
    BY Zenon DEF ConnToMode
  <2> HIDE DEF f, x, y, c, hs, a, msgs, gone, may, b, m
  <2>3. Stage(Idle, f, z, y, hs)
    BY Zenon, <1>9, <1>12 DEF Stage, Busy, Idle
  <2>4. /\ connections' = [connections EXCEPT ![l][f] = y] /\ handed' = [handed EXCEPT ![c] = hs]
        /\ UNCHANGED <<owner, peer, next_loop, new_fds, pending>>
    BY Zenon, <1>3, <1>4, <2>1
  <2>5. z \in TcpConnections /\ z.c = c /\ Cut(z, y, peer[c].msgs, hs, b)
    BY Zenon, <1>9, <1>10, <1>12
  <2>6. Idle \in {Idle, Exited} \cup Callbacks \cup AddTaskCalls
    BY Zenon
  <2> QED
    BY <1>1, <1>2, <1>4, <1>6, <1>9, <1>10, <2>1, <2>2, <2>3, <2>4, <2>5, <2>6, OneConn, Zenon
<1> QED
  BY Zenon, <1>11, <1>12

\* A new connection.
LEMMA NewCut ==
  ASSUME NEW c \in Conns, NEW x, x = [c |-> c, pos |-> 0, got |-> 0, w |-> 0, close |-> FALSE],
         NEW msgs \in Seq(Nat)
  PROVE  /\ x \in TcpConnections /\ x.c = c /\ RiemannTcpConnection \in RiemannTcpConnections
         /\ Cut(x, RiemannTcpConnection, msgs, <<>>, 0)
         /\ ~x.close /\ Settled(x, RiemannTcpConnection, <<>>)
<1>1. BuffSize \in Nat /\ HeaderLen \in Nat \ {0} /\ AckLen \in Nat
  BY Zenon, Buffers
<1>2. x \in TcpConnections
  <2>1. 0 \in Nat /\ 0 \in 0..BuffSize /\ 0 - 0 \in 0..BuffSize
    BY <1>1
  <2> QED
    BY Zenon, <2>1, ConnMade
<1>3. x.c = c /\ x.pos = 0 /\ x.got = 0 /\ x.w = 0 /\ ~x.close
  BY Zenon
<1>4. /\ RiemannTcpConnection \in RiemannTcpConnections
      /\ RiemannTcpConnection.reading_header /\ RiemannTcpConnection.size = 0
  BY Zenon DEF RiemannTcpConnection, RiemannTcpConnections
<1>5. Len(<<>>) = 0 /\ Len(msgs) \in Nat
  OBVIOUS
<1>6. Start(msgs, 1) = 0 /\ Total(msgs) \in Nat
  <2>1. Len(msgs) + 1 \in 1..(Len(msgs) + 1)
    BY <1>5
  <2>2. Start(msgs, 1) = 0 /\ Start(msgs, Len(msgs) + 1) \in Nat
    BY Zenon, <2>1, StartIs
  <2> QED
    BY Zenon, <2>2 DEF Total
<1>7. Exact(x, RiemannTcpConnection, msgs, <<>>)
  BY <1>3, <1>4, <1>5, <1>6 DEF Exact
<1>8. Cut(x, RiemannTcpConnection, msgs, <<>>, 0)
  <2>1. 0 + 0 = AckLen * 0 /\ 0 <= Total(msgs)
    BY <1>1, <1>6
  <2> QED
    BY Zenon, <1>3, <1>4, <1>5, <1>7, <2>1 DEF Cut
<1>9. Settled(x, RiemannTcpConnection, <<>>)
  <2>1. ReadableBytes(x) < HeaderLen
    BY <1>1, <1>3 DEF ReadableBytes
  <2> QED
    BY Zenon, <1>4, <2>1 DEF Settled
<1> QED
  BY Zenon, <1>2, <1>3, <1>4, <1>8, <1>9

\* The invariant for a step that neither touches the maps nor what is known of
\* the clients.
LEMMA FramesStay ==
  ASSUME Frames, UNCHANGED <<owner, peer, next_loop, new_fds, fds, conn_maps, connections, acked, handed>>,
         pending' \in [Loops -> BOOLEAN],
         loop' \in [Loops -> {Idle, Exited} \cup Callbacks \cup AddTaskCalls],
         \A k \in Loops : loop'[k] = loop[k] \/ (loop[k] = Idle /\ loop'[k] = Exited)
  PROVE  Frames'
<1>1. PoolTypes' /\ MapFns' /\ History'
  BY Zenon DEF Frames, PoolTypes, MapFns, History
<1>2. Clients'
  BY DEF Frames, Clients, Waiting
<1>3. \A k \in Loops : \A f, x, y, hs : Stage(loop[k], f, x, y, hs) => Stage(loop'[k], f, x, y, hs)
  BY DEF Stage, Busy, Idle, Exited
<1>4. Cuts'
  BY Zenon, <1>3 DEF Frames, Cuts
<1> QED
  BY Zenon, <1>1, <1>2, <1>4 DEF Frames

\* The async callback: new connections, of which nothing was read yet.
LEMMA FramesAsync ==
  ASSUME Places, Frames, NEW l \in Loops, AsyncCallback(l)
  PROVE  Frames'
<1>0. /\ loop[l] = Idle /\ UNCHANGED <<owner, peer, next_loop, acked, handed>>
      /\ pending' = [pending EXCEPT ![l] = FALSE] \/ UNCHANGED pending
  BY Zenon DEF AsyncCallback
<1>1. pending' \in [Loops -> BOOLEAN] /\ loop \in [Loops -> {Idle, Exited} \cup Callbacks \cup AddTaskCalls]
  BY Zenon, <1>0 DEF Frames, PoolTypes
<1>2. CASE /\ loop' = [loop EXCEPT ![l] = Exited] \/ UNCHANGED loop
           /\ UNCHANGED <<new_fds, fds, conn_maps, connections>>
  BY Zenon, <1>0, <1>1, <1>2, FramesStay
<1> DEFINE new == Waiting(l)
<1>3. CASE /\ new_fds' = [new_fds EXCEPT ![l] = <<>>]
           /\ fds' = [fds EXCEPT ![l] = Insert(fds[l], [fd \in new |-> "read"])]
           /\ conn_maps' = [conn_maps EXCEPT ![l] = Insert(conn_maps[l], [fd \in new |-> TcpConnection(fd)])]
           /\ connections' = [connections EXCEPT ![l] =
                                Insert(connections[l], [fd \in new |-> RiemannTcpConnection])]
           /\ UNCHANGED loop
  <2>1. /\ new \in SUBSET Fds
        /\ \A k \in Loops : DOMAIN fds[k] = DOMAIN conn_maps[k] /\ DOMAIN fds[k] = DOMAIN connections[k]
        /\ \A g \in new : g \in Fds /\ g \notin DOMAIN fds[l] /\ owner[g] \in Conns
                          /\ handed[owner[g]] = <<>> /\ acked[owner[g]] = 0
                          /\ peer[owner[g]].msgs \in Seq(Nat)
    <3>1. new \in SUBSET Fds
      BY DEF Frames, PoolTypes, Waiting
    <3>2. \A g \in new : g \in Fds /\ g \notin DOMAIN fds[l] /\ owner[g] \in Conns
      BY Zenon, <3>1 DEF Frames, PoolTypes, Places, InOnePlace
    <3>3. \A g \in new : handed[owner[g]] = <<>> /\ acked[owner[g]] = 0
      BY Zenon DEF Frames, Clients
    <3>4. \A g \in new : peer[owner[g]].msgs \in Seq(Nat)
      BY Zenon, <3>2 DEF Frames, PoolTypes
    <3> QED
      BY Zenon, <3>1, <3>2, <3>3, <3>4 DEF Places, InOnePlace
  <2> HIDE DEF new
  <2>2. ASSUME NEW g \in new
        PROVE  /\ TcpConnection(g) \in TcpConnections /\ TcpConnection(g).c = owner[g]
               /\ RiemannTcpConnection \in RiemannTcpConnections
               /\ Cut(TcpConnection(g), RiemannTcpConnection, peer[owner[g]].msgs, <<>>, 0)
               /\ ~TcpConnection(g).close /\ Settled(TcpConnection(g), RiemannTcpConnection, <<>>)
    <3> DEFINE x == TcpConnection(g)
    <3>1. x = [c |-> owner[g], pos |-> 0, got |-> 0, w |-> 0, close |-> FALSE]
      BY Zenon DEF TcpConnection
    <3> HIDE DEF x
    <3>2. /\ x \in TcpConnections /\ x.c = owner[g]
          /\ RiemannTcpConnection \in RiemannTcpConnections
          /\ Cut(x, RiemannTcpConnection, peer[owner[g]].msgs, <<>>, 0)
          /\ ~x.close /\ Settled(x, RiemannTcpConnection, <<>>)
      BY Zenon, <2>1, <3>1, NewCut
    <3> QED
      BY Zenon, <3>2 DEF x
  <2>3. RiemannTcpConnection \in RiemannTcpConnections
    BY Zenon DEF RiemannTcpConnection, RiemannTcpConnections
  <2>4. fds' \in [Loops -> Maps({"read", "readwrite"})]
    <3> DEFINE V == {"read", "readwrite"}
               M == fds
               N == fds'
               n == [fd \in new |-> "read"]
    <3>1. M \in [Loops -> Maps(V)] /\ With(M, N, l, n) /\ n \in [new -> V]
      BY Zenon, <1>3 DEF With, Frames, MapFns
    <3> HIDE DEF V, M, N, n
    <3>2. Added(V, M, N, l, new, n)
      BY Zenon, <2>1, <3>1, MapInsert
    <3> QED
      BY Zenon, <3>2 DEF V, M, N, Added
  <2>5. /\ conn_maps' \in [Loops -> Maps(TcpConnections)]
        /\ DOMAIN conn_maps'[l] = DOMAIN conn_maps[l] \cup new
        /\ \A k \in Loops : k # l => conn_maps'[k] = conn_maps[k]
        /\ \A g \in DOMAIN conn_maps[l] : conn_maps'[l][g] = conn_maps[l][g]
        /\ \A g \in new : conn_maps'[l][g] = TcpConnection(g)
    <3> DEFINE V == TcpConnections
               M == conn_maps
               N == conn_maps'
               n == [fd \in new |-> TcpConnection(fd)]
    <3>1. M \in [Loops -> Maps(V)] /\ With(M, N, l, n)
      BY Zenon, <1>3 DEF With, Frames, MapFns
    <3>2. n \in [new -> V] /\ \A g \in new : n[g] = TcpConnection(g) /\ g \notin DOMAIN M[l]
      BY Zenon, <2>1, <2>2
    <3> HIDE DEF V, M, N, n
    <3>a. new \in SUBSET Fds /\ M \in [Loops -> Maps(V)] /\ With(M, N, l, n) /\ n \in [new -> V]
      BY Zenon, <2>1, <3>1, <3>2
    <3>3. /\ N \in [Loops -> Maps(V)] /\ DOMAIN N[l] = DOMAIN M[l] \cup new
          /\ \A k \in Loops : k # l => N[k] = M[k]
          /\ \A g \in DOMAIN M[l] : N[l][g] = M[l][g]
          /\ \A g \in new \ DOMAIN M[l] : N[l][g] = n[g]
      <4>1. Added(V, M, N, l, new, n)
        BY Zenon, <3>a, MapInsert
      <4> QED
        BY Zenon, <4>1 DEF Added
    <3>4. \A g \in new : N[l][g] = TcpConnection(g)
      BY Zenon, <3>2, <3>3
    <3> QED
      BY Zenon, <3>3, <3>4 DEF V, M, N
  <2>6. /\ connections' \in [Loops -> Maps(RiemannTcpConnections)]
        /\ \A k \in Loops : k # l => connections'[k] = connections[k]
        /\ \A g \in DOMAIN connections[l] : connections'[l][g] = connections[l][g]
        /\ \A g \in new : connections'[l][g] = RiemannTcpConnection
    <3> DEFINE V == RiemannTcpConnections
               M == connections
               N == connections'
               n == [fd \in new |-> RiemannTcpConnection]
    <3>1. M \in [Loops -> Maps(V)] /\ With(M, N, l, n)
      BY Zenon, <1>3 DEF With, Frames, MapFns
    <3>2. n \in [new -> V] /\ \A g \in new : n[g] = RiemannTcpConnection /\ g \notin DOMAIN M[l]
      BY Zenon, <2>1, <2>3
    <3> HIDE DEF V, M, N, n
    <3>a. new \in SUBSET Fds /\ M \in [Loops -> Maps(V)] /\ With(M, N, l, n) /\ n \in [new -> V]
      BY Zenon, <2>1, <3>1, <3>2
    <3>3. /\ N \in [Loops -> Maps(V)] /\ DOMAIN N[l] = DOMAIN M[l] \cup new
          /\ \A k \in Loops : k # l => N[k] = M[k]
          /\ \A g \in DOMAIN M[l] : N[l][g] = M[l][g]
          /\ \A g \in new \ DOMAIN M[l] : N[l][g] = n[g]
      <4>1. Added(V, M, N, l, new, n)
        BY Zenon, <3>a, MapInsert
      <4> QED
        BY Zenon, <4>1 DEF Added
    <3>4. \A g \in new : N[l][g] = RiemannTcpConnection
      BY Zenon, <3>2, <3>3
    <3> QED
      BY Zenon, <3>3, <3>4 DEF V, M, N
  <2>7. new_fds' \in [Loops -> Seq(Fds)] /\ Waiting(l)' = {}
        /\ \A k \in Loops : k # l => Waiting(k)' = Waiting(k)
    <3>1. <<>> \in Seq(Fds) /\ DOMAIN <<>> = {}
      OBVIOUS
    <3>2. new_fds' \in [Loops -> Seq(Fds)] /\ new_fds'[l] = <<>> /\ \A k \in Loops : k # l => new_fds'[k] = new_fds[k]
      BY <1>3, <3>1, Zenon DEF Frames, PoolTypes
    <3> QED
      BY Zenon, <3>1, <3>2 DEF Waiting
  <2>8. PoolTypes' /\ MapFns'
    BY Zenon, <1>0, <1>1, <1>3, <2>4, <2>5, <2>6, <2>7 DEF Frames, PoolTypes, MapFns
  <2>9. Clients'
    BY Zenon, <1>0, <2>7 DEF Frames, Clients
  <2>10. ASSUME NEW k \in Loops, NEW g \in DOMAIN conn_maps'[k]
         PROVE  LET x == conn_maps'[k][g]
                    y == connections'[k][g]
                IN  /\ Cut(x, y, peer'[x.c].msgs, handed'[x.c], acked'[x.c])
                    /\ Stage(loop'[k], g, x, y, handed'[x.c])
    <3>1. CASE g \in DOMAIN conn_maps[k]
      <4>1. conn_maps'[k][g] = conn_maps[k][g] /\ connections'[k][g] = connections[k][g]
        BY Zenon, <2>1, <2>5, <2>6, <3>1
      <4> QED
        BY Zenon, <1>0, <1>3, <3>1, <4>1 DEF Frames, Cuts
    <3>2. CASE k = l /\ g \in new
      <4> DEFINE x == TcpConnection(g)
                 y == RiemannTcpConnection
      <4>1. conn_maps'[k][g] = x /\ connections'[k][g] = y /\ loop'[k] = Idle
        BY Zenon, <1>0, <1>3, <2>5, <2>6, <3>2
      <4>2. /\ Cut(x, y, peer[owner[g]].msgs, <<>>, 0) /\ x.c = owner[g]
            /\ ~x.close /\ Settled(x, y, <<>>)
        BY Zenon, <2>2, <3>2
      <4>3. handed'[x.c] = <<>> /\ acked'[x.c] = 0 /\ peer' = peer
        BY Zenon, <1>0, <2>1, <3>2, <4>2
      <4> HIDE DEF x, y
      <4>4. Stage(Idle, g, x, y, <<>>)
        BY Zenon, <4>2 DEF Stage, Busy, Idle
      <4> QED
        BY Zenon, <4>1, <4>2, <4>3, <4>4
    <3> QED
      BY Zenon, <2>5, <3>1, <3>2
  <2>11. Cuts'
    BY <2>10, Zenon DEF Cuts
  <2>12. History'
    BY Zenon, <1>0 DEF Frames, History
  <2> QED
    BY Zenon, <2>8, <2>9, <2>11, <2>12 DEF Frames
<1> QED
  BY Zenon, <1>2, <1>3 DEF AsyncCallback, Waiting

\* What is known of the connections does not depend on whether a client has left.
LEMMA CutsStay ==
  ASSUME Frames, UNCHANGED <<loop, handed, acked, fds, conn_maps, connections>>,
         \A l \in Loops : \A f \in DOMAIN conn_maps[l] : conn_maps[l][f].c \in Conns,
         \A d \in Conns : peer'[d].msgs = peer[d].msgs
  PROVE  Cuts' /\ History' /\ MapFns'
<1>1. Cuts'
  BY Zenon DEF Frames, Cuts
<1>2. History'
  BY Zenon DEF Frames, History
<1> QED
  BY Zenon, <1>1, <1>2 DEF Frames, MapFns

\* add_client: a client that has sent nothing gets a descriptor of its own.
LEMMA FramesAccept ==
  ASSUME Places, Frames, NEW c \in Conns, NEW f \in Fds, Accept(c, f)
  PROVE  Frames'
<1>1. PICK n \in Loops : n = (next_loop + 1) % NL
  <2>1. next_loop \in Int /\ NL \in Nat \ {0}
    BY Sizes DEF Frames, PoolTypes, Loops
  <2> QED
    BY <2>1 DEF Loops
<1>2. /\ owner[f] = NoConn /\ owner' = [owner EXCEPT ![f] = c] /\ next_loop' = n /\ peer[c].at = "new"
      /\ new_fds' = [new_fds EXCEPT ![n] = Append(new_fds[n], f)]
      /\ pending' = [pending EXCEPT ![n] = TRUE] /\ peer' = [peer EXCEPT ![c].at = "open"]
      /\ UNCHANGED <<loop, fds, conn_maps, connections, handed, acked>>
  BY Zenon, <1>1 DEF Accept, Lowest
<1>3. /\ owner \in [Fds -> Conns \cup {NoConn}] /\ new_fds \in [Loops -> Seq(Fds)]
      /\ pending \in [Loops -> BOOLEAN]
      /\ peer \in [Conns -> [at : {"new", "open", "gone", "never"}, msgs : Seq(Nat)]]
  BY Zenon DEF Frames, PoolTypes
<1>4. /\ peer' \in [Conns -> [at : {"new", "open", "gone", "never"}, msgs : Seq(Nat)]]
      /\ \A d \in Conns : peer'[d].msgs = peer[d].msgs
      /\ peer'[c].at = "open" /\ \A d \in Conns : d # c => peer'[d] = peer[d]
  BY Zenon, <1>2, <1>3
<1>5. /\ owner' \in [Fds -> Conns \cup {NoConn}] /\ owner'[f] = c
      /\ \A g \in Fds : g # f => owner'[g] = owner[g]
  BY Zenon, <1>2, <1>3
<1>6. PoolTypes'
  <2>1. new_fds' \in [Loops -> Seq(Fds)] /\ pending' \in [Loops -> BOOLEAN]
    BY <1>2, <1>3
  <2> QED
    BY Zenon, <1>1, <1>2, <1>4, <1>5, <2>1 DEF Frames, PoolTypes
<1>7. \A k \in Loops : Waiting(k)' \subseteq Waiting(k) \cup {f}
  <2> DEFINE s == new_fds[n]
             t == Append(s, f)
  <2>1. new_fds'[n] = t /\ s \in Seq(Fds)
    BY Zenon, <1>2, <1>3
  <2>2. \A i \in DOMAIN t : t[i] = f \/ (i \in DOMAIN s /\ t[i] = s[i])
    BY <2>1
  <2> HIDE DEF t
  <2>3. Waiting(n)' \subseteq Waiting(n) \cup {f}
    BY Zenon, <2>1, <2>2 DEF Waiting
  <2>4. \A k \in Loops : k # n => Waiting(k)' = Waiting(k)
    BY Zenon, <1>2, <1>3 DEF Waiting
  <2> QED
    BY Zenon, <2>3, <2>4
<1>8. \A k \in Loops : Waiting(k) \subseteq Fds /\ f \notin Waiting(k)
  BY <1>2, <1>3 DEF Waiting, Places, InOnePlace
<1>9. \A g \in Fds : owner[g] # c
  <2>1. c # NoConn
    BY Zenon, Sizes DEF NoConn
  <2> QED
    BY Zenon, <1>2, <2>1 DEF Frames, Clients
<1>10. handed[c] = <<>> /\ acked[c] = 0
  BY Zenon, <1>2 DEF Frames, Clients
<1>11. Clients'
  <2>1. \A g, h \in Fds : owner'[g] = owner'[h] /\ owner'[g] # NoConn => g = h
    BY Zenon, <1>5, <1>9 DEF Frames, Clients
  <2>2. \A g \in Fds : owner'[g] # NoConn => peer'[owner'[g]].at \in {"open", "gone"}
    <3>1. \A g \in Fds : g # f => owner[g] \in Conns \cup {NoConn} /\ owner[g] # c
      BY Zenon, <1>3, <1>9
    <3>2. \A g \in Fds : g # f /\ owner[g] # NoConn => peer'[owner[g]] = peer[owner[g]]
      BY Zenon, <1>4, <3>1
    <3> QED
      BY <1>4, <1>5, <3>2 DEF Frames, Clients
  <2>3. \A d \in Conns : peer'[d].at \in {"new", "never"} => handed'[d] = <<>> /\ acked'[d] = 0
    BY Zenon, <1>2, <1>4 DEF Frames, Clients
  <2>4. \A k \in Loops : \A g \in Waiting(k)' : handed'[owner'[g]] = <<>> /\ acked'[owner'[g]] = 0
    BY <1>2, <1>5, <1>7, <1>8, <1>10 DEF Frames, Clients
  <2> QED
    BY Zenon, <2>1, <2>2, <2>3, <2>4 DEF Clients
<1>12. \A l \in Loops : \A g \in DOMAIN conn_maps[l] : conn_maps[l][g].c \in Conns
  BY Zenon, Watched DEF WatchedAt, Places, InOnePlace
<1>13. Cuts' /\ History' /\ MapFns'
  BY Zenon, <1>2, <1>4, <1>12, CutsStay
<1> QED
  BY Zenon, <1>6, <1>11, <1>13 DEF Frames

\* A client leaves.
LEMMA FramesPeer ==
  ASSUME Places, Frames, NEW c \in Conns, PeerClose(c)
  PROVE  Frames'
<1>1. /\ peer[c].at = "open" /\ peer' = [peer EXCEPT ![c].at = "gone"]
      /\ UNCHANGED <<loop, fds, conn_maps, connections, handed, acked, owner, next_loop, new_fds, pending>>
  BY Zenon DEF PeerClose
<1>2. peer \in [Conns -> [at : {"new", "open", "gone", "never"}, msgs : Seq(Nat)]]
  BY Zenon DEF Frames, PoolTypes
<1>3. /\ peer' \in [Conns -> [at : {"new", "open", "gone", "never"}, msgs : Seq(Nat)]]
      /\ \A d \in Conns : peer'[d].msgs = peer[d].msgs
      /\ peer'[c].at = "gone" /\ \A d \in Conns : d # c => peer'[d] = peer[d]
  BY Zenon, <1>1, <1>2
<1>4. PoolTypes'
  BY Zenon, <1>1, <1>3 DEF Frames, PoolTypes
<1>5. Clients'
  <2>1. \A g \in Fds : owner[g] \in Conns \cup {NoConn}
    BY Zenon DEF Frames, PoolTypes
  <2>2. \A g \in Fds : owner'[g] # NoConn => peer'[owner'[g]].at \in {"open", "gone"}
    BY Zenon, <1>1, <1>3, <2>1 DEF Frames, Clients
  <2>3. \A d \in Conns : peer'[d].at \in {"new", "never"} => handed'[d] = <<>> /\ acked'[d] = 0
    BY Zenon, <1>1, <1>3 DEF Frames, Clients
  <2>4. \A k \in Loops : Waiting(k)' = Waiting(k)
    BY Zenon, <1>1 DEF Waiting
  <2> QED
    BY Zenon, <1>1, <2>2, <2>3, <2>4 DEF Frames, Clients
<1>6. \A l \in Loops : \A g \in DOMAIN conn_maps[l] : conn_maps[l][g].c \in Conns
  BY Zenon, Watched DEF WatchedAt, Places, InOnePlace
<1>7. Cuts' /\ History' /\ MapFns'
  BY Zenon, <1>1, <1>3, <1>6, CutsStay
<1> QED
  BY Zenon, <1>4, <1>5, <1>7 DEF Frames

\* At first there are no connections.
LEMMA FramesInit == Init => Frames
<1> SUFFICES ASSUME Init PROVE Frames
  BY Zenon
<1>1. PICK s \in Scenarios :
        peer = [c \in Conns |-> IF c \in DOMAIN s.msgs THEN [at |-> "new", msgs |-> s.msgs[c]]
                                ELSE [at |-> "never", msgs |-> <<>>]]
  BY Zenon DEF Init
<1>2. \A c \in DOMAIN s.msgs : s.msgs[c] \in Seq(Nat)
  BY Zenon, Activity
<1>3. peer \in [Conns -> [at : {"new", "open", "gone", "never"}, msgs : Seq(Nat)]]
  <2>1. ASSUME NEW c \in Conns
        PROVE  (IF c \in DOMAIN s.msgs THEN [at |-> "new", msgs |-> s.msgs[c]]
                ELSE [at |-> "never", msgs |-> <<>>]) \in [at : {"new", "open", "gone", "never"}, msgs : Seq(Nat)]
    <3>1. <<>> \in Seq(Nat)
      OBVIOUS
    <3> QED
      BY Zenon, <1>2, <3>1
  <2> QED
    BY Zenon, <1>1, <2>1
<1>4. /\ owner = [fd \in Fds |-> NoConn] /\ next_loop = 0 /\ new_fds = [l \in Loops |-> <<>>]
      /\ pending = [l \in Loops |-> FALSE] /\ fds = [l \in Loops |-> <<>>]
      /\ conn_maps = [l \in Loops |-> <<>>] /\ connections = [l \in Loops |-> <<>>]
      /\ loop = [l \in Loops |-> Idle] /\ handed = [c \in Conns |-> <<>>] /\ acked = [c \in Conns |-> 0]
  BY Zenon DEF Init
<1>5. <<>> \in Seq(Fds) /\ <<>> \in Seq(Nat) /\ DOMAIN <<>> = {}
  OBVIOUS
<1>6. 0 \in Loops
  BY Sizes DEF Loops
<1>7. PoolTypes
  BY Zenon, <1>3, <1>4, <1>5, <1>6 DEF PoolTypes
<1>8. \A V : <<>> \in Maps(V)
  <2> SUFFICES ASSUME NEW V PROVE <<>> \in Maps(V)
    BY Zenon
  <2>1. DOMAIN <<>> \subseteq Fds
    BY Zenon, <1>5
  <2>2. <<>> \in [DOMAIN <<>> -> V]
    BY <1>5
  <2> QED
    BY Zenon, <2>1, <2>2, MapIs
<1>9. MapFns
  BY <1>4, <1>8, Zenon DEF MapFns
<1>10. Clients
  <2>1. \A l \in Loops : Waiting(l) = {}
    BY Zenon, <1>4, <1>5 DEF Waiting
  <2> QED
    BY Zenon, <1>4, <2>1 DEF Clients
<1>11. Cuts
  <2>1. \A l \in Loops : DOMAIN conn_maps[l] = {}
    BY Zenon, <1>4, <1>5
  <2> QED
    BY Zenon, <2>1 DEF Cuts
<1>12. History
  <2>1. Sent(<<>>) \in Nat /\ AckLen \in Nat
    BY Zenon, <1>5, SentFacts, Buffers
  <2>2. \A m, n \in Nat : 0 <= m * n
    OBVIOUS
  <2>3. 0 <= AckLen * Sent(<<>>)
    BY Zenon, <2>1, <2>2
  <2> QED
    BY Zenon, <1>4, <1>5, <2>3 DEF History
<1> QED
  BY Zenon, <1>7, <1>9, <1>10, <1>11, <1>12 DEF Frames

-----------------------------------------------------------------------------
(* The executor's queues.                                                   *)

Tasks == [stop : {FALSE}, id : TaskIds] \cup {StopTask}

\* The queues, the workers and next_thread_ keep their types, and no queue is
\* longer than k_max_queue_size.
LEMMA ExecStep ==
  ASSUME Places, Frames, ExecTypes, [Next]_vars
  PROVE  ExecTypes'
<1>0. /\ next_thread \in Workers /\ ran \subseteq TaskIds
      /\ worker \in [Workers -> {Idle, Exited} \cup [at : {"run"}, task : TaskIds]]
      /\ tasks \in [Workers -> Seq(Tasks)]
      /\ \A w \in Workers : Len(tasks[w]) <= QueueCap
  BY Zenon DEF ExecTypes, Tasks
<1>1. CASE UNCHANGED <<next_thread, tasks, worker, ran>>
  BY Zenon, <1>1 DEF ExecTypes
<1>2. ASSUME NEW l \in Loops, PushTask(l) PROVE ExecTypes'
  <2> DEFINE t == [stop |-> FALSE, id |-> loop[l].task]
             w == loop[l].w
  <2>1. loop[l] \in AddTaskCalls
    <3>1. loop[l].at = "push"
      BY Zenon, <1>2 DEF PushTask
    <3> QED
      BY Zenon, <3>1, Here
  <2>2. w \in Workers /\ t \in Tasks
    BY Zenon, <2>1 DEF AddTaskCalls, Tasks
  <2>3. /\ tasks' = [tasks EXCEPT ![w] = Append(tasks[w], t)] /\ Len(tasks[w]) < QueueCap
        /\ UNCHANGED <<next_thread, worker, ran>>
    BY Zenon, <1>2 DEF PushTask, HasRoom
  <2> HIDE DEF t, w
  <2>4. Append(tasks[w], t) \in Seq(Tasks) /\ Len(Append(tasks[w], t)) <= QueueCap
    BY <1>0, <2>2, <2>3, Buffers
  <2>5. tasks' \in [Workers -> Seq(Tasks)] /\ \A v \in Workers : Len(tasks'[v]) <= QueueCap
    BY Zenon, <1>0, <2>2, <2>3, <2>4
  <2> QED
    BY Zenon, <1>0, <2>3, <2>5 DEF ExecTypes, Tasks
<1>3. ASSUME NEW l \in Loops, AdvanceStore(l) PROVE ExecTypes'
  <2>1. loop[l] \in AddTaskCalls
    <3>1. loop[l].at = "store"
      BY Zenon, <1>3 DEF AdvanceStore
    <3> QED
      BY Zenon, <3>1, Here
  <2>2. loop[l].w \in 0..(NW - 1) /\ NW \in Nat \ {0}
    BY Zenon, <2>1, Sizes DEF AddTaskCalls, Workers
  <2>3. (loop[l].w + 1) % NW \in Workers
    BY <2>2 DEF Workers
  <2>4. next_thread' = (loop[l].w + 1) % NW /\ UNCHANGED <<tasks, worker, ran>>
    BY Zenon, <1>3 DEF AdvanceStore
  <2> QED
    BY Zenon, <2>3, <2>4 DEF ExecTypes
<1>4. ASSUME NEW w \in Workers, Pop(w) PROVE ExecTypes'
  <2> DEFINE t == Head(tasks[w])
             r == IF t.stop THEN Exited ELSE [at |-> "run", task |-> t.id]
  <2>1. /\ tasks[w] # <<>> /\ tasks' = [tasks EXCEPT ![w] = Tail(tasks[w])]
        /\ worker' = [worker EXCEPT ![w] = r] /\ UNCHANGED <<next_thread, ran>>
    BY Zenon, <1>4 DEF Pop
  <2>2. /\ tasks[w] \in Seq(Tasks) /\ t \in Tasks /\ Tail(tasks[w]) \in Seq(Tasks)
        /\ Len(Tail(tasks[w])) <= QueueCap
    BY <1>0, <2>1, Buffers
  <2>3. r \in {Idle, Exited} \cup [at : {"run"}, task : TaskIds]
    <3> HIDE DEF t
    <3>1. CASE t = StopTask
      <4>1. t.stop
        BY Zenon, <3>1 DEF StopTask
      <4> QED
        BY Zenon, <4>1
    <3>2. CASE t \in [stop : {FALSE}, id : TaskIds]
      <4>1. t.id \in TaskIds
        BY Zenon, <3>2
      <4> QED
        BY Zenon, <4>1
    <3> QED
      BY Zenon, <2>2, <3>1, <3>2 DEF Tasks
  <2> HIDE DEF r
  <2>4. tasks' \in [Workers -> Seq(Tasks)] /\ \A v \in Workers : Len(tasks'[v]) <= QueueCap
    BY Zenon, <1>0, <2>1, <2>2
  <2>5. worker' \in [Workers -> {Idle, Exited} \cup [at : {"run"}, task : TaskIds]]
    BY Zenon, <1>0, <2>1, <2>3
  <2> QED
    BY Zenon, <1>0, <2>1, <2>4, <2>5 DEF ExecTypes, Tasks
<1>5. ASSUME NEW w \in Workers, TaskDone(w) PROVE ExecTypes'
  <2>1. /\ worker[w].at = "run" /\ ran' = ran \cup {worker[w].task}
        /\ worker' = [worker EXCEPT ![w] = Idle] /\ UNCHANGED <<next_thread, tasks>>
    BY Zenon, <1>5 DEF TaskDone
  <2>2. worker[w] \in {Idle, Exited} \cup [at : {"run"}, task : TaskIds]
    BY Zenon, <1>0
  <2>3. worker[w].task \in TaskIds
    BY <2>1, <2>2 DEF Idle, Exited
  <2>4. ran' \subseteq TaskIds /\ worker' \in [Workers -> {Idle, Exited} \cup [at : {"run"}, task : TaskIds]]
    BY Zenon, <1>0, <2>1, <2>3
  <2> QED
    BY Zenon, <1>0, <2>1, <2>4 DEF ExecTypes, Tasks
<1>6. CASE StopExecutor
  <2> DEFINE w == main.i \div 2
  <2>1. /\ UNCHANGED <<next_thread, worker, ran>>
        /\ \/ UNCHANGED tasks
           \/ tasks' = [tasks EXCEPT ![w] = <<>>]
           \/ HasRoom(w) /\ tasks' = [tasks EXCEPT ![w] = Append(tasks[w], StopTask)]
    BY Zenon, <1>6 DEF StopExecutor
  <2> HIDE DEF w
  <2>2. tasks' \in [Workers -> Seq(Tasks)] /\ \A v \in Workers : Len(tasks'[v]) <= QueueCap
    <3>1. CASE UNCHANGED tasks
      BY Zenon, <1>0, <3>1
    <3>2. CASE tasks' = [tasks EXCEPT ![w] = <<>>]
      <4>1. <<>> \in Seq(Tasks) /\ Len(<<>>) <= QueueCap
        BY Buffers
      <4> QED
        BY Zenon, <1>0, <3>2, <4>1
    <3>3. CASE HasRoom(w) /\ tasks' = [tasks EXCEPT ![w] = Append(tasks[w], StopTask)]
      <4>1. w \in Workers => /\ Append(tasks[w], StopTask) \in Seq(Tasks)
                             /\ Len(Append(tasks[w], StopTask)) <= QueueCap
        <5>1. StopTask \in Tasks
          BY Zenon DEF Tasks
        <5> QED
          BY <1>0, <3>3, <5>1, Buffers DEF HasRoom
      <4> QED
        BY Zenon, <1>0, <3>3, <4>1
    <3> QED
      BY Zenon, <2>1, <3>1, <3>2, <3>3
  <2> QED
    BY Zenon, <1>0, <2>1, <2>2 DEF ExecTypes, Tasks
<1>7. ASSUME Next,
             \A l \in Loops : ~PushTask(l) /\ ~AdvanceStore(l),
             \A w \in Workers : ~Pop(w) /\ ~TaskDone(w), ~StopExecutor
      PROVE  UNCHANGED <<next_thread, tasks, worker, ran>>
  <2>1. CASE MainStep \/ MainLoopEnds
    BY Zenon, <1>7, <2>1 DEF MainStep, MainLoopEnds, AssignCore, ReloadRules, StopScheduler,
         JoinExecutor, StopStreams, StopTcp, JoinTcp, StopUdp, ResetCore, exec_vars
  <2>2. ASSUME NEW c \in Conns, PeerClose(c) \/ \E fd \in Fds : Accept(c, fd)
        PROVE  UNCHANGED <<next_thread, tasks, worker, ran>>
    BY Zenon, <2>2 DEF PeerClose, Accept, exec_vars
  <2>3. ASSUME NEW l \in Loops, LoopStep(l) \/ \E fd \in Fds, rd, wr \in BOOLEAN : SocketCallback(l, fd, rd, wr)
        PROVE  UNCHANGED <<next_thread, tasks, worker, ran>>
    BY Zenon, <1>7, <2>3 DEF LoopStep, SocketCallback, AsyncCallback, ReadHeader, ReadMessage, AdvanceRead, Finish,
                      exec_vars
  <2>4. CASE (\E o \in Others : StartPush(o) \/ EndPush(o)) \/ Detach \/ ExpirerEnds
    BY Zenon, <2>4 DEF StartPush, EndPush, Detach, ExpirerEnds, SetOther, exec_vars
  <2> QED
    BY Zenon, <1>7, <2>1, <2>2, <2>3, <2>4 DEF Next
<1>8. CASE UNCHANGED vars
  BY Zenon, <1>1, <1>8 DEF vars, exec_vars
<1> QED
  BY Zenon, <1>1, <1>2, <1>3, <1>4, <1>5, <1>6, <1>7, <1>8

\* Every step keeps the invariant.
LEMMA FramesStep ==
  ASSUME Places, Frames, ExecTypes, [Next]_vars
  PROVE  Frames'
<1>0. next_thread \in Workers
  BY Zenon DEF ExecTypes
<1>a. ASSUME UNCHANGED <<owner, peer, next_loop, new_fds, fds, conn_maps, connections, acked, handed, loop>>,
             pending' \in [Loops -> BOOLEAN]
      PROVE  Frames'
  <2>1. loop' \in [Loops -> {Idle, Exited} \cup Callbacks \cup AddTaskCalls]
    BY Zenon, <1>a DEF Frames, PoolTypes
  <2> QED
    BY Zenon, <1>a, <2>1, FramesStay
<1>b. pending \in [Loops -> BOOLEAN]
  BY Zenon DEF Frames, PoolTypes
<1>1. CASE Next
  <2>1. CASE MainStep \/ MainLoopEnds
    <3>1. UNCHANGED <<owner, peer, next_loop, new_fds, fds, conn_maps, connections, acked, handed, loop>>
      BY Zenon, <2>1 DEF MainStep, MainLoopEnds, AssignCore, ReloadRules, StopScheduler, StopExecutor,
                  JoinExecutor, StopStreams, StopTcp, JoinTcp, StopUdp, ResetCore, pool_vars
    <3>2. pending' = pending \/ pending' = [l \in Loops |-> TRUE]
      BY Zenon, <2>1 DEF MainStep, MainLoopEnds, AssignCore, ReloadRules, StopScheduler, StopExecutor,
                  JoinExecutor, StopStreams, StopTcp, JoinTcp, StopUdp, ResetCore, pool_vars
    <3> QED
      BY Zenon, <1>a, <1>b, <3>1, <3>2
  <2>2. ASSUME NEW c \in Conns, PeerClose(c) PROVE Frames'
    BY Zenon, <2>2, FramesPeer
  <2>3. ASSUME NEW c \in Conns, NEW fd \in Fds, Accept(c, fd) PROVE Frames'
    BY Zenon, <2>3, FramesAccept
  <2>4. ASSUME NEW l \in Loops, LoopStep(l) PROVE Frames'
    BY Zenon, <1>0, <2>4, FramesAsync, FramesHeader, FramesMessage, FramesAdd, FramesFinish DEF LoopStep
  <2>5. ASSUME NEW l \in Loops, NEW fd \in Fds, NEW rd \in BOOLEAN, NEW wr \in BOOLEAN,
               SocketCallback(l, fd, rd, wr)
        PROVE  Frames'
    BY Zenon, <2>5, FramesSocket
  <2>6. CASE (\E w \in Workers : Pop(w) \/ TaskDone(w))
             \/ (\E o \in Others : StartPush(o) \/ EndPush(o)) \/ Detach \/ ExpirerEnds
    <3>1. UNCHANGED <<owner, peer, next_loop, new_fds, fds, conn_maps, connections, acked, handed, loop, pending>>
      BY Zenon, <2>6 DEF Pop, TaskDone, StartPush, EndPush, Detach, ExpirerEnds, SetOther, pool_vars
    <3> QED
      BY Zenon, <1>a, <1>b, <3>1
  <2> QED
    BY Zenon, <1>1, <2>1, <2>2, <2>3, <2>4, <2>5, <2>6 DEF Next
<1>2. CASE UNCHANGED vars
  BY Zenon, <1>2, <1>a, <1>b DEF vars, pool_vars
<1> QED
  BY Zenon, <1>1, <1>2

\* At first the queues are empty.
LEMMA ExecInit == Init => ExecTypes
<1> SUFFICES ASSUME Init PROVE ExecTypes
  BY Zenon
<1>1. /\ next_thread = 0 /\ tasks = [w \in Workers |-> <<>>] /\ worker = [w \in Workers |-> Idle] /\ ran = {}
  BY Zenon DEF Init
<1>2. 0 \in Workers
  BY Sizes DEF Workers
<1>3. <<>> \in Seq(Tasks) /\ Len(<<>>) <= QueueCap
  BY Buffers
<1>4. tasks \in [Workers -> Seq(Tasks)] /\ \A w \in Workers : Len(tasks[w]) <= QueueCap
  BY Zenon, <1>1, <1>3
<1> QED
  BY Zenon, <1>1, <1>2, <1>4 DEF ExecTypes, Tasks

\* What the invariant says of a client's bytes.
LEMMA FramesMean == Places /\ Frames => Framing
<1> SUFFICES ASSUME Places, Frames PROVE Framing
  BY Zenon
<1>1. ASSUME NEW l \in Loops, NEW f \in DOMAIN conn_maps[l]
      PROVE  /\ f \in DOMAIN fds[l] /\ conn_maps[l][f] \in TcpConnections /\ conn_maps[l][f].c \in Conns
             /\ connections[l][f] \in RiemannTcpConnections
             /\ peer[conn_maps[l][f].c].msgs \in Seq(Nat) /\ handed[conn_maps[l][f].c] \in Seq(Nat)
             /\ Cut(conn_maps[l][f], connections[l][f], peer[conn_maps[l][f].c].msgs,
                    handed[conn_maps[l][f].c], acked[conn_maps[l][f].c])
             /\ Stage(loop[l], f, conn_maps[l][f], connections[l][f], handed[conn_maps[l][f].c])
  <2>1. f \in DOMAIN fds[l]
    BY Zenon DEF Places, InOnePlace
  <2>2. /\ conn_maps[l][f] \in TcpConnections /\ conn_maps[l][f].c \in Conns
        /\ connections[l][f] \in RiemannTcpConnections
        /\ peer[conn_maps[l][f].c].msgs \in Seq(Nat) /\ handed[conn_maps[l][f].c] \in Seq(Nat)
    BY Zenon, <2>1, Watched DEF WatchedAt
  <2>3. /\ Cut(conn_maps[l][f], connections[l][f], peer[conn_maps[l][f].c].msgs,
               handed[conn_maps[l][f].c], acked[conn_maps[l][f].c])
        /\ Stage(loop[l], f, conn_maps[l][f], connections[l][f], handed[conn_maps[l][f].c])
    BY Zenon DEF Frames, Cuts
  <2> QED
    BY Zenon, <2>1, <2>2, <2>3
<1>2. ASSUME NEW l \in Loops, NEW f \in DOMAIN conn_maps[l], ~InCallback(l, f)
      PROVE  Settled(conn_maps[l][f], connections[l][f], handed[conn_maps[l][f].c])
  <2>1. ~Busy(loop[l], f)
    BY <1>2 DEF InCallback, Busy, Idle, Exited
  <2> QED
    BY Zenon, <1>1, <2>1 DEF Stage
<1>3. HandedInOrder
  <2>1. ASSUME NEW c \in Conns, OnlyFitting(c) PROVE \A k \in DOMAIN handed[c] : handed[c][k] = k
    BY Zenon, <2>1 DEF Frames, History, OnlyFitting, AllFit
  <2>2. ASSUME NEW c \in Conns, OnlyFitting(c), NEW l \in Loops, NEW f \in DOMAIN conn_maps[l],
               conn_maps[l][f].c = c
        PROVE  Len(handed[c]) <= Whole(peer[c].msgs, conn_maps[l][f].got)
    <3> DEFINE x == conn_maps[l][f]
               y == connections[l][f]
               msgs == peer[c].msgs
               hs == handed[c]
               n == Len(hs)
    <3>1. /\ x \in TcpConnections /\ y \in RiemannTcpConnections /\ msgs \in Seq(Nat) /\ hs \in Seq(Nat)
          /\ Cut(x, y, msgs, hs, acked[c]) /\ AllFit(msgs)
      BY Zenon, <1>1, <2>2 DEF OnlyFitting, AllFit
    <3> HIDE DEF x, y, msgs, hs
    <3>2. x.pos \in Nat /\ x.got \in Nat /\ x.got - x.pos \in 0..BuffSize /\ HeaderLen \in Nat
      BY Zenon, <3>1, ConnFields, Buffers
    <3>3. n <= Len(msgs) /\ (x.pos = Start(msgs, n + 1) \/ x.pos = Start(msgs, n + 1) + HeaderLen)
      BY Zenon, <3>1 DEF Cut, Exact, RiemannTcpConnections
    <3>4. n \in 0..Len(msgs) /\ n + 1 \in 1..(Len(msgs) + 1)
      BY <3>1, <3>3
    <3>5. Start(msgs, n + 1) \in Nat
      BY Zenon, <3>1, <3>4, StartIs
    <3>6. Start(msgs, n + 1) <= x.got
      <4>1. x.pos <= x.got
        BY <3>2, Buffers
      <4> QED
        BY <3>2, <3>3, <3>5, <4>1
    <3>7. n <= Whole(msgs, x.got)
      BY Zenon, <3>1, <3>2, <3>4, <3>6, WholeIs
    <3> QED
      BY Zenon, <3>7 DEF x, msgs, hs
  <2> QED
    BY Zenon, <2>1, <2>2 DEF HandedInOrder
<1>4. RoomToRead
  <2> SUFFICES ASSUME NEW l \in Loops, NEW f \in DOMAIN conn_maps[l], ~InCallback(l, f)
               PROVE  Reserve(conn_maps[l][f]) > 0
    BY Zenon DEF RoomToRead
  <2> DEFINE x == conn_maps[l][f]
             y == connections[l][f]
             hs == handed[x.c]
  <2>1. /\ x \in TcpConnections /\ y \in RiemannTcpConnections /\ Settled(x, y, hs)
        /\ ~y.reading_header => Fits(y.size)
    BY Zenon, <1>1, <1>2 DEF Cut
  <2> HIDE DEF x, y, hs
  <2>2. x.got - x.pos \in 0..BuffSize /\ BuffSize \in Nat /\ HeaderLen \in Nat \ {0} /\ HeaderLen <= BuffSize
    BY Zenon, <2>1, ConnFields, Buffers
  <2>3. y.size \in Nat
    BY Zenon, <2>1 DEF RiemannTcpConnections
  <2>4. x.got - x.pos < BuffSize
    <3>1. CASE y.reading_header
      <4>1. x.got - x.pos < HeaderLen \/ x.got - x.pos <= BuffSize - HeaderLen
        BY Zenon, <2>1, <3>1 DEF Settled, AfterEmpty, ReadableBytes
      <4> QED
        BY <2>2, <4>1
    <3>2. CASE ~y.reading_header
      <4>1. x.got - x.pos < y.size /\ y.size + HeaderLen <= BuffSize
        BY Zenon, <2>1, <3>2 DEF Settled, ReadableBytes, Fits
      <4> QED
        BY <2>2, <2>3, <4>1
    <3> QED
      BY Zenon, <3>1, <3>2
  <2>5. BuffSize - (x.got - x.pos) > 0
    BY <2>2, <2>4
  <2> QED
    BY Zenon, <2>5 DEF Reserve, ReadableBytes, x
<1>5. NothingLeftBehind
  <2> SUFFICES ASSUME NEW l \in Loops, NEW f \in DOMAIN conn_maps[l], ~InCallback(l, f)
               PROVE  LET x == conn_maps[l][f]
                          y == connections[l][f]
                      IN  IF y.reading_header
                          THEN ReadableBytes(x) < HeaderLen \/ (handed[x.c] # <<>> /\ y.size = 0)
                          ELSE ReadableBytes(x) < y.size
    BY Zenon DEF NothingLeftBehind
  <2> QED
    BY Zenon, <1>2 DEF Settled, AfterEmpty
<1>6. AcksHonest
  <2>1. \A c \in Conns : acked[c] <= AckLen * Cardinality({k \in DOMAIN handed[c] : handed[c][k] # 0})
    BY Zenon DEF Frames, History, Sent
  <2>2. ASSUME NEW l \in Loops, NEW f \in DOMAIN conn_maps[l]
        PROVE  acked[conn_maps[l][f].c] + conn_maps[l][f].w = AckLen * Len(handed[conn_maps[l][f].c])
    BY Zenon, <1>1 DEF Cut
  <2> QED
    BY <2>1, <2>2, Zenon DEF AcksHonest
<1> QED
  BY Zenon, <1>3, <1>4, <1>5, <1>6 DEF Framing
=============================================================================
