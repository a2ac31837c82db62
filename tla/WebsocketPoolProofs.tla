------------------------ MODULE WebsocketPoolProofs ------------------------
(***************************************************************************)
(* Proofs about the websocket pool, for any number of loops, descriptors,  *)
(* workers, connections and events: clients get their own frames, the      *)
(* response first, subscribers are registered and the queues bounded.      *)
(*                                                                         *)
(* The invariant has five parts besides the types.  Owner says which loop  *)
(* has a descriptor.  Tagged says that whatever carries a token (a filter, *)
(* copied or not, or a queued event) is older than the token a loop is     *)
(* about to read, and that if its token is the one in fd_ctxes_ then it    *)
(* was made for the connection that is open.  Framed and Greeted carry     *)
(* this over to the queues, the write buffers and the sockets, and         *)
(* Repeated orders the responses to further headers.  Served rests on it.  *)
(***************************************************************************)
EXTENDS WebsocketPool, TLAPS

\* The token t in the hands of loop l is not newer than the counter, and older
\* than it between the two steps of next_token.
Fresh(l, t) == t <= token /\ (loop_pc[l] = "token" => t < token)

\* Something tagged with loop, descriptor and token, made for connection c.
Good(l, fd, t, c, set) ==
  /\ Fresh(l, t)
  /\ (tokens[l][fd] # 0 /\ tokens[l][fd] = t) =>
       peer[fd] = c /\ (set => query_fn[l][fd])

GoodFilter(f) == Good(f.loop, f.fd, f.token, f.for, f.set)

GoodQueued(l, q) == Good(l, q.fd, q.token, q.for, TRUE)

Pending(l) == new_fds_[l] \cup adding[l]

Owner ==
  /\ \A fd \in Fds, l \in Loops : tokens[l][fd] # 0 => peer[fd] # 0
  /\ \A fd \in Fds, l, k \in Loops : tokens[l][fd] # 0 /\ tokens[k][fd] # 0 => l = k
  /\ \A l \in Loops : \A fd \in Pending(l) : peer[fd] # 0 /\ \A k \in Loops : tokens[k][fd] = 0
  /\ \A l, k \in Loops : \A fd \in Pending(l) : fd \in Pending(k) => l = k
  /\ \A l \in Loops : new_fds_[l] \cap adding[l] = {}
  /\ \A fd \in Fds : peer[fd] <= accepted
  /\ \A fd, gd \in Fds : peer[fd] = peer[gd] /\ peer[fd] # 0 => fd = gd

Control ==
  /\ \A l \in Loops : loop_pc[l] = "token" => at_fd[l] \in adding[l]
  /\ \A l \in Loops : loop_pc[l] \notin {"fds", "token"} => adding[l] = {}
  /\ \A w \in Workers : worker_pc[w] = "filter" => e[w] # 0

Tagged ==
  /\ \A l \in Loops, fd \in Fds : Fresh(l, tokens[l][fd])
  /\ \A l \in Loops : \A f \in filters_[l] : GoodFilter(f)
  /\ \A w \in Workers : \A f \in filter_fns[w] \cup todo[w] : GoodFilter(f)
  /\ \A l \in Loops, q \in Queued : \A i \in DOMAIN event_queues_[l] :
       event_queues_[l][i] = q => GoodQueued(l, q)

\* The frame holds an event, not a response.
IsEvent(f) == f.event # 0 /\ ~Again(f)

\* Every frame waiting for a descriptor is meant for the connection open on it.
Framed ==
  /\ \A l \in Loops, fd \in Fds : tokens[l][fd] = 0 => queue[l][fd] = <<>> /\ ~query_fn[l][fd]
  /\ \A fd \in Fds : (\A l \in Loops : tokens[l][fd] = 0) => w_buffer[fd] = <<>>
  /\ \A l \in Loops, fd \in Fds : \A i \in DOMAIN queue[l][fd] :
       queue[l][fd][i].for = peer[fd] /\ IsEvent(queue[l][fd][i])
  /\ \A fd \in Fds : \A i \in DOMAIN w_buffer[fd] : w_buffer[fd][i].for = peer[fd]
  /\ RightPeer

\* The response is the first frame of what a socket and the buffer behind it
\* hold.
ResponseAhead ==
  \A fd \in Fds : \A i \in DOMAIN w_buffer[fd] :
    w_buffer[fd][i].event = 0 <=> (i = 1 /\ sent[peer[fd]] = <<>>)

\* Only a connection with a query has been sent anything.
QueryAnswered ==
  \A l \in Loops, fd \in Fds : tokens[l][fd] # 0 =>
    (query_fn[l][fd] <=> (w_buffer[fd] # <<>> \/ sent[peer[fd]] # <<>>))

\* Nothing was sent to a connection that no loop has yet, or not accepted.
PendingSilent == \A l \in Loops : \A fd \in Pending(l) : sent[peer[fd]] = <<>>
LaterSilent == \A c \in Conns : c > accepted => sent[c] = <<>>

Greeted == ResponseAhead /\ QueryAnswered /\ PendingSilent /\ LaterSilent /\ ResponseFirst

\* The responses to further headers come in order, one for each header: in what
\* a connection was sent, in the buffer behind it, and from the one to the other.
Falling(s) ==
  \A j \in DOMAIN s : Again(s[j]) =>
    \A i \in DOMAIN s : i < j /\ Again(s[i]) => s[j].event < s[i].event
Counted(s, n) == \A i \in DOMAIN s : Again(s[i]) => -s[i].event <= n
Follows(p, w) ==
  \A i \in DOMAIN p, j \in DOMAIN w : Again(p[i]) /\ Again(w[j]) => w[j].event < p[i].event
InLine(p, w, n) == Falling(p) /\ Falling(w) /\ Counted(p, n) /\ Counted(w, n) /\ Follows(p, w)

Repeated ==
  /\ \A c \in Conns : Falling(sent[c]) /\ Counted(sent[c], repeats[c])
  /\ \A fd \in Fds : peer[fd] # 0 => InLine(sent[peer[fd]], w_buffer[fd], repeats[peer[fd]])

\* flush_fd_queue never fills a write buffer beyond its capacity.
Buffers == \A fd \in Fds : Len(w_buffer[fd]) <= BufCap

IInv == TypeOK /\ Owner /\ Control /\ Tagged /\ Framed /\ Greeted /\ Buffers
        /\ Repeated

-----------------------------------------------------------------------------
(* Sequences.                                                               *)

\* What is appended to a sequence is its last element.
LEMMA AppendParts ==
  ASSUME NEW S, NEW s \in Seq(S), NEW x \in S
  PROVE  /\ Append(s, x) # <<>>
         /\ \A i \in DOMAIN Append(s, x) :
              \/ i \in DOMAIN s /\ Append(s, x)[i] = s[i] /\ i < Len(s) + 1
              \/ i = Len(s) + 1 /\ Append(s, x)[i] = x
OBVIOUS

\* The first element of a concatenation is in its first part, unless that is empty.
LEMMA FirstAfter ==
  ASSUME NEW S, NEW s \in Seq(S), NEW j \in Nat, j > 0, NEW i, i = Len(s) + j
  PROVE  i = 1 <=> (j = 1 /\ s = <<>>)
OBVIOUS

\* The elements of a tail are elements of the sequence.
LEMMA TailParts ==
  ASSUME NEW S, NEW s \in Seq(S), s # <<>>
  PROVE  \A i \in DOMAIN Tail(s) : i + 1 \in DOMAIN s /\ Tail(s)[i] = s[i + 1]
OBVIOUS

\* A sequence in two parts.
LEMMA PrefixParts ==
  ASSUME NEW S, NEW s \in Seq(S), NEW n \in 1..Len(s)
  PROVE  /\ SubSeq(s, 1, n) \in Seq(S) /\ Len(SubSeq(s, 1, n)) = n
         /\ \A i \in 1..n : SubSeq(s, 1, n)[i] = s[i]
OBVIOUS
LEMMA SuffixParts ==
  ASSUME NEW S, NEW s \in Seq(S), NEW n \in 1..Len(s)
  PROVE  /\ SubSeq(s, n + 1, Len(s)) \in Seq(S) /\ Len(SubSeq(s, n + 1, Len(s))) = Len(s) - n
         /\ \A i \in 1..Len(SubSeq(s, n + 1, Len(s))) : SubSeq(s, n + 1, Len(s))[i] = s[i + n]
OBVIOUS

\* An element of a concatenation is one of its parts'.
LEMMA ConcatParts ==
  ASSUME NEW p \in Seq(Frame), NEW m \in Seq(Frame)
  PROVE  \A i \in DOMAIN (p \o m) :
           \/ i \in DOMAIN p /\ (p \o m)[i] = p[i]
           \/ \E j \in 1..Len(m) : i = Len(p) + j /\ (p \o m)[i] = m[j]
<1> SUFFICES ASSUME NEW i \in DOMAIN (p \o m)
             PROVE  \/ i \in DOMAIN p /\ (p \o m)[i] = p[i]
                    \/ \E j \in 1..Len(m) : i = Len(p) + j /\ (p \o m)[i] = m[j]
  BY Zenon
<1>1. Len(p) \in Nat /\ Len(m) \in Nat /\ i \in 1..(Len(p) + Len(m))
  OBVIOUS
<1>2. CASE i <= Len(p)
  BY <1>1, <1>2
<1>3. CASE ~(i <= Len(p))
  <2>1. i - Len(p) \in 1..Len(m) /\ i = Len(p) + (i - Len(p))
    BY ONLY <1>1, <1>3
  <2>2. (p \o m)[i] = m[i - Len(p)]
    BY <1>1, <1>3
  <2> QED
    BY Zenon, <2>1, <2>2
<1> QED
  BY Zenon, <1>2, <1>3

\* flush_fd_queue moves a part of the queue to the end of the buffer and leaves
\* the rest, in order: it makes up no frame.
LEMMA FlushParts ==
  ASSUME NEW q \in Seq(Frame), NEW buffer \in Seq(Frame), Len(buffer) <= BufCap
  PROVE  /\ Fits(q, buffer) \in 0..Len(q)
         /\ Flushed(q, buffer) \in Seq(Frame)
         /\ Unflushed(q, buffer) \in Seq(Frame)
         /\ Len(Flushed(q, buffer)) = Len(buffer) + Fits(q, buffer)
         /\ \A i \in 1..Len(buffer) : Flushed(q, buffer)[i] = buffer[i]
         /\ \A i \in 1..Fits(q, buffer) : Flushed(q, buffer)[Len(buffer) + i] = q[i]
         /\ Len(Unflushed(q, buffer)) = Len(q) - Fits(q, buffer)
         /\ \A i \in 1..Len(Unflushed(q, buffer)) :
              Unflushed(q, buffer)[i] = q[Fits(q, buffer) + i]
<1>1. Fits(q, buffer) \in 0..Len(q)
  BY WebsocketAssumption DEF Fits
<1>2. SubSeq(q, 1, Fits(q, buffer)) \in Seq(Frame)
  BY <1>1
<1>3. Unflushed(q, buffer) \in Seq(Frame)
  BY <1>1 DEF Unflushed
<1> QED
  BY SMTT(30), <1>1, <1>2, <1>3 DEF Flushed, Unflushed

\* The frames handle_ws_init queues for what query_index returned.
SnapshotOf(n, events, conn) == [i \in 1..n |-> FrameFor(events[i], conn)]

\* They are frames for that connection, none of them the response.
LEMMA SnapshotType ==
  ASSUME NEW n \in Nat, NEW events \in [1..n -> Events], NEW c \in Conns
  PROVE  /\ SnapshotOf(n, events, c) \in Seq(Frame)
         /\ Len(SnapshotOf(n, events, c)) = n
         /\ \A i \in 1..n : SnapshotOf(n, events, c)[i].for = c
                            /\ IsEvent(SnapshotOf(n, events, c)[i])
<1>1. \A i \in 1..n : FrameFor(events[i], c) \in Frame /\ FrameFor(events[i], c).for = c
                      /\ IsEvent(FrameFor(events[i], c))
  BY WebsocketAssumption DEF FrameFor, Frame, Events, IsEvent, Again
<1>2. SnapshotOf(n, events, c) \in [1..n -> Frame]
  BY Zenon, <1>1 DEF SnapshotOf
<1>3. SnapshotOf(n, events, c) \in Seq(Frame) /\ Len(SnapshotOf(n, events, c)) = n
  BY <1>2
<1> QED
  BY Zenon, <1>1, <1>3 DEF SnapshotOf

-----------------------------------------------------------------------------
(* Types.                                                                   *)

\* The filters update_filters builds are well typed: a registered descriptor
\* has a connection.
LEMMA FiltersOfType ==
  ASSUME TypeOK, Owner, NEW l \in Loops PROVE FiltersOf(l) \subseteq Filter
<1>1. ASSUME NEW fd \in Fds, tokens[l][fd] # 0
      PROVE  [loop |-> l, fd |-> fd, token |-> tokens[l][fd], set |-> query_fn[l][fd],
              for |-> peer[fd]] \in Filter
  <2>1. peer[fd] \in Conns
    BY <1>1, WebsocketAssumption DEF TypeOK, Owner, Conns
  <2>2. tokens[l][fd] \in Nat /\ query_fn[l][fd] \in BOOLEAN
    BY Zenon DEF TypeOK
  <2> QED
    BY Zenon, <2>1, <2>2 DEF Filter
<1> QED
  BY Zenon, <1>1 DEF FiltersOf

\* What a worker copies is well typed.
LEMMA AllFiltersType == ASSUME TypeOK PROVE AllFilters \subseteq Filter
  BY DEF TypeOK, AllFilters

\* Every step of the pool keeps the types.
LEMMA TypesStep ==
  TypeOK /\ Owner /\ Control /\ Buffers /\ [Next]_vars => TypeOK'
<1> SUFFICES ASSUME TypeOK, Owner, Control, Buffers, [Next]_vars PROVE TypeOK'
  BY Zenon
<1>1. ASSUME NEW fd \in Fds, AddClient(fd) PROVE TypeOK'
  <2>1. (accepted + 1) % NLoops \in Loops
    BY WebsocketAssumption DEF TypeOK, Loops
  <2>2. accepted' \in 0..MaxConns /\ peer' \in [Fds -> 0..MaxConns]
    BY SMTT(30), <1>1, WebsocketAssumption DEF AddClient, TypeOK
  <2>3. new_fds_' \in [Loops -> SUBSET Fds] /\ signalled' \in [Loops -> BOOLEAN]
    BY ZenonT(40), <1>1, <2>1 DEF AddClient, TypeOK
  <2> QED
    BY Zenon, <1>1, <2>2, <2>3 DEF AddClient, TypeOK, clientVars, outVars, workerVars, indexVars
<1>2. ASSUME NEW l \in Loops, AddFds(l) PROVE TypeOK'
  BY Zenon, <1>2 DEF AddFds, Goto, TypeOK, LoopAt, WorkerAt, clientVars, outVars, workerVars,
     indexVars
<1>3. ASSUME NEW l \in Loops, NextToken(l) PROVE TypeOK'
  BY <1>3 DEF NextToken, Goto, TypeOK, LoopAt, WorkerAt, clientVars, outVars,
     workerVars, indexVars
<1>4. ASSUME NEW l \in Loops, OnNewCnx(l) PROVE TypeOK'
  BY Zenon, <1>4 DEF OnNewCnx, Goto, TypeOK, LoopAt, WorkerAt, clientVars, outVars,
     workerVars, indexVars
<1>5. ASSUME NEW l \in Loops, AddFdsEnd(l) PROVE TypeOK'
  BY Zenon, <1>5 DEF AddFdsEnd, Goto, TypeOK, LoopAt, WorkerAt, clientVars, outVars,
     workerVars, indexVars
<1>6. ASSUME NEW l \in Loops, DropEvent(l) PROVE TypeOK'
  BY SMTT(30), <1>6 DEF DropEvent, TypeOK, LoopAt, WorkerAt, clientVars, outVars, workerVars,
     indexVars
<1>7. ASSUME NEW l \in Loops, QueueEvent(l) PROVE TypeOK'
  <2> DEFINE ev == Head(event_queues_[l])
             q == Append(queue[l][ev.fd], FrameFor(ev.event, ev.for))
  <2>1. ev \in Queued /\ Tail(event_queues_[l]) \in Seq(Queued)
    BY <1>7 DEF QueueEvent, TypeOK
  <2>2. q \in Seq(Frame)
    <3>1. FrameFor(ev.event, ev.for) \in Frame
      BY <2>1, WebsocketAssumption DEF Queued, Frame, FrameFor, Events
    <3>2. queue[l][ev.fd] \in Seq(Frame)
      BY SMTT(30), <2>1 DEF Queued, TypeOK
    <3> QED
      BY <3>1, <3>2
  <2>3. ev.fd \in Fds /\ w_buffer[ev.fd] \in Seq(Frame) /\ Len(w_buffer[ev.fd]) <= BufCap
    BY Zenon, <2>1 DEF Queued, TypeOK, Buffers
  <2>4. Flushed(q, w_buffer[ev.fd]) \in Seq(Frame) /\ Unflushed(q, w_buffer[ev.fd]) \in Seq(Frame)
    BY Zenon, <2>2, <2>3, FlushParts
  <2> HIDE DEF ev, q
  <2>5. queue' \in [Loops -> [Fds -> Seq(Frame)]] /\ w_buffer' \in [Fds -> Seq(Frame)]
    BY Zenon, <1>7, <2>3, <2>4 DEF QueueEvent, TypeOK, ev, q
  <2>6. event_queues_' \in [Loops -> Seq(Queued)]
    BY Zenon, <1>7, <2>1 DEF QueueEvent, TypeOK
  <2>7. available_fds' \in [Loops -> SUBSET Fds]
       /\ loop_pc' \in [Loops -> {"poll", "fds", "token", "events", "filters"}]
    BY Zenon, <1>7 DEF QueueEvent, TypeOK, Goto
  <2> QED
    BY ZenonT(60), <1>7, <2>5, <2>6, <2>7
    DEF QueueEvent, TypeOK, clientVars, outVars, workerVars, indexVars
<1>8. ASSUME NEW l \in Loops, EventsEnd(l) PROVE TypeOK'
  BY Zenon, <1>8 DEF EventsEnd, Goto, TypeOK, LoopAt, WorkerAt, clientVars, outVars,
     workerVars, indexVars
<1>9. ASSUME NEW l \in Loops, UpdateFilters(l) PROVE TypeOK'
  <2>1. filters_' \in [Loops -> SUBSET Filter]
    BY Zenon, <1>9, FiltersOfType DEF UpdateFilters, TypeOK
  <2> QED
    BY Zenon, <1>9, <2>1 DEF UpdateFilters, Goto, TypeOK, clientVars, outVars, workerVars,
       indexVars
<1>10. ASSUME NEW l \in Loops, NEW fd \in Fds, CloseCnx(l, fd) PROVE TypeOK'
  <2>1. tokens' \in [Loops -> [Fds -> Nat]] /\ query_fn' \in [Loops -> [Fds -> BOOLEAN]]
    BY Zenon, <1>10 DEF CloseCnx, Erase, TypeOK
  <2>2. queue' \in [Loops -> [Fds -> Seq(Frame)]] /\ w_buffer' \in [Fds -> Seq(Frame)]
    <3>1. <<>> \in Seq(Frame)
      OBVIOUS
    <3> QED
      BY Zenon, <1>10, <3>1 DEF CloseCnx, Erase, TypeOK
  <2>3. peer' \in [Fds -> 0..MaxConns]
    BY <1>10, WebsocketAssumption DEF CloseCnx, Erase, TypeOK
  <2>4. filters_' \in [Loops -> SUBSET Filter]
    BY Zenon, <1>10, FiltersOfType DEF CloseCnx, TypeOK
  <2> QED
    BY Zenon, <1>10, <2>1, <2>2, <2>3, <2>4
    DEF CloseCnx, TypeOK, clientVars, outVars, workerVars, indexVars
<1>11. ASSUME NEW l \in Loops, NEW fd \in Fds, RefuseCnx(l, fd) PROVE TypeOK'
  <2>1. tokens' \in [Loops -> [Fds -> Nat]] /\ query_fn' \in [Loops -> [Fds -> BOOLEAN]]
    BY Zenon, <1>11 DEF RefuseCnx, Erase, TypeOK
  <2>2. queue' \in [Loops -> [Fds -> Seq(Frame)]] /\ w_buffer' \in [Fds -> Seq(Frame)]
    <3>1. <<>> \in Seq(Frame)
      OBVIOUS
    <3> QED
      BY Zenon, <1>11, <3>1 DEF RefuseCnx, Erase, TypeOK
  <2>3. peer' \in [Fds -> 0..MaxConns]
    BY <1>11, WebsocketAssumption DEF RefuseCnx, Erase, TypeOK
  <2> QED
    BY Zenon, <1>11, <2>1, <2>2, <2>3
    DEF RefuseCnx, TypeOK, clientVars, outVars, workerVars, indexVars
<1>12. ASSUME NEW l \in Loops, NEW fd \in Fds, HandleWsInit(l, fd) PROVE TypeOK'
  <2>1. peer[fd] \in Conns
    BY <1>12, WebsocketAssumption DEF HandleWsInit, Ready, TypeOK, Owner, Conns
  <2>2. queue' \in [Loops -> [Fds -> Seq(Frame)]] /\ w_buffer' \in [Fds -> Seq(Frame)]
    <3>1. PICK n \in 0..QueueCap : \E events \in [1..n -> index] :
            LET q == [i \in 1..n |-> FrameFor(events[i], peer[fd])]
                buffer == <<FrameFor(0, peer[fd])>>
            IN  /\ queue' = [queue EXCEPT ![l][fd] = Unflushed(q, buffer)]
                /\ w_buffer' = [w_buffer EXCEPT ![fd] = Flushed(q, buffer)]
      BY Zenon, <1>12 DEF HandleWsInit
    <3>2. PICK events \in [1..n -> index] :
            LET q == [i \in 1..n |-> FrameFor(events[i], peer[fd])]
                buffer == <<FrameFor(0, peer[fd])>>
            IN  /\ queue' = [queue EXCEPT ![l][fd] = Unflushed(q, buffer)]
                /\ w_buffer' = [w_buffer EXCEPT ![fd] = Flushed(q, buffer)]
      BY Zenon, <3>1
    <3>3. SnapshotOf(n, events, peer[fd]) \in Seq(Frame)
      <4>1. n \in Nat /\ events \in [1..n -> Events]
        BY WebsocketAssumption DEF TypeOK
      <4> QED
        BY Zenon, <2>1, <4>1, SnapshotType
    <3>4. <<FrameFor(0, peer[fd])>> \in Seq(Frame) /\ Len(<<FrameFor(0, peer[fd])>>) <= BufCap
      BY <2>1, WebsocketAssumption DEF Frame, FrameFor
    <3> QED
      BY Zenon, <3>2, <3>3, <3>4, FlushParts DEF TypeOK, SnapshotOf
  <2>3. offered' \in [Conns -> SUBSET Events]
    BY Zenon, <1>12, <2>1 DEF HandleWsInit, TypeOK
  <2>4. query_fn' \in [Loops -> [Fds -> BOOLEAN]]
    BY Zenon, <1>12 DEF HandleWsInit, TypeOK
  <2> QED
    BY Zenon, <1>12, <2>2, <2>3, <2>4
    DEF HandleWsInit, Goto, TypeOK, clientVars, outVars, workerVars, indexVars
<1>13. ASSUME NEW l \in Loops, NEW fd \in Fds, WriteCb(l, fd) PROVE TypeOK'
  <2>1. peer[fd] \in Conns
    BY <1>13, WebsocketAssumption DEF WriteCb, Ready, TypeOK, Owner, Conns
  <2>2. PICK n \in 1..Len(w_buffer[fd]) :
          /\ sent' = [sent EXCEPT ![peer[fd]] = @ \o SubSeq(w_buffer[fd], 1, n)]
          /\ w_buffer' = [w_buffer EXCEPT ![fd] = SubSeq(@, n + 1, Len(@))]
    BY Zenon, <1>13 DEF WriteCb
  <2>3. w_buffer[fd] \in Seq(Frame) /\ sent[peer[fd]] \in Seq(Frame)
    BY Zenon, <2>1 DEF TypeOK
  <2>4. SubSeq(w_buffer[fd], 1, n) \in Seq(Frame)
        /\ SubSeq(w_buffer[fd], n + 1, Len(w_buffer[fd])) \in Seq(Frame)
    BY SMTT(30), <2>3
  <2>5. sent[peer[fd]] \o SubSeq(w_buffer[fd], 1, n) \in Seq(Frame)
    BY <2>3, <2>4
  <2>6. sent' \in [Conns -> Seq(Frame)] /\ w_buffer' \in [Fds -> Seq(Frame)]
    BY Zenon, <2>2, <2>4, <2>5 DEF TypeOK
  <2> QED
    BY Zenon, <1>13, <2>6 DEF WriteCb, TypeOK, clientVars, outVars, workerVars, indexVars
<1>14. ASSUME IndexEvent PROVE TypeOK'
  BY Zenon, <1>14 DEF IndexEvent, TypeOK, LoopAt, WorkerAt, clientVars, outVars, workerVars,
     indexVars
<1>15. ASSUME AddEvent PROVE TypeOK'
  <2>1. PICK ev \in publishing :
          /\ publishing' = publishing \ {ev}
          /\ event_queue_' = Append(event_queue_, ev) \/ event_queue_' = event_queue_
    BY Zenon, <1>15 DEF AddEvent
  <2>2. ev \in Events /\ publishing' \subseteq Events
    BY Zenon, <2>1 DEF TypeOK
  <2>3. event_queue_ \in Seq(Events)
    BY Zenon DEF TypeOK
  <2>4. Append(event_queue_, ev) \in Seq(Events)
    BY <2>2, <2>3
  <2>5. event_queue_' \in Seq(Events)
    BY Zenon, <2>1, <2>3, <2>4
  <2> QED
    BY Zenon, <1>15, <2>2, <2>5 DEF AddEvent, TypeOK, clientVars, outVars, workerVars, indexVars
<1>16. ASSUME NEW w \in Workers, StartWorker(w) PROVE TypeOK'
  <2>1. filter_fns' \in [Workers -> SUBSET Filter]
    BY Zenon, <1>16, AllFiltersType DEF StartWorker, TypeOK
  <2> QED
    BY Zenon, <1>16, <2>1 DEF StartWorker, TypeOK, clientVars, outVars, workerVars, indexVars
<1>17. ASSUME NEW w \in Workers, PopEvent(w) PROVE TypeOK'
  <2>1. Head(event_queue_) \in Events /\ Tail(event_queue_) \in Seq(Events)
    BY <1>17 DEF PopEvent, TypeOK
  <2>2. e' \in [Workers -> 0..MaxEvents]
    BY <1>17, <2>1 DEF PopEvent, TypeOK, Events
  <2>3. todo' \in [Workers -> SUBSET Filter]
    BY Zenon, <1>17 DEF PopEvent, TypeOK
  <2> QED
    BY Zenon, <1>17, <2>1, <2>2, <2>3
    DEF PopEvent, TypeOK, clientVars, outVars, workerVars, indexVars
<1>18. ASSUME NEW w \in Workers, RunFilter(w) PROVE TypeOK'
  <2>1. PICK f \in todo[w] :
          /\ todo' = [todo EXCEPT ![w] = @ \ {f}]
          /\ terminated' = ~f.set
          /\ offered' = [offered EXCEPT ![f.for] = @ \cup {e[w]}]
          /\ \/ /\ event_queues_' = [event_queues_ EXCEPT ![f.loop] =
                      Append(@, [event |-> e[w], fd |-> f.fd, token |-> f.token, for |-> f.for])]
                /\ signalled' = [signalled EXCEPT ![f.loop] = TRUE]
             \/ UNCHANGED <<event_queues_, signalled>>
    BY Zenon, <1>18 DEF RunFilter
  <2>2. f \in Filter /\ e[w] \in Events
    BY <1>18, WebsocketAssumption DEF RunFilter, WorkerAt, TypeOK, Control, Events
  <2>3. [event |-> e[w], fd |-> f.fd, token |-> f.token, for |-> f.for] \in Queued
        /\ f.loop \in Loops /\ f.for \in Conns /\ f.set \in BOOLEAN
    BY Zenon, <2>2 DEF Filter, Queued
  <2>4. event_queues_' \in [Loops -> Seq(Queued)] /\ signalled' \in [Loops -> BOOLEAN]
    <3>1. Append(event_queues_[f.loop], [event |-> e[w], fd |-> f.fd, token |-> f.token,
                                         for |-> f.for]) \in Seq(Queued)
      BY <2>3 DEF TypeOK
    <3>2. CASE UNCHANGED <<event_queues_, signalled>>
      BY Zenon, <3>2 DEF TypeOK
    <3>3. CASE ~ UNCHANGED <<event_queues_, signalled>>
      <4>1. event_queues_' = [event_queues_ EXCEPT ![f.loop] =
                      Append(@, [event |-> e[w], fd |-> f.fd, token |-> f.token, for |-> f.for])]
            /\ signalled' = [signalled EXCEPT ![f.loop] = TRUE]
        BY Zenon, <2>1, <3>3
      <4> QED
        BY Zenon, <4>1, <2>3, <3>1 DEF TypeOK
    <3> QED
      BY Zenon, <3>2, <3>3
  <2>5. offered' \in [Conns -> SUBSET Events] /\ terminated' \in BOOLEAN
    BY Zenon, <2>1, <2>2, <2>3 DEF TypeOK
  <2>6. todo' \in [Workers -> SUBSET Filter]
    BY Zenon, <2>1 DEF TypeOK
  <2> QED
    BY Zenon, <1>18, <2>4, <2>5, <2>6
    DEF RunFilter, TypeOK, clientVars, outVars, workerVars, indexVars
<1>19. ASSUME NEW w \in Workers, FiltersEnd(w) PROVE TypeOK'
  <2>1. filter_fns' \in [Workers -> SUBSET Filter]
    BY <1>19, AllFiltersType DEF FiltersEnd, TypeOK
  <2> QED
    BY Zenon, <1>19, <2>1 DEF FiltersEnd, TypeOK, clientVars, outVars, workerVars, indexVars
<1>21. ASSUME NEW l \in Loops, NEW fd \in Fds, HeaderAgain(l, fd) PROVE TypeOK'
  <2>1. peer[fd] \in Conns
    BY <1>21, WebsocketAssumption DEF HeaderAgain, Ready, TypeOK, Owner, Conns
  <2> DEFINE n == repeats[peer[fd]] + 1
  <2>2. n \in 0..MaxRepeats /\ FrameFor(-n, peer[fd]) \in Frame
    <3>1. repeats[peer[fd]] \in 0..MaxRepeats /\ repeats[peer[fd]] < MaxRepeats
      BY Zenon, <1>21, <2>1 DEF HeaderAgain, TypeOK
    <3>2. n \in 0..MaxRepeats /\ -n \in (-MaxRepeats)..MaxEvents
      BY <3>1, WebsocketAssumption
    <3> QED
      BY Zenon, <2>1, <3>2 DEF Frame, FrameFor
  <2>3. Append(w_buffer[fd], FrameFor(-n, peer[fd])) \in Seq(Frame)
    BY <2>2 DEF TypeOK
  <2>4. repeats' = [repeats EXCEPT ![peer[fd]] = n]
        /\ w_buffer' = [w_buffer EXCEPT ![fd] = Append(@, FrameFor(-n, peer[fd]))]
    BY Zenon, <1>21 DEF HeaderAgain
  <2> HIDE DEF n
  <2>5. repeats' \in [Conns -> 0..MaxRepeats] /\ w_buffer' \in [Fds -> Seq(Frame)]
    BY Zenon, <2>1, <2>2, <2>3, <2>4 DEF TypeOK
  <2> QED
    BY Zenon, <1>21, <2>5 DEF HeaderAgain, TypeOK, clientVars, outVars, workerVars, indexVars
<1>20. CASE UNCHANGED vars
  BY Zenon, <1>20 DEF TypeOK, LoopAt, WorkerAt, vars, clientVars, outVars, workerVars, indexVars
<1> QED
  BY Zenon, <1>1, <1>2, <1>3, <1>4, <1>5, <1>6, <1>7, <1>8, <1>9, <1>10, <1>11, <1>12, <1>13,
     <1>14, <1>15, <1>16, <1>17, <1>18, <1>19, <1>20, <1>21
  DEF Next, LoopStep, Worker

-----------------------------------------------------------------------------
(* Who owns a descriptor, and what the threads are doing.                   *)
\* A descriptor is in the hands of one loop, from the hand-over to its close.
LEMMA OwnerStep ==
  TypeOK /\ Owner /\ Control /\ [Next]_vars => Owner'
<1> SUFFICES ASSUME TypeOK, Owner, Control, [Next]_vars PROVE Owner'
  BY Zenon, SMTT(30)
<1>0. ASSUME UNCHANGED <<peer, accepted, tokens, new_fds_, adding>> PROVE Owner'
  BY Zenon, <1>0 DEF Owner, Pending
<1>1. ASSUME NEW fd \in Fds, AddClient(fd) PROVE Owner'
  BY SMTT(30), <1>1 DEF AddClient, TypeOK, Owner, Control, Pending, LoopAt, clientVars, outVars,
     workerVars, indexVars
<1>2. ASSUME NEW l \in Loops, AddFds(l) PROVE Owner'
  BY <1>2 DEF AddFds, Goto, TypeOK, Owner, Control, Pending, LoopAt, clientVars,
     outVars, workerVars, indexVars
<1>3. ASSUME NEW l \in Loops, NextToken(l) PROVE Owner'
  BY <1>3 DEF NextToken, Goto, TypeOK, Owner, Control, Pending, LoopAt, clientVars,
     outVars, workerVars, indexVars
<1>4. ASSUME NEW l \in Loops, OnNewCnx(l) PROVE Owner'
  BY SMTT(60), <1>4 DEF OnNewCnx, Goto, TypeOK, Owner, Control, Pending, LoopAt, clientVars,
     outVars, workerVars, indexVars
<1>5. ASSUME NEW l \in Loops, AddFdsEnd(l) PROVE Owner'
  BY <1>5 DEF AddFdsEnd, Goto, TypeOK, Owner, Control, Pending, LoopAt, clientVars,
     outVars, workerVars, indexVars
<1>6. ASSUME NEW l \in Loops, DropEvent(l) PROVE Owner'
  <2>1. UNCHANGED <<peer, accepted, tokens, new_fds_, adding>>
    BY Zenon, <1>6 DEF DropEvent, clientVars, outVars, workerVars, indexVars
  <2> QED
    BY Zenon, <2>1, <1>0
<1>7. ASSUME NEW l \in Loops, QueueEvent(l) PROVE Owner'
  <2>1. UNCHANGED <<peer, accepted, tokens, new_fds_, adding>>
    BY Zenon, <1>7 DEF QueueEvent, clientVars, outVars, workerVars, indexVars
  <2> QED
    BY Zenon, <2>1, <1>0
<1>8. ASSUME NEW l \in Loops, EventsEnd(l) PROVE Owner'
  BY <1>8 DEF EventsEnd, Goto, TypeOK, Owner, Control, Pending, LoopAt, clientVars,
     outVars, workerVars, indexVars
<1>9. ASSUME NEW l \in Loops, UpdateFilters(l) PROVE Owner'
  <2>1. UNCHANGED <<peer, accepted, tokens, new_fds_, adding>>
    BY Zenon, <1>9 DEF UpdateFilters, clientVars, outVars, workerVars, indexVars
  <2> QED
    BY Zenon, <2>1, <1>0
<1>10. ASSUME NEW l \in Loops, NEW fd \in Fds, CloseCnx(l, fd) PROVE Owner'
  <2>1. tokens[l][fd] # 0 /\ Erase(l, fd) /\ UNCHANGED <<accepted, new_fds_, adding>>
    BY Zenon, <1>10 DEF CloseCnx, Ready
  <2>2. \A k \in Loops : tokens'[k][fd] = 0 /\ fd \notin Pending(k)
    BY <2>1 DEF Owner, Erase, TypeOK
  <2>3. \A k \in Loops : Pending(k)' = Pending(k) /\ Pending(k) \subseteq Fds
    BY Zenon, <2>1 DEF Pending, TypeOK
  <2>4. \A x \in Fds : x # fd => peer'[x] = peer[x] /\ \A k \in Loops : tokens'[k][x] = tokens[k][x]
    BY Zenon, <2>1 DEF Erase, TypeOK
  <2>5. peer'[fd] = 0 /\ accepted \in Nat
    BY SMTT(30), <2>1 DEF Erase, TypeOK
  <2> QED
    BY <2>1, <2>2, <2>3, <2>4, <2>5 DEF Owner
<1>11. ASSUME NEW l \in Loops, NEW fd \in Fds, RefuseCnx(l, fd) PROVE Owner'
  <2>1. tokens[l][fd] # 0 /\ Erase(l, fd) /\ UNCHANGED <<accepted, new_fds_, adding>>
    BY ZenonT(60), <1>11 DEF RefuseCnx, Ready
  <2>2. \A k \in Loops : tokens'[k][fd] = 0 /\ fd \notin Pending(k)
    BY <2>1 DEF Owner, Erase, TypeOK
  <2>3. \A k \in Loops : Pending(k)' = Pending(k) /\ Pending(k) \subseteq Fds
    BY Zenon, <2>1 DEF Pending, TypeOK
  <2>4. \A x \in Fds : x # fd => peer'[x] = peer[x] /\ \A k \in Loops : tokens'[k][x] = tokens[k][x]
    BY Zenon, <2>1 DEF Erase, TypeOK
  <2>5. peer'[fd] = 0 /\ accepted \in Nat
    BY SMTT(30), <2>1 DEF Erase, TypeOK
  <2> QED
    BY <2>1, <2>2, <2>3, <2>4, <2>5 DEF Owner
<1>12. ASSUME NEW l \in Loops, NEW fd \in Fds, HandleWsInit(l, fd) PROVE Owner'
  <2>1. UNCHANGED <<peer, accepted, tokens, new_fds_, adding>>
    BY Zenon, <1>12 DEF HandleWsInit, Ready, clientVars, outVars, workerVars, indexVars
  <2> QED
    BY Zenon, <2>1, <1>0
<1>13. ASSUME NEW l \in Loops, NEW fd \in Fds, WriteCb(l, fd) PROVE Owner'
  <2>1. UNCHANGED <<peer, accepted, tokens, new_fds_, adding>>
    BY Zenon, <1>13 DEF WriteCb, Ready, clientVars, outVars, workerVars, indexVars
  <2> QED
    BY Zenon, <2>1, <1>0
<1>14. ASSUME IndexEvent PROVE Owner'
  <2>1. UNCHANGED <<peer, accepted, tokens, new_fds_, adding>>
    BY Zenon, <1>14 DEF IndexEvent, clientVars, outVars, workerVars, indexVars
  <2> QED
    BY Zenon, <2>1, <1>0
<1>15. ASSUME AddEvent PROVE Owner'
  <2>1. UNCHANGED <<peer, accepted, tokens, new_fds_, adding>>
    BY Zenon, <1>15 DEF AddEvent, clientVars, outVars, workerVars, indexVars
  <2> QED
    BY Zenon, <2>1, <1>0
<1>16. ASSUME NEW w \in Workers, StartWorker(w) PROVE Owner'
  <2>1. UNCHANGED <<peer, accepted, tokens, new_fds_, adding>>
    BY Zenon, <1>16 DEF StartWorker, clientVars, outVars, workerVars, indexVars
  <2> QED
    BY Zenon, <2>1, <1>0
<1>17. ASSUME NEW w \in Workers, PopEvent(w) PROVE Owner'
  <2>1. UNCHANGED <<peer, accepted, tokens, new_fds_, adding>>
    BY Zenon, <1>17 DEF PopEvent, clientVars, outVars, workerVars, indexVars
  <2> QED
    BY Zenon, <2>1, <1>0
<1>18. ASSUME NEW w \in Workers, RunFilter(w) PROVE Owner'
  <2>1. UNCHANGED <<peer, accepted, tokens, new_fds_, adding>>
    BY Zenon, <1>18 DEF RunFilter, clientVars, outVars, workerVars, indexVars
  <2> QED
    BY Zenon, <2>1, <1>0
<1>19. ASSUME NEW w \in Workers, FiltersEnd(w) PROVE Owner'
  <2>1. UNCHANGED <<peer, accepted, tokens, new_fds_, adding>>
    BY Zenon, <1>19 DEF FiltersEnd, clientVars, outVars, workerVars, indexVars
  <2> QED
    BY Zenon, <2>1, <1>0
<1>21. ASSUME NEW l \in Loops, NEW fd \in Fds, HeaderAgain(l, fd) PROVE Owner'
  <2>1. UNCHANGED <<peer, accepted, tokens, new_fds_, adding>>
    BY Zenon, <1>21 DEF HeaderAgain, clientVars
  <2> QED
    BY Zenon, <2>1, <1>0
<1>20. CASE UNCHANGED vars
  <2>1. UNCHANGED <<peer, accepted, tokens, new_fds_, adding>>
    BY Zenon, <1>20 DEF vars, clientVars, outVars, workerVars, indexVars
  <2> QED
    BY Zenon, <2>1, <1>0
<1> QED
  BY Zenon, <1>1, <1>2, <1>3, <1>4, <1>5, <1>6, <1>7, <1>8, <1>9, <1>10, <1>11, <1>12, <1>13,
     <1>14, <1>15, <1>16, <1>17, <1>18, <1>19, <1>20, <1>21
  DEF Next, LoopStep, Worker
\* add_fds works on descriptors it took over; a worker that filters has an event.
LEMMA ControlStep ==
  TypeOK /\ Control /\ [Next]_vars => Control'
<1> SUFFICES ASSUME TypeOK, Control, [Next]_vars PROVE Control'
  BY Zenon
<1>1. ASSUME NEW fd \in Fds, AddClient(fd) PROVE Control'
  BY Zenon, <1>1 DEF AddClient, TypeOK, Control, LoopAt, WorkerAt, clientVars, outVars,
     workerVars, indexVars
<1>2. ASSUME NEW l \in Loops, AddFds(l) PROVE Control'
  BY Zenon, <1>2 DEF AddFds, Goto, TypeOK, Control, LoopAt, WorkerAt, clientVars, outVars,
     workerVars, indexVars
<1>3. ASSUME NEW l \in Loops, NextToken(l) PROVE Control'
  BY Zenon, <1>3 DEF NextToken, Goto, TypeOK, Control, LoopAt, WorkerAt, clientVars, outVars,
     workerVars, indexVars
<1>4. ASSUME NEW l \in Loops, OnNewCnx(l) PROVE Control'
  BY Zenon, <1>4 DEF OnNewCnx, Goto, TypeOK, Control, LoopAt, WorkerAt, clientVars, outVars,
     workerVars, indexVars
<1>5. ASSUME NEW l \in Loops, AddFdsEnd(l) PROVE Control'
  BY Zenon, <1>5 DEF AddFdsEnd, Goto, TypeOK, Control, LoopAt, WorkerAt, clientVars, outVars,
     workerVars, indexVars
<1>6. ASSUME NEW l \in Loops, DropEvent(l) PROVE Control'
  BY Zenon, <1>6 DEF DropEvent, TypeOK, Control, LoopAt, WorkerAt, clientVars, outVars,
     workerVars, indexVars
<1>7. ASSUME NEW l \in Loops, QueueEvent(l) PROVE Control'
  BY ZenonT(60), <1>7 DEF QueueEvent, Goto, TypeOK, Control, LoopAt, WorkerAt, clientVars,
     outVars, workerVars, indexVars
<1>8. ASSUME NEW l \in Loops, EventsEnd(l) PROVE Control'
  BY Zenon, <1>8 DEF EventsEnd, Goto, TypeOK, Control, LoopAt, WorkerAt, clientVars, outVars,
     workerVars, indexVars
<1>9. ASSUME NEW l \in Loops, UpdateFilters(l) PROVE Control'
  BY Zenon, <1>9 DEF UpdateFilters, Goto, TypeOK, Control, LoopAt, WorkerAt, clientVars,
     outVars, workerVars, indexVars
<1>10. ASSUME NEW l \in Loops, NEW fd \in Fds, CloseCnx(l, fd) PROVE Control'
  BY Zenon, <1>10 DEF CloseCnx, Ready, Erase, TypeOK, Control, LoopAt, WorkerAt, clientVars,
     outVars, workerVars, indexVars
<1>11. ASSUME NEW l \in Loops, NEW fd \in Fds, RefuseCnx(l, fd) PROVE Control'
  BY Zenon, <1>11 DEF RefuseCnx, Ready, Erase, TypeOK, Control, LoopAt, WorkerAt, clientVars,
     outVars, workerVars, indexVars
<1>12. ASSUME NEW l \in Loops, NEW fd \in Fds, HandleWsInit(l, fd) PROVE Control'
  BY ZenonT(60), <1>12 DEF HandleWsInit, Ready, Goto, TypeOK, Control, LoopAt, WorkerAt,
     clientVars, outVars, workerVars, indexVars
<1>13. ASSUME NEW l \in Loops, NEW fd \in Fds, WriteCb(l, fd) PROVE Control'
  BY Zenon, <1>13 DEF WriteCb, Ready, TypeOK, Control, LoopAt, WorkerAt, clientVars, outVars,
     workerVars, indexVars
<1>14. ASSUME IndexEvent PROVE Control'
  BY Zenon, <1>14 DEF IndexEvent, TypeOK, Control, LoopAt, WorkerAt, clientVars, outVars,
     workerVars, indexVars
<1>15. ASSUME AddEvent PROVE Control'
  BY Zenon, <1>15 DEF AddEvent, TypeOK, Control, LoopAt, WorkerAt, clientVars, outVars,
     workerVars, indexVars
<1>16. ASSUME NEW w \in Workers, StartWorker(w) PROVE Control'
  BY Zenon, <1>16 DEF StartWorker, TypeOK, Control, LoopAt, WorkerAt, clientVars, outVars,
     workerVars, indexVars
<1>17. ASSUME NEW w \in Workers, PopEvent(w) PROVE Control'
  <2>1. Head(event_queue_) \in Events
    BY <1>17 DEF PopEvent, TypeOK
  <2>2. Head(event_queue_) # 0
    BY <2>1 DEF Events
  <2> QED
    BY Zenon, <1>17, <2>2 DEF PopEvent, TypeOK, Control, clientVars
<1>18. ASSUME NEW w \in Workers, RunFilter(w) PROVE Control'
  BY Zenon, <1>18 DEF RunFilter, TypeOK, Control, LoopAt, WorkerAt, clientVars, outVars,
     workerVars, indexVars
<1>19. ASSUME NEW w \in Workers, FiltersEnd(w) PROVE Control'
  BY Zenon, <1>19 DEF FiltersEnd, TypeOK, Control, LoopAt, WorkerAt, clientVars, outVars,
     workerVars, indexVars
<1>21. ASSUME NEW l \in Loops, NEW fd \in Fds, HeaderAgain(l, fd) PROVE Control'
  BY Zenon, <1>21 DEF HeaderAgain, TypeOK, Control, clientVars, workerVars
<1>20. CASE UNCHANGED vars
  BY Zenon, <1>20 DEF TypeOK, Control, LoopAt, WorkerAt, vars, clientVars, outVars,
     workerVars, indexVars
<1> QED
  BY Zenon, <1>1, <1>2, <1>3, <1>4, <1>5, <1>6, <1>7, <1>8, <1>9, <1>10, <1>11, <1>12, <1>13,
     <1>14, <1>15, <1>16, <1>17, <1>18, <1>19, <1>20, <1>21
  DEF Next, LoopStep, Worker

-----------------------------------------------------------------------------
(* Tokens keep the connections of a descriptor apart: every step keeps      *)
(* Tagged.  Then what the steps that handle frames do to the queues, the    *)
(* buffers and the sockets.                                                 *)

\* What was tagged for a connection stays so: a descriptor that is opened again
\* has a token that was never given to anything.
LEMMA GoodKept ==
  TypeOK /\ Owner /\ Control /\ [Next]_vars
    => (\A k \in Loops, x \in Fds, t \in Nat, c \in Conns, set \in BOOLEAN :
                                  Good(k, x, t, c, set) => Good(k, x, t, c, set)')
<1> SUFFICES ASSUME TypeOK, Owner, Control, [Next]_vars
             PROVE  (\A k \in Loops, x \in Fds, t \in Nat, c \in Conns, set \in BOOLEAN :
                                  Good(k, x, t, c, set) => Good(k, x, t, c, set)')
  BY Zenon
<1>1. CASE \E fd \in Fds : AddClient(fd)
  BY <1>1 DEF AddClient, TypeOK, Owner, Control, LoopAt, Good, Fresh, clientVars,
     outVars, workerVars, indexVars
<1>2. CASE \E l \in Loops : AddFds(l)
  BY <1>2 DEF AddFds, Goto, TypeOK, Owner, Control, LoopAt, Good, Fresh, clientVars,
     outVars, workerVars, indexVars
<1>3. CASE \E l \in Loops : NextToken(l)
  BY <1>3 DEF NextToken, Goto, TypeOK, Owner, Control, LoopAt, Good, Fresh,
     clientVars, outVars, workerVars, indexVars
<1>4. CASE \E l \in Loops : OnNewCnx(l)
  BY SMTT(60), <1>4 DEF OnNewCnx, Goto, TypeOK, Owner, Control, LoopAt, Good, Fresh, clientVars,
     outVars, workerVars, indexVars
<1>5. CASE \E l \in Loops : AddFdsEnd(l)
  BY <1>5 DEF AddFdsEnd, Goto, TypeOK, Owner, Control, LoopAt, Good, Fresh,
     clientVars, outVars, workerVars, indexVars
<1>6. CASE \E l \in Loops : DropEvent(l)
  BY <1>6 DEF DropEvent, TypeOK, Owner, Control, LoopAt, Good, Fresh, clientVars,
     outVars, workerVars, indexVars
<1>7. CASE \E l \in Loops : QueueEvent(l)
  <2>1. PICK l \in Loops : QueueEvent(l)
    BY Zenon, <1>7
  <2>2. loop_pc' = loop_pc \/ loop_pc' = [loop_pc EXCEPT ![l] = "poll"]
    BY Zenon, <2>1 DEF QueueEvent, Goto
  <2>3. UNCHANGED <<token, tokens, peer, query_fn>>
    BY Zenon, <2>1 DEF QueueEvent, clientVars
  <2>4. \A k \in Loops : loop_pc'[k] = "token" => loop_pc[k] = "token"
    BY Zenon, <2>2 DEF TypeOK
  <2> QED
    BY <2>3, <2>4 DEF Good, Fresh
<1>8. CASE \E l \in Loops : EventsEnd(l)
  BY <1>8 DEF EventsEnd, Goto, TypeOK, Owner, Control, LoopAt, Good, Fresh,
     clientVars, outVars, workerVars, indexVars
<1>9. CASE \E l \in Loops : UpdateFilters(l)
  BY <1>9 DEF UpdateFilters, Goto, TypeOK, Owner, Control, LoopAt, Good, Fresh,
     clientVars, outVars, workerVars, indexVars
<1>10. CASE \E l \in Loops, fd \in Fds : CloseCnx(l, fd)
  BY SMTT(60), <1>10 DEF CloseCnx, Ready, Erase, TypeOK, Owner, Control, LoopAt, Good, Fresh,
     clientVars, outVars, workerVars, indexVars
<1>11. CASE \E l \in Loops, fd \in Fds : RefuseCnx(l, fd)
  BY SMTT(60), <1>11 DEF RefuseCnx, Ready, Erase, TypeOK, Owner, Control, LoopAt, Good, Fresh,
     clientVars, outVars, workerVars, indexVars
<1>12. CASE \E l \in Loops, fd \in Fds : HandleWsInit(l, fd)
  BY SMTT(30), <1>12 DEF HandleWsInit, Ready, Goto, TypeOK, Owner, Control, LoopAt, Good, Fresh,
     clientVars, outVars, workerVars, indexVars
<1>13. CASE \E l \in Loops, fd \in Fds : WriteCb(l, fd)
  BY <1>13 DEF WriteCb, Ready, TypeOK, Owner, Control, LoopAt, Good, Fresh,
     clientVars, outVars, workerVars, indexVars
<1>14. CASE IndexEvent
  BY <1>14 DEF IndexEvent, TypeOK, Owner, Control, LoopAt, Good, Fresh, clientVars,
     outVars, workerVars, indexVars
<1>15. CASE AddEvent
  BY <1>15 DEF AddEvent, TypeOK, Owner, Control, LoopAt, Good, Fresh, clientVars,
     outVars, workerVars, indexVars
<1>16. CASE \E w \in Workers : StartWorker(w)
  BY <1>16 DEF StartWorker, TypeOK, Owner, Control, LoopAt, Good, Fresh, clientVars,
     outVars, workerVars, indexVars
<1>17. CASE \E w \in Workers : PopEvent(w)
  BY <1>17 DEF PopEvent, TypeOK, Owner, Control, LoopAt, Good, Fresh, clientVars,
     outVars, workerVars, indexVars
<1>18. CASE \E w \in Workers : RunFilter(w)
  BY <1>18 DEF RunFilter, TypeOK, Owner, Control, LoopAt, Good, Fresh, clientVars,
     outVars, workerVars, indexVars
<1>19. CASE \E w \in Workers : FiltersEnd(w)
  BY <1>19 DEF FiltersEnd, TypeOK, Owner, Control, LoopAt, Good, Fresh, clientVars,
     outVars, workerVars, indexVars
<1>21. CASE \E l \in Loops, fd \in Fds : HeaderAgain(l, fd)
  <2>1. UNCHANGED <<token, tokens, peer, query_fn, loop_pc>>
    BY Zenon, <1>21 DEF HeaderAgain, clientVars
  <2>2. ASSUME NEW k \in Loops, NEW x \in Fds, NEW t \in Nat, NEW c \in Conns, NEW set \in BOOLEAN
        PROVE  Good(k, x, t, c, set)' <=> Good(k, x, t, c, set)
    BY Zenon, <2>1 DEF Good, Fresh
  <2> QED
    BY Zenon, <2>2
<1>20. CASE UNCHANGED vars
  BY <1>20 DEF TypeOK, Owner, Control, LoopAt, Good, Fresh, vars, clientVars, outVars,
     workerVars, indexVars
<1> QED
  BY Zenon, <1>1, <1>2, <1>3, <1>4, <1>5, <1>6, <1>7, <1>8, <1>9, <1>10, <1>11, <1>12, <1>13,
     <1>14, <1>15, <1>16, <1>17, <1>18, <1>19, <1>20, <1>21
  DEF Next, LoopStep, Worker

\* A filter stays tagged for the connection it was made for.
LEMMA GoodFilterKept ==
  TypeOK /\ Owner /\ Control /\ [Next]_vars
    => \A f \in Filter : GoodFilter(f) => GoodFilter(f)'
<1> SUFFICES ASSUME TypeOK, Owner, Control, [Next]_vars, NEW f \in Filter, GoodFilter(f)
             PROVE  GoodFilter(f)'
  BY Zenon
<1>1. f.loop \in Loops /\ f.fd \in Fds /\ f.token \in Nat /\ f.for \in Conns /\ f.set \in BOOLEAN
  BY Zenon DEF Filter
<1> QED
  BY Zenon, <1>1, GoodKept DEF GoodFilter

\* update_filters tags its filters with the tokens of fd_ctxes_.
LEMMA FiltersOfGood ==
  ASSUME TypeOK, Tagged, NEW l \in Loops PROVE \A f \in FiltersOf(l) : GoodFilter(f)
<1> SUFFICES ASSUME NEW fd \in Fds
             PROVE  GoodFilter([loop |-> l, fd |-> fd, token |-> tokens[l][fd], set |-> query_fn[l][fd],
                                for |-> peer[fd]])
  BY Zenon DEF FiltersOf
<1>1. Fresh(l, tokens[l][fd])
  BY Zenon DEF Tagged
<1> QED
  BY <1>1 DEF GoodFilter, Good

\* The tokens in fd_ctxes_ are never ahead of the counter.
LEMMA TokensStep ==
  TypeOK /\ Tagged /\ [Next]_vars => (\A k \in Loops, x \in Fds : Fresh(k, tokens[k][x]))'
<1> SUFFICES ASSUME TypeOK, Tagged, [Next]_vars
             PROVE  (\A k \in Loops, x \in Fds : Fresh(k, tokens[k][x]))'
  BY Zenon
<1>1. ASSUME NEW fd \in Fds, AddClient(fd)
      PROVE  (\A k \in Loops, x \in Fds : Fresh(k, tokens[k][x]))'
  BY Zenon, <1>1 DEF AddClient, TypeOK, Tagged, LoopAt, Fresh, clientVars, outVars,
     workerVars, indexVars
<1>2. ASSUME NEW l \in Loops, AddFds(l)
      PROVE  (\A k \in Loops, x \in Fds : Fresh(k, tokens[k][x]))'
  BY Zenon, <1>2 DEF AddFds, Goto, TypeOK, Tagged, LoopAt, Fresh, clientVars, outVars,
     workerVars, indexVars
<1>3. ASSUME NEW l \in Loops, NextToken(l)
      PROVE  (\A k \in Loops, x \in Fds : Fresh(k, tokens[k][x]))'
  BY SMTT(30), <1>3 DEF NextToken, Goto, TypeOK, Tagged, LoopAt, Fresh, clientVars, outVars,
     workerVars, indexVars
<1>4. ASSUME NEW l \in Loops, OnNewCnx(l)
      PROVE  (\A k \in Loops, x \in Fds : Fresh(k, tokens[k][x]))'
  BY <1>4 DEF OnNewCnx, Goto, TypeOK, Tagged, LoopAt, Fresh, clientVars, outVars,
     workerVars, indexVars
<1>5. ASSUME NEW l \in Loops, AddFdsEnd(l)
      PROVE  (\A k \in Loops, x \in Fds : Fresh(k, tokens[k][x]))'
  BY Zenon, <1>5 DEF AddFdsEnd, Goto, TypeOK, Tagged, LoopAt, Fresh, clientVars, outVars,
     workerVars, indexVars
<1>6. ASSUME NEW l \in Loops, DropEvent(l)
      PROVE  (\A k \in Loops, x \in Fds : Fresh(k, tokens[k][x]))'
  BY Zenon, <1>6 DEF DropEvent, TypeOK, Tagged, LoopAt, Fresh, clientVars, outVars,
     workerVars, indexVars
<1>7. ASSUME NEW l \in Loops, QueueEvent(l)
      PROVE  (\A k \in Loops, x \in Fds : Fresh(k, tokens[k][x]))'
  BY Zenon, <1>7 DEF QueueEvent, Goto, TypeOK, Tagged, LoopAt, Fresh, clientVars, outVars,
     workerVars, indexVars
<1>8. ASSUME NEW l \in Loops, EventsEnd(l)
      PROVE  (\A k \in Loops, x \in Fds : Fresh(k, tokens[k][x]))'
  BY Zenon, <1>8 DEF EventsEnd, Goto, TypeOK, Tagged, LoopAt, Fresh, clientVars, outVars,
     workerVars, indexVars
<1>9. ASSUME NEW l \in Loops, UpdateFilters(l)
      PROVE  (\A k \in Loops, x \in Fds : Fresh(k, tokens[k][x]))'
  BY Zenon, <1>9 DEF UpdateFilters, Goto, TypeOK, Tagged, LoopAt, Fresh, clientVars, outVars,
     workerVars, indexVars
<1>10. ASSUME NEW l \in Loops, NEW fd \in Fds, CloseCnx(l, fd)
       PROVE  (\A k \in Loops, x \in Fds : Fresh(k, tokens[k][x]))'
  BY SMTT(30), <1>10 DEF CloseCnx, Ready, Erase, TypeOK, Tagged, LoopAt, Fresh, clientVars,
     outVars, workerVars, indexVars
<1>11. ASSUME NEW l \in Loops, NEW fd \in Fds, RefuseCnx(l, fd)
       PROVE  (\A k \in Loops, x \in Fds : Fresh(k, tokens[k][x]))'
  BY SMTT(30), <1>11 DEF RefuseCnx, Ready, Erase, TypeOK, Tagged, LoopAt, Fresh, clientVars,
     outVars, workerVars, indexVars
<1>12. ASSUME NEW l \in Loops, NEW fd \in Fds, HandleWsInit(l, fd)
       PROVE  (\A k \in Loops, x \in Fds : Fresh(k, tokens[k][x]))'
  BY Zenon, <1>12 DEF HandleWsInit, Ready, Goto, TypeOK, Tagged, LoopAt, Fresh, clientVars,
     outVars, workerVars, indexVars
<1>13. ASSUME NEW l \in Loops, NEW fd \in Fds, WriteCb(l, fd)
       PROVE  (\A k \in Loops, x \in Fds : Fresh(k, tokens[k][x]))'
  BY Zenon, <1>13 DEF WriteCb, Ready, TypeOK, Tagged, LoopAt, Fresh, clientVars, outVars,
     workerVars, indexVars
<1>14. ASSUME IndexEvent PROVE (\A k \in Loops, x \in Fds : Fresh(k, tokens[k][x]))'
  BY Zenon, <1>14 DEF IndexEvent, TypeOK, Tagged, LoopAt, Fresh, clientVars, outVars,
     workerVars, indexVars
<1>15. ASSUME AddEvent PROVE (\A k \in Loops, x \in Fds : Fresh(k, tokens[k][x]))'
  BY Zenon, <1>15 DEF AddEvent, TypeOK, Tagged, LoopAt, Fresh, clientVars, outVars,
     workerVars, indexVars
<1>16. ASSUME NEW w \in Workers, StartWorker(w)
       PROVE  (\A k \in Loops, x \in Fds : Fresh(k, tokens[k][x]))'
  BY Zenon, <1>16 DEF StartWorker, TypeOK, Tagged, LoopAt, Fresh, clientVars, outVars,
     workerVars, indexVars
<1>17. ASSUME NEW w \in Workers, PopEvent(w)
       PROVE  (\A k \in Loops, x \in Fds : Fresh(k, tokens[k][x]))'
  BY Zenon, <1>17 DEF PopEvent, TypeOK, Tagged, LoopAt, Fresh, clientVars, outVars,
     workerVars, indexVars
<1>18. ASSUME NEW w \in Workers, RunFilter(w)
       PROVE  (\A k \in Loops, x \in Fds : Fresh(k, tokens[k][x]))'
  BY Zenon, <1>18 DEF RunFilter, TypeOK, Tagged, LoopAt, Fresh, clientVars, outVars,
     workerVars, indexVars
<1>19. ASSUME NEW w \in Workers, FiltersEnd(w)
       PROVE  (\A k \in Loops, x \in Fds : Fresh(k, tokens[k][x]))'
  BY Zenon, <1>19 DEF FiltersEnd, TypeOK, Tagged, LoopAt, Fresh, clientVars, outVars,
     workerVars, indexVars
<1>21. ASSUME NEW l \in Loops, NEW fd \in Fds, HeaderAgain(l, fd)
       PROVE  (\A k \in Loops, x \in Fds : Fresh(k, tokens[k][x]))'
  BY Zenon, <1>21 DEF HeaderAgain, Tagged, Fresh, clientVars
<1>20. CASE UNCHANGED vars
  BY Zenon, <1>20 DEF TypeOK, Tagged, LoopAt, Fresh, vars, clientVars, outVars, workerVars,
     indexVars
<1> QED
  BY Zenon, <1>1, <1>2, <1>3, <1>4, <1>5, <1>6, <1>7, <1>8, <1>9, <1>10, <1>11, <1>12, <1>13,
     <1>14, <1>15, <1>16, <1>17, <1>18, <1>19, <1>20, <1>21
  DEF Next, LoopStep, Worker

\* The steps that change the filters, the workers' copies, the queues and the
\* connections.
LEMMA WhoChanges ==
  [Next]_vars => 
   /\ \/ UNCHANGED filters_
      \/ \E l \in Loops : UpdateFilters(l)
      \/ \E l \in Loops, fd \in Fds : CloseCnx(l, fd)
   /\ \/ UNCHANGED <<filter_fns, todo>>
      \/ \E w \in Workers : StartWorker(w)
      \/ \E w \in Workers : PopEvent(w)
      \/ \E w \in Workers : RunFilter(w)
      \/ \E w \in Workers : FiltersEnd(w)
   /\ \/ UNCHANGED repeats
      \/ \E l \in Loops, fd \in Fds : HeaderAgain(l, fd)
   /\ \/ UNCHANGED event_queues_
      \/ \E l \in Loops : DropEvent(l)
      \/ \E l \in Loops : QueueEvent(l)
      \/ \E w \in Workers : RunFilter(w)
   /\ \/ UNCHANGED <<peer, tokens, query_fn, outVars, accepted, new_fds_, adding>>
      \/ \E fd \in Fds : AddClient(fd)
      \/ \E l \in Loops : AddFds(l)
      \/ \E l \in Loops : OnNewCnx(l)
      \/ \E l \in Loops : QueueEvent(l)
      \/ \E l \in Loops, fd \in Fds : CloseCnx(l, fd)
      \/ \E l \in Loops, fd \in Fds : RefuseCnx(l, fd)
      \/ \E l \in Loops, fd \in Fds : HandleWsInit(l, fd)
      \/ \E l \in Loops, fd \in Fds : WriteCb(l, fd)
      \/ \E l \in Loops, fd \in Fds : HeaderAgain(l, fd)
<1> SUFFICES ASSUME [Next]_vars PROVE 
   /\ \/ UNCHANGED filters_
      \/ \E l \in Loops : UpdateFilters(l)
      \/ \E l \in Loops, fd \in Fds : CloseCnx(l, fd)
   /\ \/ UNCHANGED <<filter_fns, todo>>
      \/ \E w \in Workers : StartWorker(w)
      \/ \E w \in Workers : PopEvent(w)
      \/ \E w \in Workers : RunFilter(w)
      \/ \E w \in Workers : FiltersEnd(w)
   /\ \/ UNCHANGED repeats
      \/ \E l \in Loops, fd \in Fds : HeaderAgain(l, fd)
   /\ \/ UNCHANGED event_queues_
      \/ \E l \in Loops : DropEvent(l)
      \/ \E l \in Loops : QueueEvent(l)
      \/ \E w \in Workers : RunFilter(w)
   /\ \/ UNCHANGED <<peer, tokens, query_fn, outVars, accepted, new_fds_, adding>>
      \/ \E fd \in Fds : AddClient(fd)
      \/ \E l \in Loops : AddFds(l)
      \/ \E l \in Loops : OnNewCnx(l)
      \/ \E l \in Loops : QueueEvent(l)
      \/ \E l \in Loops, fd \in Fds : CloseCnx(l, fd)
      \/ \E l \in Loops, fd \in Fds : RefuseCnx(l, fd)
      \/ \E l \in Loops, fd \in Fds : HandleWsInit(l, fd)
      \/ \E l \in Loops, fd \in Fds : WriteCb(l, fd)
      \/ \E l \in Loops, fd \in Fds : HeaderAgain(l, fd)
  BY Zenon
<1>1. CASE \E fd \in Fds : AddClient(fd)
  BY <1>1, Zenon DEF AddClient, clientVars, outVars, workerVars
<1>2. CASE \E l \in Loops : AddFds(l)
  BY <1>2, Zenon DEF AddFds, clientVars, outVars, workerVars
<1>3. CASE \E l \in Loops : NextToken(l)
  BY <1>3, Zenon DEF NextToken, clientVars, outVars, workerVars
<1>4. CASE \E l \in Loops : OnNewCnx(l)
  BY <1>4, Zenon DEF OnNewCnx, clientVars, outVars, workerVars
<1>5. CASE \E l \in Loops : AddFdsEnd(l)
  BY <1>5, Zenon DEF AddFdsEnd, clientVars, outVars, workerVars
<1>6. CASE \E l \in Loops : DropEvent(l)
  BY <1>6, Zenon DEF DropEvent, clientVars, outVars, workerVars
<1>7. CASE \E l \in Loops : QueueEvent(l)
  BY <1>7, Zenon DEF QueueEvent, clientVars, outVars, workerVars
<1>8. CASE \E l \in Loops : EventsEnd(l)
  BY <1>8, Zenon DEF EventsEnd, clientVars, outVars, workerVars
<1>9. CASE \E l \in Loops : UpdateFilters(l)
  BY <1>9, Zenon DEF UpdateFilters, clientVars, outVars, workerVars
<1>10. CASE \E l \in Loops, fd \in Fds : CloseCnx(l, fd)
  BY <1>10, Zenon DEF CloseCnx, clientVars, outVars, workerVars
<1>11. CASE \E l \in Loops, fd \in Fds : RefuseCnx(l, fd)
  BY <1>11, Zenon DEF RefuseCnx, clientVars, outVars, workerVars
<1>12. CASE \E l \in Loops, fd \in Fds : HandleWsInit(l, fd)
  BY <1>12, Zenon DEF HandleWsInit, clientVars, outVars, workerVars
<1>13. CASE \E l \in Loops, fd \in Fds : WriteCb(l, fd)
  BY <1>13, Zenon DEF WriteCb, clientVars, outVars, workerVars
<1>14. CASE IndexEvent
  BY <1>14, Zenon DEF IndexEvent, clientVars, outVars, workerVars
<1>15. CASE AddEvent
  BY <1>15, Zenon DEF AddEvent, clientVars, outVars, workerVars
<1>16. CASE \E w \in Workers : StartWorker(w)
  BY <1>16, Zenon DEF StartWorker, clientVars, outVars, workerVars
<1>17. CASE \E w \in Workers : PopEvent(w)
  BY <1>17, Zenon DEF PopEvent, clientVars, outVars, workerVars
<1>18. CASE \E w \in Workers : RunFilter(w)
  BY <1>18, Zenon DEF RunFilter, clientVars, outVars, workerVars
<1>19. CASE \E w \in Workers : FiltersEnd(w)
  BY <1>19, Zenon DEF FiltersEnd, clientVars, outVars, workerVars
<1>21. CASE \E l \in Loops, fd \in Fds : HeaderAgain(l, fd)
  BY <1>21, Zenon DEF HeaderAgain, clientVars, outVars, workerVars
<1>20. CASE UNCHANGED vars
  BY <1>20, Zenon DEF vars, clientVars, outVars, workerVars
<1> QED
  BY ZenonT(60), <1>1, <1>2, <1>3, <1>4, <1>5, <1>6, <1>7, <1>8, <1>9, <1>10, <1>11, <1>12, <1>13,
     <1>14, <1>15, <1>16, <1>17, <1>18, <1>19, <1>20, <1>21
  DEF Next, LoopStep, Worker
\* A registered filter is tagged for the connection it was made for.
LEMMA FiltersStep ==
  TypeOK /\ Owner /\ Control /\ Tagged /\ [Next]_vars
    => (\A k \in Loops : \A f \in filters_[k] : GoodFilter(f))'
<1> SUFFICES ASSUME TypeOK, Owner, Control, Tagged, [Next]_vars
             PROVE  (\A k \in Loops : \A f \in filters_[k] : GoodFilter(f))'
  BY Zenon
<1>1. \/ UNCHANGED filters_
      \/ \E l \in Loops : UpdateFilters(l)
      \/ \E l \in Loops, fd \in Fds : CloseCnx(l, fd)
  BY Zenon, WhoChanges
<1>2. ASSUME NEW l \in Loops, UpdateFilters(l)
      PROVE  (\A k \in Loops : \A f \in filters_[k] : GoodFilter(f))'
  <2>1. \A f \in filters_'[l] : f \in FiltersOf(l)
    BY Zenon, <1>2 DEF UpdateFilters, TypeOK
  <2>2. \A k \in Loops : k # l => filters_'[k] = filters_[k]
    BY Zenon, <1>2 DEF UpdateFilters, TypeOK
  <2>3. \A k \in Loops : \A f \in filters_'[k] : f \in Filter /\ GoodFilter(f)
    BY Zenon, <2>1, <2>2, FiltersOfGood, FiltersOfType DEF Tagged, TypeOK
  <2> QED
    BY Zenon, <2>3, GoodFilterKept
<1>3. ASSUME NEW l \in Loops, NEW fd \in Fds, CloseCnx(l, fd)
      PROVE  (\A k \in Loops : \A f \in filters_[k] : GoodFilter(f))'
  <2>1. \A f \in filters_'[l] : f \in FiltersOf(l)
    BY Zenon, <1>3 DEF CloseCnx, TypeOK
  <2>2. \A k \in Loops : k # l => filters_'[k] = filters_[k]
    BY Zenon, <1>3 DEF CloseCnx, TypeOK
  <2>3. \A k \in Loops : \A f \in filters_'[k] : f \in Filter /\ GoodFilter(f)
    BY Zenon, <2>1, <2>2, FiltersOfGood, FiltersOfType DEF Tagged, TypeOK
  <2> QED
    BY Zenon, <2>3, GoodFilterKept
<1>4. CASE UNCHANGED filters_
  BY Zenon, <1>4, GoodFilterKept DEF Tagged, TypeOK
<1> QED
  BY Zenon, <1>1, <1>2, <1>3, <1>4

\* So is every copy of it that a worker holds.
LEMMA CopiesStep ==
  TypeOK /\ Owner /\ Control /\ Tagged /\ [Next]_vars
    => (\A v \in Workers : \A f \in filter_fns[v] \cup todo[v] : GoodFilter(f))'
<1> SUFFICES ASSUME TypeOK, Owner, Control, Tagged, [Next]_vars
             PROVE  (\A v \in Workers : \A f \in filter_fns[v] \cup todo[v] : GoodFilter(f))'
  BY Zenon
<1>1. \/ UNCHANGED <<filter_fns, todo>>
      \/ \E w \in Workers : StartWorker(w)
      \/ \E w \in Workers : PopEvent(w)
      \/ \E w \in Workers : RunFilter(w)
      \/ \E w \in Workers : FiltersEnd(w)
  BY Zenon, WhoChanges
<1>2. ASSUME NEW w \in Workers, StartWorker(w)
      PROVE  (\A v \in Workers : \A f \in filter_fns[v] \cup todo[v] : GoodFilter(f))'
  <2>1. \A f \in filter_fns'[w] : f \in AllFilters \cup filter_fns[w]
    BY Zenon, <1>2 DEF StartWorker, TypeOK
  <2>2. \A v \in Workers : v # w => filter_fns'[v] = filter_fns[v]
    BY Zenon, <1>2 DEF StartWorker, TypeOK
  <2>3. todo' = todo
    BY Zenon, <1>2 DEF StartWorker
  <2>4. \A f \in AllFilters : f \in Filter /\ GoodFilter(f)
    BY SMTT(30) DEF AllFilters, Tagged, TypeOK
  <2>5. \A v \in Workers : \A f \in filter_fns'[v] \cup todo'[v] : f \in Filter /\ GoodFilter(f)
    BY Zenon, <2>1, <2>2, <2>3, <2>4 DEF Tagged, TypeOK
  <2> QED
    BY Zenon, <2>5, GoodFilterKept
<1>3. ASSUME NEW w \in Workers, PopEvent(w)
      PROVE  (\A v \in Workers : \A f \in filter_fns[v] \cup todo[v] : GoodFilter(f))'
  <2>1. \A v \in Workers : todo'[v] \subseteq filter_fns[v] \cup todo[v]
    BY Zenon, <1>3 DEF PopEvent, TypeOK
  <2>2. filter_fns' = filter_fns
    BY Zenon, <1>3 DEF PopEvent
  <2>3. \A v \in Workers : \A f \in filter_fns'[v] \cup todo'[v] : f \in Filter /\ GoodFilter(f)
    BY Zenon, <2>1, <2>2 DEF Tagged, TypeOK
  <2> QED
    BY Zenon, <2>3, GoodFilterKept
<1>4. ASSUME NEW w \in Workers, RunFilter(w)
      PROVE  (\A v \in Workers : \A f \in filter_fns[v] \cup todo[v] : GoodFilter(f))'
  <2>1. \A v \in Workers : todo'[v] \subseteq filter_fns[v] \cup todo[v]
    BY <1>4 DEF RunFilter, TypeOK
  <2>2. filter_fns' = filter_fns
    BY Zenon, <1>4 DEF RunFilter
  <2>3. \A v \in Workers : \A f \in filter_fns'[v] \cup todo'[v] : f \in Filter /\ GoodFilter(f)
    BY Zenon, <2>1, <2>2 DEF Tagged, TypeOK
  <2> QED
    BY Zenon, <2>3, GoodFilterKept
<1>5. ASSUME NEW w \in Workers, FiltersEnd(w)
      PROVE  (\A v \in Workers : \A f \in filter_fns[v] \cup todo[v] : GoodFilter(f))'
  <2>1. \A f \in filter_fns'[w] : f \in AllFilters \cup filter_fns[w]
    BY Zenon, <1>5 DEF FiltersEnd, TypeOK
  <2>2. \A v \in Workers : v # w => filter_fns'[v] = filter_fns[v]
    BY Zenon, <1>5 DEF FiltersEnd, TypeOK
  <2>3. todo' = todo
    BY Zenon, <1>5 DEF FiltersEnd
  <2>4. \A f \in AllFilters : f \in Filter /\ GoodFilter(f)
    BY SMTT(30) DEF AllFilters, Tagged, TypeOK
  <2>5. \A v \in Workers : \A f \in filter_fns'[v] \cup todo'[v] : f \in Filter /\ GoodFilter(f)
    BY Zenon, <2>1, <2>2, <2>3, <2>4 DEF Tagged, TypeOK
  <2> QED
    BY Zenon, <2>5, GoodFilterKept
<1>6. CASE UNCHANGED <<filter_fns, todo>>
  BY Zenon, <1>6, GoodFilterKept DEF Tagged, TypeOK
<1> QED
  BY Zenon, <1>1, <1>2, <1>3, <1>4, <1>5, <1>6

\* An event that waits for a loop stays tagged for its connection.
LEMMA QueuedKept ==
  TypeOK /\ Owner /\ Control /\ [Next]_vars
    => \A k \in Loops, q \in Queued : GoodQueued(k, q) => GoodQueued(k, q)'
<1> SUFFICES ASSUME TypeOK, Owner, Control, [Next]_vars,
                    NEW k \in Loops, NEW q \in Queued, GoodQueued(k, q)
             PROVE  GoodQueued(k, q)'
  BY Zenon
<1>1. q.fd \in Fds /\ q.token \in Nat /\ q.for \in Conns
  BY Zenon DEF Queued
<1> QED
  BY Zenon, <1>1, GoodKept DEF GoodQueued

\* An event appended to a loop's queue leaves the others in their places.
LEMMA AppendAt ==
  ASSUME NEW s \in Seq(Queued), NEW x \in Queued
  PROVE  \A i \in DOMAIN Append(s, x) :
           Append(s, x)[i] = x \/ (i \in DOMAIN s /\ Append(s, x)[i] = s[i])
  OBVIOUS

\* What a filter queues is an event with the descriptor and token it is for.
LEMMA QueuedType ==
  ASSUME NEW ev \in Events, NEW fd \in Fds, NEW t \in Nat, NEW c \in Conns
  PROVE  [event |-> ev, fd |-> fd, token |-> t, for |-> c] \in Queued
BY Zenon DEF Queued

\* So is every event that waits for a loop.
LEMMA QueuedStep ==
  TypeOK /\ Owner /\ Control /\ Tagged /\ [Next]_vars
    => (\A k \in Loops, q \in Queued : \A i \in DOMAIN event_queues_[k] :
     event_queues_[k][i] = q => GoodQueued(k, q))'
<1> SUFFICES ASSUME TypeOK, Owner, Control, Tagged, [Next]_vars
             PROVE  (\A k \in Loops, q \in Queued : \A i \in DOMAIN event_queues_[k] :
     event_queues_[k][i] = q => GoodQueued(k, q))'
  BY Zenon
<1>1. \/ UNCHANGED event_queues_
      \/ \E l \in Loops : DropEvent(l)
      \/ \E l \in Loops : QueueEvent(l)
      \/ \E w \in Workers : RunFilter(w)
  BY Zenon, WhoChanges
<1>2. ASSUME NEW l \in Loops, DropEvent(l)
      PROVE  (\A k \in Loops, q \in Queued : \A i \in DOMAIN event_queues_[k] :
     event_queues_[k][i] = q => GoodQueued(k, q))'
  <2>1. event_queues_[l] \in Seq(Queued) /\ event_queues_[l] # <<>>
    BY Zenon, <1>2 DEF DropEvent, TypeOK
  <2>2. \A i \in DOMAIN Tail(event_queues_[l]) :
          /\ i + 1 \in DOMAIN event_queues_[l]
          /\ Tail(event_queues_[l])[i] = event_queues_[l][i + 1]
    BY Zenon, <2>1, TailParts
  <2>3. /\ event_queues_'[l] = Tail(event_queues_[l])
        /\ \A k \in Loops : k # l => event_queues_'[k] = event_queues_[k]
    BY Zenon, <1>2 DEF DropEvent, TypeOK
  <2>4. \A k \in Loops : \A i \in DOMAIN event_queues_'[k] : \E j \in DOMAIN event_queues_[k] :
          event_queues_'[k][i] = event_queues_[k][j]
    <3>1. \A i \in DOMAIN event_queues_'[l] : \E j \in DOMAIN event_queues_[l] :
            event_queues_'[l][i] = event_queues_[l][j]
      BY Zenon, <2>2, <2>3
    <3>2. \A k \in Loops : k # l => event_queues_'[k] = event_queues_[k]
      BY Zenon, <2>3
    <3> QED
      BY Zenon, <3>1, <3>2
  <2> QED
    BY <2>4, QueuedKept DEF Tagged
<1>3. ASSUME NEW l \in Loops, QueueEvent(l)
      PROVE  (\A k \in Loops, q \in Queued : \A i \in DOMAIN event_queues_[k] :
     event_queues_[k][i] = q => GoodQueued(k, q))'
  <2>0. /\ event_queues_ \in [Loops -> Seq(Queued)] /\ event_queues_[l] # <<>>
        /\ event_queues_' = [event_queues_ EXCEPT ![l] = Tail(@)]
    BY Zenon, <1>3 DEF QueueEvent, TypeOK
  <2>1. event_queues_[l] \in Seq(Queued) /\ event_queues_[l] # <<>>
    BY Zenon, <2>0
  <2>2. \A i \in DOMAIN Tail(event_queues_[l]) :
          /\ i + 1 \in DOMAIN event_queues_[l]
          /\ Tail(event_queues_[l])[i] = event_queues_[l][i + 1]
    BY Zenon, <2>1, TailParts
  <2>3. /\ event_queues_'[l] = Tail(event_queues_[l])
        /\ \A k \in Loops : k # l => event_queues_'[k] = event_queues_[k]
    BY Zenon, <2>0
  <2>4. \A k \in Loops : \A i \in DOMAIN event_queues_'[k] : \E j \in DOMAIN event_queues_[k] :
          event_queues_'[k][i] = event_queues_[k][j]
    BY Zenon, <2>2, <2>3
  <2> QED
    BY <2>4, QueuedKept DEF Tagged
<1>4. ASSUME NEW w \in Workers, RunFilter(w)
      PROVE  (\A k \in Loops, q \in Queued : \A i \in DOMAIN event_queues_[k] :
     event_queues_[k][i] = q => GoodQueued(k, q))'
  <2>1. PICK f \in todo[w] :
          \/ /\ f.set
             /\ event_queues_' = [event_queues_ EXCEPT ![f.loop] =
                  Append(@, [event |-> e[w], fd |-> f.fd, token |-> f.token, for |-> f.for])]
          \/ event_queues_' = event_queues_
    BY Zenon, <1>4 DEF RunFilter
  <2>2. f \in Filter /\ GoodFilter(f)
    BY Zenon DEF Tagged, TypeOK
  <2>3. CASE event_queues_' = event_queues_
    BY Zenon, <2>3, QueuedKept DEF Tagged
  <2>4. CASE /\ f.set
             /\ event_queues_' = [event_queues_ EXCEPT ![f.loop] =
                  Append(@, [event |-> e[w], fd |-> f.fd, token |-> f.token, for |-> f.for])]
    <3> DEFINE item == [event |-> e[w], fd |-> f.fd, token |-> f.token, for |-> f.for]
    <3>0. e[w] \in Events
      BY SMTT(30), <1>4 DEF RunFilter, WorkerAt, Control, TypeOK, Events
    <3>1. f.loop \in Loops /\ f.fd \in Fds /\ f.token \in Nat /\ f.for \in Conns
      BY Zenon, <2>2 DEF Filter
    <3>2. item \in Queued
      BY Zenon, <3>0, <3>1, QueuedType
    <3>3. GoodQueued(f.loop, item)
      BY ZenonT(60), <2>2, <2>4 DEF GoodFilter, GoodQueued, Good
    <3> HIDE DEF item
    <3>5. /\ event_queues_'[f.loop] = Append(event_queues_[f.loop], item)
          /\ \A k \in Loops : k # f.loop => event_queues_'[k] = event_queues_[k]
      BY Zenon, <2>4, <3>1 DEF TypeOK, item
    <3>4. event_queues_[f.loop] \in Seq(Queued)
      BY Zenon, <3>1 DEF TypeOK
    <3>6. \A i \in DOMAIN Append(event_queues_[f.loop], item) :
            \/ Append(event_queues_[f.loop], item)[i] = item
            \/ /\ i \in DOMAIN event_queues_[f.loop]
               /\ Append(event_queues_[f.loop], item)[i] = event_queues_[f.loop][i]
      BY Zenon, <3>4, <3>2, AppendAt
    <3>7. \A k \in Loops : \A i \in DOMAIN event_queues_'[k] :
            \/ k = f.loop /\ event_queues_'[k][i] = item
            \/ \E j \in DOMAIN event_queues_[k] : event_queues_'[k][i] = event_queues_[k][j]
      BY Zenon, <3>5, <3>6
    <3> QED
      BY <3>2, <3>3, <3>7, QueuedKept DEF Tagged
  <2> QED
    BY Zenon, <2>1, <2>3, <2>4
<1>5. CASE UNCHANGED event_queues_
  BY ZenonT(60), <1>5, QueuedKept DEF Tagged
<1> QED
  BY Zenon, <1>1, <1>2, <1>3, <1>4, <1>5

\* Whatever carries a token keeps its meaning.
LEMMA TaggedStep ==
  TypeOK /\ Owner /\ Control /\ Tagged /\ [Next]_vars => Tagged'
  BY Zenon, TokensStep, FiltersStep, CopiesStep, QueuedStep DEF Tagged

-----------------------------------------------------------------------------
(* Frames.                                                                  *)

\* Frames made from events for connection c.
EventFrames(q, c) == \A i \in DOMAIN q : q[i].for = c /\ IsEvent(q[i])

\* A flush keeps the frames of the buffer, and adds frames of the queue after
\* them, up to the capacity.
LEMMA FlushFrames ==
  ASSUME NEW q \in Seq(Frame), NEW buffer \in Seq(Frame), NEW c, EventFrames(q, c),
         Len(buffer) <= BufCap
  PROVE  /\ Flushed(q, buffer) \in Seq(Frame) /\ Unflushed(q, buffer) \in Seq(Frame)
         /\ Len(Flushed(q, buffer)) \in Len(buffer)..BufCap
         /\ Flushed(q, buffer) = <<>> => buffer = <<>>
         /\ \A i \in DOMAIN Flushed(q, buffer) :
              \/ i \in DOMAIN buffer /\ Flushed(q, buffer)[i] = buffer[i]
              \/ /\ i \in Nat /\ i > Len(buffer)
                 /\ Flushed(q, buffer)[i].for = c /\ IsEvent(Flushed(q, buffer)[i])
         /\ EventFrames(Unflushed(q, buffer), c)
<1> DEFINE n == Fits(q, buffer)
           f == Flushed(q, buffer)
           u == Unflushed(q, buffer)
<1>1. n \in 0..Len(q) /\ n <= BufCap - Len(buffer)
  BY WebsocketAssumption DEF Fits
<1>2. /\ f \in Seq(Frame) /\ u \in Seq(Frame)
      /\ Len(f) = Len(buffer) + n
      /\ \A i \in 1..Len(buffer) : f[i] = buffer[i]
      /\ \A i \in 1..n : f[Len(buffer) + i] = q[i]
      /\ Len(u) = Len(q) - n
      /\ \A i \in 1..Len(u) : u[i] = q[n + i]
  <2> HIDE DEF n, f, u
  <2>1. n = Fits(q, buffer) /\ f = Flushed(q, buffer) /\ u = Unflushed(q, buffer)
    BY Zenon DEF n, f, u
  <2> QED
    BY ZenonT(60), <2>1, FlushParts
<1> HIDE DEF n, f, u
<1>3. Len(buffer) \in Nat /\ Len(q) \in Nat /\ BufCap \in Nat
  BY WebsocketAssumption
<1>4. ASSUME NEW i \in DOMAIN f
      PROVE  \/ i \in DOMAIN buffer /\ f[i] = buffer[i]
             \/ i \in Nat /\ i > Len(buffer) /\ f[i].for = c /\ IsEvent(f[i])
  <2>1. i \in 1..Len(f)
    BY <1>2
  <2>2. CASE i <= Len(buffer)
    BY <2>1, <2>2, <1>2, <1>3
  <2>3. CASE i > Len(buffer)
    <3>1. PICK k \in 1..n : i = Len(buffer) + k
      <4>1. i - Len(buffer) \in 1..n /\ i = Len(buffer) + (i - Len(buffer))
        BY <2>1, <2>3, <1>1, <1>2, <1>3
      <4> QED
        BY Zenon, <4>1
    <3>2. f[i] = q[k] /\ k \in DOMAIN q
      BY <3>1, <1>1, <1>2, <1>3
    <3> QED
      BY <2>1, <2>3, <3>2 DEF EventFrames
  <2> QED
    BY <2>1, <2>2, <2>3, <1>3
<1>5. EventFrames(u, c)
  <2>1. ASSUME NEW i \in DOMAIN u PROVE u[i].for = c /\ IsEvent(u[i])
    <3>1. i \in 1..Len(u)
      BY <1>2
    <3>2. u[i] = q[n + i]
      BY Zenon, <3>1, <1>2
    <3>3. n + i \in 1..Len(q)
      BY <3>1, <1>1, <1>2, <1>3
    <3>4. n + i \in DOMAIN q
      BY <3>3
    <3> QED
      BY Zenon, <3>2, <3>4 DEF EventFrames
  <2> QED
    BY Zenon, <2>1 DEF EventFrames
<1>6. Len(f) \in Len(buffer)..BufCap
  BY <1>1, <1>2, <1>3
<1>7. f = <<>> => buffer = <<>>
  BY <1>6, <1>3
<1> QED
  BY Zenon, <1>2, <1>4, <1>5, <1>6, <1>7 DEF f, u

\* f holds the frames of the buffer b, and after them only frames of events.
Appended(b, f) ==
  \A i \in DOMAIN f : \/ i \in DOMAIN b /\ f[i] = b[i]
                      \/ i \in Nat /\ i > Len(b) /\ IsEvent(f[i])

\* flush_queue appends to the write buffer.
LEMMA FlushAppends ==
  ASSUME NEW q \in Seq(Frame), NEW buffer \in Seq(Frame), NEW c, EventFrames(q, c),
         Len(buffer) <= BufCap
  PROVE  Appended(buffer, Flushed(q, buffer))
<1>1. \A i \in DOMAIN Flushed(q, buffer) :
        \/ i \in DOMAIN buffer /\ Flushed(q, buffer)[i] = buffer[i]
        \/ /\ i \in Nat /\ i > Len(buffer)
           /\ Flushed(q, buffer)[i].for = c /\ IsEvent(Flushed(q, buffer)[i])
  BY ZenonT(40), FlushFrames
<1> DEFINE f == Flushed(q, buffer)
<1>2. ASSUME NEW i \in DOMAIN f
      PROVE  \/ i \in DOMAIN buffer /\ f[i] = buffer[i]
             \/ i \in Nat /\ i > Len(buffer) /\ IsEvent(f[i])
  BY Zenon, <1>1
<1> HIDE DEF f
<1>3. Appended(buffer, f)
  BY Zenon, <1>2 DEF Appended
<1> QED
  BY Zenon, <1>3 DEF f

\* on_async_signal queues an event for a subscriber it was selected for.
LEMMA QueueEventAt ==
  ASSUME TypeOK, Owner, Tagged, Framed, Buffers, NEW l \in Loops, QueueEvent(l)
  PROVE  \E fd \in Fds, q \in Seq(Frame) :
           /\ tokens[l][fd] # 0 /\ query_fn[l][fd] /\ EventFrames(q, peer[fd])
           /\ queue' = [queue EXCEPT ![l][fd] = Unflushed(q, w_buffer[fd])]
           /\ w_buffer' = [w_buffer EXCEPT ![fd] = Flushed(q, w_buffer[fd])]
<1>1. event_queues_[l] \in Seq(Queued) /\ event_queues_[l] # <<>>
  BY Zenon DEF QueueEvent, TypeOK
<1>2. Head(event_queues_[l]) = event_queues_[l][1] /\ 1 \in DOMAIN event_queues_[l]
  BY <1>1
<1>3. PICK ev \in Queued : ev = Head(event_queues_[l])
  BY <1>1
<1>4. ev.fd \in Fds /\ ev.for \in Conns /\ ev.event \in Events /\ ev.event # 0 /\ ~(ev.event < 0)
  BY SMTT(30) DEF Queued, Events
<1>5. GoodQueued(l, ev)
  BY Zenon, <1>2, <1>3 DEF Tagged
<1>6. tokens[l][ev.fd] # 0 /\ tokens[l][ev.fd] = ev.token
  BY Zenon, <1>3 DEF QueueEvent, IsCurrent
<1>7. peer[ev.fd] = ev.for /\ query_fn[l][ev.fd]
  BY Zenon, <1>5, <1>6 DEF GoodQueued, Good
<1> DEFINE q == Append(queue[l][ev.fd], FrameFor(ev.event, ev.for))
<1>8. q \in Seq(Frame) /\ EventFrames(q, peer[ev.fd])
  <2>1. FrameFor(ev.event, ev.for) \in Frame
    BY <1>4, WebsocketAssumption DEF Frame, FrameFor, Events
  <2>2. FrameFor(ev.event, ev.for).for = peer[ev.fd] /\ IsEvent(FrameFor(ev.event, ev.for))
    BY Zenon, <1>4, <1>7 DEF FrameFor, IsEvent, Again
  <2>3. queue[l][ev.fd] \in Seq(Frame) /\ EventFrames(queue[l][ev.fd], peer[ev.fd])
    BY ZenonT(60), <1>4 DEF TypeOK, Framed, EventFrames
  <2> HIDE DEF FrameFor
  <2> QED
    BY <2>1, <2>2, <2>3 DEF EventFrames
<1>9. /\ queue' = [queue EXCEPT ![l][ev.fd] = Unflushed(q, w_buffer[ev.fd])]
      /\ w_buffer' = [w_buffer EXCEPT ![ev.fd] = Flushed(q, w_buffer[ev.fd])]
  BY Zenon, <1>3 DEF QueueEvent
<1> QED
  BY ZenonT(60), <1>4, <1>6, <1>7, <1>8, <1>9

\* The frames of an index snapshot are events of the subscriber they are for.
LEMMA SnapshotFrames ==
  ASSUME NEW n \in Nat, NEW events \in [1..n -> Events], NEW c \in Conns
  PROVE  /\ SnapshotOf(n, events, c) \in Seq(Frame)
         /\ EventFrames(SnapshotOf(n, events, c), c)
BY SnapshotType DEF EventFrames

\* handle_ws_init queues frames for the new subscriber after the response.
LEMMA HandleWsInitAt ==
  ASSUME TypeOK, Owner, NEW l \in Loops, NEW fd \in Fds, HandleWsInit(l, fd)
  PROVE  /\ peer[fd] \in Conns
         /\ <<FrameFor(0, peer[fd])>> \in Seq(Frame) /\ Len(<<FrameFor(0, peer[fd])>>) <= BufCap
         /\ \E q \in Seq(Frame) :
              /\ EventFrames(q, peer[fd])
              /\ queue' = [queue EXCEPT ![l][fd] = Unflushed(q, <<FrameFor(0, peer[fd])>>)]
              /\ w_buffer' = [w_buffer EXCEPT ![fd] = Flushed(q, <<FrameFor(0, peer[fd])>>)]
<1>1. peer[fd] \in Conns
  BY WebsocketAssumption DEF HandleWsInit, Ready, TypeOK, Owner, Conns
<1>2. <<FrameFor(0, peer[fd])>> \in Seq(Frame) /\ Len(<<FrameFor(0, peer[fd])>>) <= BufCap
  BY <1>1, WebsocketAssumption DEF Frame, FrameFor
<1>n. PICK n \in 0..QueueCap : \E events \in [1..n -> index] :
        LET q == [i \in 1..n |-> FrameFor(events[i], peer[fd])]
            buffer == <<FrameFor(0, peer[fd])>>
        IN  /\ queue' = [queue EXCEPT ![l][fd] = Unflushed(q, buffer)]
            /\ w_buffer' = [w_buffer EXCEPT ![fd] = Flushed(q, buffer)]
  BY Zenon DEF HandleWsInit
<1>3. PICK events \in [1..n -> index] :
        LET q == [i \in 1..n |-> FrameFor(events[i], peer[fd])]
            buffer == <<FrameFor(0, peer[fd])>>
        IN  /\ queue' = [queue EXCEPT ![l][fd] = Unflushed(q, buffer)]
            /\ w_buffer' = [w_buffer EXCEPT ![fd] = Flushed(q, buffer)]
  BY Zenon, <1>n
<1>4. n \in Nat /\ events \in [1..n -> Events]
  BY SMTT(30), <1>3, WebsocketAssumption DEF TypeOK
<1>5. /\ SnapshotOf(n, events, peer[fd]) \in Seq(Frame)
      /\ EventFrames(SnapshotOf(n, events, peer[fd]), peer[fd])
  BY Zenon, <1>1, <1>4, SnapshotFrames
<1> QED
  BY Zenon, <1>1, <1>2, <1>3, <1>5 DEF SnapshotOf

\* A further header adds its response to the end of the buffer.
LEMMA HeaderAgainAt ==
  ASSUME TypeOK, Owner, NEW l \in Loops, NEW fd \in Fds, HeaderAgain(l, fd)
  PROVE  /\ peer[fd] \in Conns /\ tokens[l][fd] # 0 /\ query_fn[l][fd]
         /\ UNCHANGED <<peer, accepted, new_fds_, adding, tokens, query_fn, queue, sent>>
         /\ w_buffer[fd] \in Seq(Frame) /\ Len(w_buffer[fd]) < BufCap
         /\ repeats[peer[fd]] \in Nat
         /\ repeats' = [repeats EXCEPT ![peer[fd]] = repeats[peer[fd]] + 1]
         /\ \E x \in Frame :
              /\ x.for = peer[fd] /\ x.event = -(repeats[peer[fd]] + 1) /\ x.event # 0
              /\ w_buffer' = [w_buffer EXCEPT ![fd] = Append(w_buffer[fd], x)]
<1>1. peer[fd] \in Conns
  BY WebsocketAssumption DEF HeaderAgain, Ready, TypeOK, Owner, Conns
<1>2. /\ tokens[l][fd] # 0 /\ query_fn[l][fd] /\ Len(w_buffer[fd]) < BufCap
      /\ UNCHANGED <<peer, accepted, new_fds_, adding, tokens, query_fn, queue, sent>>
      /\ repeats' = [repeats EXCEPT ![peer[fd]] = repeats[peer[fd]] + 1]
      /\ w_buffer' = [w_buffer EXCEPT ![fd] = Append(@, FrameFor(-(repeats[peer[fd]] + 1), peer[fd]))]
  BY Zenon DEF HeaderAgain, Ready, clientVars
<1>3. w_buffer[fd] \in Seq(Frame)
  BY Zenon DEF TypeOK
<1>4. repeats[peer[fd]] \in 0..MaxRepeats /\ repeats[peer[fd]] < MaxRepeats
  BY Zenon, <1>1 DEF HeaderAgain, TypeOK
<1> DEFINE n == repeats[peer[fd]]
<1> HIDE DEF n
<1>5. n \in Nat /\ -(n + 1) \in (-MaxRepeats)..MaxEvents /\ -(n + 1) # 0
  <2>1. n \in 0..MaxRepeats /\ n < MaxRepeats /\ MaxRepeats \in Nat /\ MaxEvents \in Nat
    BY Zenon, <1>4, WebsocketAssumption DEF n
  <2> QED
    BY ONLY <2>1
<1> DEFINE x == FrameFor(-(n + 1), peer[fd])
<1>6. x \in Frame /\ x.for = peer[fd] /\ x.event = -(n + 1) /\ x.event # 0
  BY Zenon, <1>1, <1>5 DEF FrameFor, Frame
<1>7. w_buffer' = [w_buffer EXCEPT ![fd] = Append(w_buffer[fd], x)]
  BY Zenon, <1>2 DEF n, TypeOK
<1> HIDE DEF x
<1>8. \E y \in Frame : /\ y.for = peer[fd] /\ y.event = -(n + 1) /\ y.event # 0
                       /\ w_buffer' = [w_buffer EXCEPT ![fd] = Append(w_buffer[fd], y)]
  BY Zenon, <1>6, <1>7
<1> QED
  BY Zenon, <1>1, <1>2, <1>3, <1>5, <1>8 DEF n

\* What write_cb leaves of a buffer w after n of its frames, and what a peer
\* that had p then has: the rest of w, and p followed by frames of w.
LEMMA WriteParts ==
  ASSUME NEW w \in Seq(Frame), NEW p \in Seq(Frame), NEW n \in 1..Len(w)
  PROVE  LET b == SubSeq(w, n + 1, Len(w))
             s == p \o SubSeq(w, 1, n)
         IN  /\ b \in Seq(Frame) /\ s \in Seq(Frame)
             /\ Len(b) <= Len(w) /\ s # <<>>
             /\ \A i \in DOMAIN b : i \in Nat /\ i > 0 /\ i + n \in DOMAIN w /\ b[i] = w[i + n]
             /\ \A i \in DOMAIN s :
                  \/ i \in DOMAIN p /\ s[i] = p[i]
                  \/ \E j \in DOMAIN w : j <= n /\ i = Len(p) + j /\ s[i] = w[j]
<1> DEFINE b == SubSeq(w, n + 1, Len(w))
           m == SubSeq(w, 1, n)
           s == p \o m
<1>4. n \in 1..Len(w) /\ Len(w) \in Nat
  OBVIOUS
<1>5. /\ b \in Seq(Frame) /\ Len(b) = Len(w) - n
      /\ \A i \in 1..Len(b) : b[i] = w[i + n]
  BY Zenon, SuffixParts
<1>6. m \in Seq(Frame) /\ Len(m) = n /\ \A i \in 1..n : m[i] = w[i]
  BY Zenon, PrefixParts
<1> HIDE DEF m
<1>7. /\ s \in Seq(Frame) /\ Len(s) = Len(p) + n
      /\ \A i \in 1..Len(p) : s[i] = p[i]
      /\ \A i \in 1..n : s[Len(p) + i] = m[i]
  BY SMTT(30), <1>4, <1>6
<1> HIDE DEF b, s
<1>9. ASSUME NEW i \in DOMAIN b
      PROVE  i \in Nat /\ i > 0 /\ i + n \in DOMAIN w /\ b[i] = w[i + n]
  <2>1. i \in 1..Len(b)
    BY <1>5
  <2>2. i \in 1..(Len(w) - n)
    BY Zenon, <2>1, <1>5
  <2>3. i \in Nat /\ i > 0 /\ i + n \in 1..Len(w)
    BY <2>2, <1>4
  <2> QED
    BY <2>1, <2>3, <1>5
<1>10. ASSUME NEW i \in DOMAIN s
       PROVE  \/ i \in DOMAIN p /\ s[i] = p[i]
              \/ \E j \in DOMAIN w : j <= n /\ i = Len(p) + j /\ s[i] = w[j]
  <2>1. \/ i \in DOMAIN p /\ s[i] = p[i]
        \/ \E j \in 1..Len(m) : i = Len(p) + j /\ s[i] = m[j]
    <3>1. m \in Seq(Frame) /\ i \in DOMAIN (p \o m)
      BY Zenon, <1>6 DEF s
    <3>2. \/ i \in DOMAIN p /\ (p \o m)[i] = p[i]
          \/ \E j \in 1..Len(m) : i = Len(p) + j /\ (p \o m)[i] = m[j]
      BY Zenon, <3>1, ConcatParts
    <3> QED
      BY Zenon, <3>2 DEF s
  <2>2. ASSUME NEW j \in 1..n, i = Len(p) + j, s[i] = m[j]
        PROVE  j \in DOMAIN w /\ j <= n /\ i = Len(p) + j /\ s[i] = w[j]
    <3>1. j \in DOMAIN w /\ j <= n
      BY <1>4
    <3> QED
      BY Zenon, <1>6, <2>2, <3>1
  <2> QED
    BY Zenon, <1>6, <2>1, <2>2
<1>11. Len(b) <= Len(w) /\ s # <<>>
  <2>1. Len(p) \in Nat /\ n \in Nat /\ n > 0 /\ Len(w) \in Nat
    BY <1>4
  <2>2. Len(b) = Len(w) - n /\ Len(s) = Len(p) + n
    BY Zenon, <1>5, <1>7
  <2>3. Len(b) <= Len(w) /\ Len(s) > 0
    BY ONLY <2>1, <2>2
  <2> QED
    BY ONLY <2>3
<1> QED
  BY Zenon, <1>5, <1>7, <1>9, <1>10, <1>11 DEF b, s, m

\* write_cb moves frames from the front of the buffer to the socket.
LEMMA WriteCbAt ==
  ASSUME TypeOK, Owner, NEW l \in Loops, NEW fd \in Fds, WriteCb(l, fd)
  PROVE  /\ peer[fd] \in Conns
         /\ \E n \in 1..Len(w_buffer[fd]) : \E b \in Seq(Frame), s \in Seq(Frame) :
              /\ w_buffer' = [w_buffer EXCEPT ![fd] = b]
              /\ sent' = [sent EXCEPT ![peer[fd]] = s]
              /\ Len(b) <= Len(w_buffer[fd]) /\ s # <<>>
              /\ \A i \in DOMAIN b : i \in Nat /\ i > 0 /\ i + n \in DOMAIN w_buffer[fd]
                                     /\ b[i] = w_buffer[fd][i + n]
              /\ \A i \in DOMAIN s :
                   \/ i \in DOMAIN sent[peer[fd]] /\ s[i] = sent[peer[fd]][i]
                   \/ \E j \in DOMAIN w_buffer[fd] :
                        j <= n /\ i = Len(sent[peer[fd]]) + j /\ s[i] = w_buffer[fd][j]
<1>1. peer[fd] \in Conns
  BY WebsocketAssumption DEF WriteCb, Ready, TypeOK, Owner, Conns
<1>2. PICK n \in 1..Len(w_buffer[fd]) :
        /\ sent' = [sent EXCEPT ![peer[fd]] = @ \o SubSeq(w_buffer[fd], 1, n)]
        /\ w_buffer' = [w_buffer EXCEPT ![fd] = SubSeq(@, n + 1, Len(@))]
  BY Zenon DEF WriteCb
<1>3. w_buffer[fd] \in Seq(Frame) /\ sent[peer[fd]] \in Seq(Frame)
  BY Zenon, <1>1 DEF TypeOK
<1>4. /\ w_buffer' = [w_buffer EXCEPT ![fd] = SubSeq(w_buffer[fd], n + 1, Len(w_buffer[fd]))]
      /\ sent' = [sent EXCEPT ![peer[fd]] = sent[peer[fd]] \o SubSeq(w_buffer[fd], 1, n)]
  BY Zenon, <1>1, <1>2 DEF TypeOK
<1> DEFINE b == SubSeq(w_buffer[fd], n + 1, Len(w_buffer[fd]))
           s == sent[peer[fd]] \o SubSeq(w_buffer[fd], 1, n)
<1>5. /\ b \in Seq(Frame) /\ s \in Seq(Frame)
      /\ Len(b) <= Len(w_buffer[fd]) /\ s # <<>>
      /\ \A i \in DOMAIN b : i \in Nat /\ i > 0 /\ i + n \in DOMAIN w_buffer[fd]
                             /\ b[i] = w_buffer[fd][i + n]
      /\ \A i \in DOMAIN s :
           \/ i \in DOMAIN sent[peer[fd]] /\ s[i] = sent[peer[fd]][i]
           \/ \E j \in DOMAIN w_buffer[fd] :
                j <= n /\ i = Len(sent[peer[fd]]) + j /\ s[i] = w_buffer[fd][j]
  BY Zenon, <1>2, <1>3, WriteParts
<1>6. w_buffer' = [w_buffer EXCEPT ![fd] = b] /\ sent' = [sent EXCEPT ![peer[fd]] = s]
  BY Zenon, <1>4
<1> HIDE DEF b, s
<1>7. \E x \in Seq(Frame), y \in Seq(Frame) :
        /\ w_buffer' = [w_buffer EXCEPT ![fd] = x]
        /\ sent' = [sent EXCEPT ![peer[fd]] = y]
        /\ Len(x) <= Len(w_buffer[fd]) /\ y # <<>>
        /\ \A i \in DOMAIN x : i \in Nat /\ i > 0 /\ i + n \in DOMAIN w_buffer[fd]
                               /\ x[i] = w_buffer[fd][i + n]
        /\ \A i \in DOMAIN y :
             \/ i \in DOMAIN sent[peer[fd]] /\ y[i] = sent[peer[fd]][i]
             \/ \E j \in DOMAIN w_buffer[fd] :
                  j <= n /\ i = Len(sent[peer[fd]]) + j /\ y[i] = w_buffer[fd][j]
  BY Zenon, <1>5, <1>6
<1> QED
  BY Zenon, <1>1, <1>7

-----------------------------------------------------------------------------
(* What the pool sends: every step keeps Framed, Greeted and Buffers, which *)
(* completes the inductive invariant, and the theorems follow from it.      *)

\* No step fills a write buffer beyond its capacity.
LEMMA BuffersStep ==
  TypeOK /\ Owner /\ Control /\ Tagged /\ Framed /\ Buffers /\ [Next]_vars => Buffers'
<1> SUFFICES ASSUME TypeOK, Owner, Control, Tagged, Framed, Buffers, [Next]_vars
             PROVE  Buffers'
  BY Zenon
<1>1. \/ UNCHANGED <<peer, tokens, query_fn, outVars, accepted, new_fds_, adding>>
      \/ \E fd \in Fds : AddClient(fd)
      \/ \E l \in Loops : AddFds(l)
      \/ \E l \in Loops : OnNewCnx(l)
      \/ \E l \in Loops : QueueEvent(l)
      \/ \E l \in Loops, fd \in Fds : CloseCnx(l, fd)
      \/ \E l \in Loops, fd \in Fds : RefuseCnx(l, fd)
      \/ \E l \in Loops, fd \in Fds : HandleWsInit(l, fd)
      \/ \E l \in Loops, fd \in Fds : WriteCb(l, fd)
      \/ \E l \in Loops, fd \in Fds : HeaderAgain(l, fd)
  BY Zenon, WhoChanges
<1>2. ASSUME NEW fd \in Fds, AddClient(fd) PROVE Buffers'
  BY Zenon, <1>2 DEF AddClient, Buffers, outVars
<1>3. ASSUME NEW l \in Loops, AddFds(l) PROVE Buffers'
  BY Zenon, <1>3 DEF AddFds, Buffers, outVars
<1>4. ASSUME NEW l \in Loops, OnNewCnx(l) PROVE Buffers'
  BY Zenon, <1>4 DEF OnNewCnx, Buffers, outVars
<1>5. ASSUME NEW l \in Loops, QueueEvent(l) PROVE Buffers'
  <2>1. PICK fd \in Fds, q \in Seq(Frame) :
          /\ EventFrames(q, peer[fd])
          /\ w_buffer' = [w_buffer EXCEPT ![fd] = Flushed(q, w_buffer[fd])]
    BY Zenon, <1>5, QueueEventAt
  <2>2. w_buffer[fd] \in Seq(Frame) /\ Len(w_buffer[fd]) <= BufCap
    BY Zenon DEF TypeOK, Buffers
  <2>3. Len(Flushed(q, w_buffer[fd])) <= BufCap
    <3>1. Len(Flushed(q, w_buffer[fd])) \in Len(w_buffer[fd])..BufCap
      BY Zenon, <2>1, <2>2, FlushFrames
    <3>2. Len(w_buffer[fd]) \in Nat /\ BufCap \in Nat
      BY <2>2, WebsocketAssumption
    <3> QED
      BY ONLY <3>1, <3>2
  <2> QED
    BY Zenon, <2>1, <2>3 DEF Buffers, TypeOK
<1>6. ASSUME NEW l \in Loops, NEW fd \in Fds, CloseCnx(l, fd) PROVE Buffers'
  <2>1. w_buffer' = [w_buffer EXCEPT ![fd] = <<>>]
    BY Zenon, <1>6 DEF CloseCnx, Erase
  <2> QED
    BY <2>1, WebsocketAssumption DEF Buffers, TypeOK
<1>7. ASSUME NEW l \in Loops, NEW fd \in Fds, RefuseCnx(l, fd) PROVE Buffers'
  <2>1. w_buffer' = [w_buffer EXCEPT ![fd] = <<>>]
    BY Zenon, <1>7 DEF RefuseCnx, Erase
  <2> QED
    BY <2>1, WebsocketAssumption DEF Buffers, TypeOK
<1>8. ASSUME NEW l \in Loops, NEW fd \in Fds, HandleWsInit(l, fd) PROVE Buffers'
  <2> DEFINE buffer == <<FrameFor(0, peer[fd])>>
  <2>1. PICK q \in Seq(Frame) :
          EventFrames(q, peer[fd]) /\ w_buffer' = [w_buffer EXCEPT ![fd] = Flushed(q, buffer)]
    BY Zenon, <1>8, HandleWsInitAt
  <2>2. buffer \in Seq(Frame) /\ Len(buffer) <= BufCap
    BY Zenon, <1>8, HandleWsInitAt
  <2> HIDE DEF buffer
  <2>3. Len(Flushed(q, buffer)) <= BufCap
    BY <2>1, <2>2, FlushFrames, WebsocketAssumption
  <2> QED
    BY Zenon, <2>1, <2>3 DEF Buffers, TypeOK
<1>9. ASSUME NEW l \in Loops, NEW fd \in Fds, WriteCb(l, fd) PROVE Buffers'
  <2>1. PICK b \in Seq(Frame) :
          w_buffer' = [w_buffer EXCEPT ![fd] = b] /\ Len(b) <= Len(w_buffer[fd])
    BY Zenon, <1>9, WriteCbAt
  <2>2. Len(b) <= BufCap
    BY <2>1, WebsocketAssumption DEF Buffers, TypeOK
  <2> QED
    BY Zenon, <2>1, <2>2 DEF Buffers, TypeOK
<1>11. ASSUME NEW l \in Loops, NEW fd \in Fds, HeaderAgain(l, fd) PROVE Buffers'
  <2>1. PICK x \in Frame : w_buffer' = [w_buffer EXCEPT ![fd] = Append(w_buffer[fd], x)]
    BY Zenon, <1>11, HeaderAgainAt
  <2>2. w_buffer[fd] \in Seq(Frame) /\ Len(w_buffer[fd]) < BufCap
    BY Zenon, <1>11, HeaderAgainAt
  <2>3. Len(Append(w_buffer[fd], x)) <= BufCap
    BY <2>2, WebsocketAssumption
  <2> QED
    BY Zenon, <2>1, <2>3 DEF Buffers, TypeOK
<1>10. CASE UNCHANGED <<peer, tokens, query_fn, outVars, accepted, new_fds_, adding>>
  BY Zenon, <1>10 DEF Buffers, outVars
<1> QED
  BY Zenon, <1>1, <1>2, <1>3, <1>4, <1>5, <1>6, <1>7, <1>8, <1>9, <1>10, <1>11

\* What waits for a descriptor is for the connection that is open on it.
LEMMA FramedStep ==
  TypeOK /\ Owner /\ Control /\ Tagged /\ Framed /\ Buffers /\ [Next]_vars => Framed'
<1> SUFFICES ASSUME TypeOK, Owner, Control, Tagged, Framed, Buffers, [Next]_vars
             PROVE  Framed'
  BY Zenon
<1>1. \/ UNCHANGED <<peer, tokens, query_fn, outVars, accepted, new_fds_, adding>>
      \/ \E fd \in Fds : AddClient(fd)
      \/ \E l \in Loops : AddFds(l)
      \/ \E l \in Loops : OnNewCnx(l)
      \/ \E l \in Loops : QueueEvent(l)
      \/ \E l \in Loops, fd \in Fds : CloseCnx(l, fd)
      \/ \E l \in Loops, fd \in Fds : RefuseCnx(l, fd)
      \/ \E l \in Loops, fd \in Fds : HandleWsInit(l, fd)
      \/ \E l \in Loops, fd \in Fds : WriteCb(l, fd)
      \/ \E l \in Loops, fd \in Fds : HeaderAgain(l, fd)
  BY Zenon, WhoChanges
<1>2. ASSUME NEW fd \in Fds, AddClient(fd) PROVE Framed'
  <2>1. UNCHANGED <<tokens, query_fn, queue, w_buffer, sent>> /\ peer[fd] = 0
    BY Zenon, <1>2 DEF AddClient, outVars
  <2>2. \A x \in Fds : x # fd => peer'[x] = peer[x]
    BY Zenon, <1>2 DEF AddClient, TypeOK
  <2>3. \A k \in Loops : tokens[k][fd] = 0
    BY Zenon, <2>1 DEF Owner
  <2>4. w_buffer[fd] = <<>> /\ \A k \in Loops : queue[k][fd] = <<>>
    BY Zenon, <2>3 DEF Framed
  <2>5. DOMAIN w_buffer[fd] = {} /\ \A k \in Loops : DOMAIN queue[k][fd] = {}
    BY <2>4
  <2> QED
    BY Zenon, <2>1, <2>2, <2>4, <2>5 DEF Framed, RightPeer
<1>3. ASSUME NEW l \in Loops, AddFds(l) PROVE Framed'
  <2>1. UNCHANGED <<peer, tokens, query_fn, queue, w_buffer, sent>>
    BY Zenon, <1>3 DEF AddFds, outVars
  <2> QED
    BY Zenon, <2>1 DEF Framed, RightPeer
<1>4. ASSUME NEW l \in Loops, OnNewCnx(l) PROVE Framed'
  <2>1. UNCHANGED <<peer, query_fn, queue, w_buffer, sent>>
    BY Zenon, <1>4 DEF OnNewCnx, outVars
  <2>2. \A k \in Loops, x \in Fds : tokens'[k][x] = 0 => tokens[k][x] = 0
    <3>1. at_fd[l] \in Fds /\ \A k \in Loops : tokens[k][at_fd[l]] = 0
      BY Zenon, <1>4 DEF OnNewCnx, LoopAt, Control, Owner, Pending, TypeOK
    <3> QED
      BY Zenon, <1>4, <3>1 DEF OnNewCnx, TypeOK
  <2> QED
    BY Zenon, <2>1, <2>2 DEF Framed, RightPeer
<1>5. ASSUME NEW l \in Loops, QueueEvent(l) PROVE Framed'
  <2>1. PICK fd \in Fds, q \in Seq(Frame) :
          /\ tokens[l][fd] # 0 /\ query_fn[l][fd] /\ EventFrames(q, peer[fd])
          /\ queue' = [queue EXCEPT ![l][fd] = Unflushed(q, w_buffer[fd])]
          /\ w_buffer' = [w_buffer EXCEPT ![fd] = Flushed(q, w_buffer[fd])]
    BY Zenon, <1>5, QueueEventAt
  <2>2. UNCHANGED <<peer, tokens, query_fn, sent>>
    BY Zenon, <1>5 DEF QueueEvent, clientVars
  <2>3. w_buffer[fd] \in Seq(Frame) /\ Len(w_buffer[fd]) <= BufCap
    BY Zenon DEF TypeOK, Buffers
  <2> DEFINE f == Flushed(q, w_buffer[fd])
             u == Unflushed(q, w_buffer[fd])
  <2>4. /\ \A i \in DOMAIN f : f[i].for = peer[fd]
        /\ EventFrames(u, peer[fd])
    BY <2>1, <2>3, FlushFrames DEF Framed
  <2>5. \A x \in Fds : w_buffer'[x] = IF x = fd THEN f ELSE w_buffer[x]
    BY Zenon, <2>1 DEF TypeOK
  <2>6. \A k \in Loops, x \in Fds : queue'[k][x] = IF k = l /\ x = fd THEN u ELSE queue[k][x]
    BY Zenon, <2>1 DEF TypeOK
  <2> HIDE DEF f, u
  <2> QED
    BY <2>1, <2>2, <2>4, <2>5, <2>6 DEF Framed, RightPeer, EventFrames
<1>6. ASSUME NEW l \in Loops, NEW fd \in Fds, CloseCnx(l, fd) PROVE Framed'
  <2>1. tokens[l][fd] # 0 /\ Erase(l, fd) /\ sent' = sent
    BY Zenon, <1>6 DEF CloseCnx, Ready
  <2>2. /\ \A x \in Fds : x # fd => peer'[x] = peer[x] /\ w_buffer'[x] = w_buffer[x]
        /\ w_buffer'[fd] = <<>>
    BY Zenon, <2>1 DEF Erase, TypeOK
  <2>3. \A k \in Loops : tokens'[k][fd] = 0 /\ queue'[k][fd] = <<>> /\ ~query_fn'[k][fd]
    <3>1. \A k \in Loops : k # l => tokens[k][fd] = 0
      BY Zenon, <2>1 DEF Owner
    <3>2. \A k \in Loops : k # l => queue[k][fd] = <<>> /\ ~query_fn[k][fd]
      BY Zenon, <3>1 DEF Framed
    <3>3. \A k \in Loops : k # l => /\ tokens'[k][fd] = tokens[k][fd] /\ queue'[k][fd] = queue[k][fd]
                                    /\ query_fn'[k][fd] = query_fn[k][fd]
      BY SMTT(30), <2>1 DEF Erase, TypeOK
    <3>4. tokens'[l][fd] = 0 /\ queue'[l][fd] = <<>> /\ ~query_fn'[l][fd]
      BY SMTT(30), <2>1 DEF Erase, TypeOK
    <3> QED
      BY Zenon, <3>1, <3>2, <3>3, <3>4
  <2>4. \A k \in Loops, x \in Fds : x # fd =>
          tokens'[k][x] = tokens[k][x] /\ queue'[k][x] = queue[k][x] /\ query_fn'[k][x] = query_fn[k][x]
    BY Zenon, <2>1 DEF Erase, TypeOK
  <2>5. DOMAIN w_buffer'[fd] = {} /\ \A k \in Loops : DOMAIN queue'[k][fd] = {}
    <3>1. DOMAIN <<>> = {}
      OBVIOUS
    <3> QED
      BY Zenon, <2>2, <2>3, <3>1
  <2> QED
    BY <2>1, <2>2, <2>3, <2>4, <2>5 DEF Framed, RightPeer
<1>7. ASSUME NEW l \in Loops, NEW fd \in Fds, RefuseCnx(l, fd) PROVE Framed'
  <2>1. tokens[l][fd] # 0 /\ Erase(l, fd) /\ sent' = sent
    BY Zenon, <1>7 DEF RefuseCnx, Ready
  <2>2. /\ \A x \in Fds : x # fd => peer'[x] = peer[x] /\ w_buffer'[x] = w_buffer[x]
        /\ w_buffer'[fd] = <<>>
    BY Zenon, <2>1 DEF Erase, TypeOK
  <2>3. \A k \in Loops : tokens'[k][fd] = 0 /\ queue'[k][fd] = <<>> /\ ~query_fn'[k][fd]
    <3>1. \A k \in Loops : k # l => tokens[k][fd] = 0
      BY Zenon, <2>1 DEF Owner
    <3>2. \A k \in Loops : k # l => queue[k][fd] = <<>> /\ ~query_fn[k][fd]
      BY Zenon, <3>1 DEF Framed
    <3>3. \A k \in Loops : k # l => /\ tokens'[k][fd] = tokens[k][fd] /\ queue'[k][fd] = queue[k][fd]
                                    /\ query_fn'[k][fd] = query_fn[k][fd]
      BY SMTT(30), <2>1 DEF Erase, TypeOK
    <3>4. tokens'[l][fd] = 0 /\ queue'[l][fd] = <<>> /\ ~query_fn'[l][fd]
      BY SMTT(30), <2>1 DEF Erase, TypeOK
    <3> QED
      BY Zenon, <3>1, <3>2, <3>3, <3>4
  <2>4. \A k \in Loops, x \in Fds : x # fd =>
          tokens'[k][x] = tokens[k][x] /\ queue'[k][x] = queue[k][x] /\ query_fn'[k][x] = query_fn[k][x]
    BY Zenon, <2>1 DEF Erase, TypeOK
  <2>5. DOMAIN w_buffer'[fd] = {} /\ \A k \in Loops : DOMAIN queue'[k][fd] = {}
    <3>1. DOMAIN <<>> = {}
      OBVIOUS
    <3> QED
      BY Zenon, <2>2, <2>3, <3>1
  <2> QED
    BY <2>1, <2>2, <2>3, <2>4, <2>5 DEF Framed, RightPeer
<1>8. ASSUME NEW l \in Loops, NEW fd \in Fds, HandleWsInit(l, fd) PROVE Framed'
  <2> DEFINE buffer == <<FrameFor(0, peer[fd])>>
  <2>1. PICK q \in Seq(Frame) :
          /\ EventFrames(q, peer[fd])
          /\ queue' = [queue EXCEPT ![l][fd] = Unflushed(q, buffer)]
          /\ w_buffer' = [w_buffer EXCEPT ![fd] = Flushed(q, buffer)]
    BY Zenon, <1>8, HandleWsInitAt
  <2>2. /\ buffer \in Seq(Frame) /\ Len(buffer) <= BufCap
        /\ \A i \in DOMAIN buffer : buffer[i].for = peer[fd]
    BY <1>8, HandleWsInitAt DEF FrameFor
  <2>3. UNCHANGED <<peer, tokens, sent>> /\ tokens[l][fd] # 0
    BY Zenon, <1>8 DEF HandleWsInit, Ready
  <2>4. \A k \in Loops, x \in Fds : k # l \/ x # fd => query_fn'[k][x] = query_fn[k][x]
    BY ZenonT(60), <1>8 DEF HandleWsInit, TypeOK
  <2> HIDE DEF buffer
  <2> DEFINE f == Flushed(q, buffer)
             u == Unflushed(q, buffer)
  <2>5. /\ \A i \in DOMAIN f : f[i].for = peer[fd]
        /\ EventFrames(u, peer[fd])
    BY <2>1, <2>2, FlushFrames
  <2>6. \A x \in Fds : w_buffer'[x] = IF x = fd THEN f ELSE w_buffer[x]
    BY Zenon, <2>1 DEF TypeOK
  <2>7. \A k \in Loops, x \in Fds : queue'[k][x] = IF k = l /\ x = fd THEN u ELSE queue[k][x]
    BY Zenon, <2>1 DEF TypeOK
  <2> HIDE DEF f, u
  <2>8. \A k \in Loops, x \in Fds : tokens'[k][x] = 0 => queue'[k][x] = <<>> /\ ~query_fn'[k][x]
    BY SMTT(30), <2>3, <2>4, <2>7 DEF Framed
  <2>9. \A x \in Fds : (\A k \in Loops : tokens'[k][x] = 0) => w_buffer'[x] = <<>>
    BY Zenon, <2>3, <2>6 DEF Framed
  <2>10. \A k \in Loops, x \in Fds : \A i \in DOMAIN queue'[k][x] :
           queue'[k][x][i].for = peer'[x] /\ IsEvent(queue'[k][x][i])
    <3> SUFFICES ASSUME NEW k \in Loops, NEW x \in Fds, NEW i \in DOMAIN queue'[k][x]
                 PROVE  queue'[k][x][i].for = peer[x] /\ IsEvent(queue'[k][x][i])
      BY Zenon, <2>3
    <3>1. CASE k = l /\ x = fd
      BY Zenon, <2>5, <2>7, <3>1 DEF EventFrames
    <3>2. CASE ~(k = l /\ x = fd)
      <4>1. queue'[k][x] = queue[k][x]
        BY Zenon, <2>7, <3>2
      <4>2. \A j \in DOMAIN queue[k][x] : queue[k][x][j].for = peer[x] /\ IsEvent(queue[k][x][j])
        BY Zenon DEF Framed
      <4> QED
        BY Zenon, <4>1, <4>2
    <3> QED
      BY Zenon, <3>1, <3>2
  <2>11. \A x \in Fds : \A i \in DOMAIN w_buffer'[x] : w_buffer'[x][i].for = peer'[x]
    BY Zenon, <2>3, <2>5, <2>6 DEF Framed
  <2> QED
    BY Zenon, <2>3, <2>8, <2>9, <2>10, <2>11 DEF Framed, RightPeer
<1>9. ASSUME NEW l \in Loops, NEW fd \in Fds, WriteCb(l, fd) PROVE Framed'
  <2>1. UNCHANGED <<peer, tokens, query_fn, queue>> /\ tokens[l][fd] # 0
    BY Zenon, <1>9 DEF WriteCb, Ready, clientVars
  <2>0. PICK n \in 1..Len(w_buffer[fd]) : \E b \in Seq(Frame), s \in Seq(Frame) :
          /\ w_buffer' = [w_buffer EXCEPT ![fd] = b]
          /\ sent' = [sent EXCEPT ![peer[fd]] = s]
          /\ Len(b) <= Len(w_buffer[fd]) /\ s # <<>>
          /\ \A i \in DOMAIN b : i \in Nat /\ i > 0 /\ i + n \in DOMAIN w_buffer[fd]
                                 /\ b[i] = w_buffer[fd][i + n]
          /\ \A i \in DOMAIN s :
               \/ i \in DOMAIN sent[peer[fd]] /\ s[i] = sent[peer[fd]][i]
               \/ \E j \in DOMAIN w_buffer[fd] :
                    j <= n /\ i = Len(sent[peer[fd]]) + j /\ s[i] = w_buffer[fd][j]
    BY ZenonT(60), <1>9, WriteCbAt
  <2>2. PICK b \in Seq(Frame), s \in Seq(Frame) :
          /\ w_buffer' = [w_buffer EXCEPT ![fd] = b]
          /\ sent' = [sent EXCEPT ![peer[fd]] = s]
          /\ Len(b) <= Len(w_buffer[fd]) /\ s # <<>>
          /\ \A i \in DOMAIN b : i \in Nat /\ i > 0 /\ i + n \in DOMAIN w_buffer[fd]
                                 /\ b[i] = w_buffer[fd][i + n]
          /\ \A i \in DOMAIN s :
               \/ i \in DOMAIN sent[peer[fd]] /\ s[i] = sent[peer[fd]][i]
               \/ \E j \in DOMAIN w_buffer[fd] :
                    j <= n /\ i = Len(sent[peer[fd]]) + j /\ s[i] = w_buffer[fd][j]
    BY Zenon, <2>0
  <2>3. peer[fd] \in Conns
    BY Zenon, <1>9, WriteCbAt
  <2>4. /\ \A i \in DOMAIN b : b[i].for = peer[fd]
        /\ \A i \in DOMAIN s : s[i].for = peer[fd]
    <3>1. \A i \in DOMAIN w_buffer[fd] : w_buffer[fd][i].for = peer[fd]
      BY Zenon DEF Framed
    <3>2. \A i \in DOMAIN sent[peer[fd]] : sent[peer[fd]][i].for = peer[fd]
      BY Zenon, <2>3 DEF Framed, RightPeer
    <3>3. \A i \in DOMAIN b : b[i].for = peer[fd]
      BY SMTT(30), <2>2, <3>1
    <3>4. \A i \in DOMAIN s : s[i].for = peer[fd]
      BY SMTT(30), <2>2, <3>1, <3>2
    <3> QED
      BY Zenon, <3>3, <3>4
  <2>5. \A x \in Fds : w_buffer'[x] = IF x = fd THEN b ELSE w_buffer[x]
    BY Zenon, <2>2 DEF TypeOK
  <2>6. \A c \in Conns : sent'[c] = IF c = peer[fd] THEN s ELSE sent[c]
    BY Zenon, <2>2 DEF TypeOK
  <2> QED
    BY SMTT(30), <2>1, <2>4, <2>5, <2>6 DEF Framed, RightPeer
<1>11. ASSUME NEW l \in Loops, NEW fd \in Fds, HeaderAgain(l, fd) PROVE Framed'
  <2>1. PICK x \in Frame : /\ x.for = peer[fd]
                           /\ w_buffer' = [w_buffer EXCEPT ![fd] = Append(w_buffer[fd], x)]
    BY Zenon, <1>11, HeaderAgainAt
  <2>2. /\ UNCHANGED <<peer, tokens, query_fn, queue, sent>> /\ tokens[l][fd] # 0
        /\ w_buffer[fd] \in Seq(Frame)
    BY Zenon, <1>11, HeaderAgainAt
  <2> DEFINE f == Append(w_buffer[fd], x)
  <2>3. \A i \in DOMAIN f : f[i].for = peer[fd]
    <3>1. \A i \in DOMAIN f : f[i] = x \/ (i \in DOMAIN w_buffer[fd] /\ f[i] = w_buffer[fd][i])
      BY <2>2
    <3> QED
      BY Zenon, <2>1, <3>1 DEF Framed
  <2> HIDE DEF f
  <2>4. \A y \in Fds : w_buffer'[y] = IF y = fd THEN f ELSE w_buffer[y]
    BY Zenon, <2>1 DEF TypeOK, f
  <2>5. \A y \in Fds : (\A k \in Loops : tokens'[k][y] = 0) => w_buffer'[y] = <<>>
    BY Zenon, <2>2, <2>4 DEF Framed
  <2>6. \A y \in Fds : \A i \in DOMAIN w_buffer'[y] : w_buffer'[y][i].for = peer'[y]
    BY Zenon, <2>2, <2>3, <2>4 DEF Framed
  <2> QED
    BY Zenon, <2>2, <2>5, <2>6 DEF Framed, RightPeer
<1>10. CASE UNCHANGED <<peer, tokens, query_fn, outVars, accepted, new_fds_, adding>>
  BY Zenon, <1>10 DEF Framed, RightPeer, outVars
<1> QED
  BY Zenon, <1>1, <1>2, <1>3, <1>4, <1>5, <1>6, <1>7, <1>8, <1>9, <1>10, <1>11

\* The response stays ahead of the events.
LEMMA GreetedStep ==
  TypeOK /\ Owner /\ Control /\ Tagged /\ Framed /\ Buffers /\ Greeted /\ [Next]_vars => Greeted'
<1> SUFFICES ASSUME TypeOK, Owner, Control, Tagged, Framed, Buffers, Greeted, [Next]_vars
             PROVE  Greeted'
  BY Zenon
<1>0. ResponseAhead /\ QueryAnswered /\ PendingSilent /\ LaterSilent /\ ResponseFirst
  BY Zenon DEF Greeted
<1>1. \/ UNCHANGED <<peer, tokens, query_fn, outVars, accepted, new_fds_, adding>>
      \/ \E fd \in Fds : AddClient(fd)
      \/ \E l \in Loops : AddFds(l)
      \/ \E l \in Loops : OnNewCnx(l)
      \/ \E l \in Loops : QueueEvent(l)
      \/ \E l \in Loops, fd \in Fds : CloseCnx(l, fd)
      \/ \E l \in Loops, fd \in Fds : RefuseCnx(l, fd)
      \/ \E l \in Loops, fd \in Fds : HandleWsInit(l, fd)
      \/ \E l \in Loops, fd \in Fds : WriteCb(l, fd)
      \/ \E l \in Loops, fd \in Fds : HeaderAgain(l, fd)
  BY Zenon, WhoChanges
<1>2. ASSUME NEW fd \in Fds, AddClient(fd) PROVE Greeted'
  <2>0. UNCHANGED <<tokens, query_fn, w_buffer, sent, adding>> /\ peer[fd] = 0
    BY Zenon, <1>2 DEF AddClient, outVars
  <2>a. accepted' = accepted + 1 /\ accepted \in Nat /\ accepted + 1 \in Conns
    BY <1>2, WebsocketAssumption DEF AddClient, TypeOK, Conns
  <2>b. accepted + 1 > accepted
    BY <2>a
  <2>1. /\ UNCHANGED <<tokens, query_fn, w_buffer, sent, adding>> /\ peer[fd] = 0
        /\ accepted' = accepted + 1 /\ accepted + 1 \in Conns
        /\ sent[accepted + 1] = <<>>
    BY Zenon, <1>0, <2>0, <2>a, <2>b DEF LaterSilent
  <2>2. peer'[fd] = accepted + 1 /\ \A x \in Fds : x # fd => peer'[x] = peer[x]
    BY Zenon, <1>2 DEF AddClient, TypeOK
  <2>3. \A k \in Loops : tokens[k][fd] = 0
    BY Zenon, <2>1 DEF Owner
  <2>4. w_buffer[fd] = <<>> /\ DOMAIN w_buffer[fd] = {}
    <3>1. w_buffer[fd] = <<>>
      BY Zenon, <2>3 DEF Framed
    <3> QED
      BY <3>1
  <2>5. \A k \in Loops : \A x \in Pending(k)' : x \in Fds /\ (x = fd \/ x \in Pending(k))
    BY Zenon, <1>2 DEF AddClient, Pending, TypeOK
  <2>6. \A k \in Loops : \A x \in Pending(k)' : sent'[peer'[x]] = <<>>
    BY Zenon, <1>0, <2>1, <2>2, <2>5 DEF PendingSilent
  <2>7. \A c \in Conns : c > accepted' => sent'[c] = <<>>
    <3>1. \A c \in Conns : c > accepted + 1 => c > accepted
      BY <2>a DEF Conns
    <3> QED
      BY Zenon, <1>0, <2>1, <3>1 DEF LaterSilent
  <2>8. \A x \in Fds : \A i \in DOMAIN w_buffer'[x] :
          w_buffer'[x][i].event = 0 <=> (i = 1 /\ sent'[peer'[x]] = <<>>)
    BY Zenon, <1>0, <2>1, <2>2, <2>4 DEF ResponseAhead
  <2>9. \A k \in Loops, x \in Fds : tokens'[k][x] # 0 =>
          (query_fn'[k][x] <=> (w_buffer'[x] # <<>> \/ sent'[peer'[x]] # <<>>))
    BY Zenon, <1>0, <2>1, <2>2, <2>3 DEF QueryAnswered
  <2>10. ResponseAhead' /\ QueryAnswered'
    BY Zenon, <2>8, <2>9 DEF ResponseAhead, QueryAnswered
  <2>11. PendingSilent' /\ LaterSilent'
    BY Zenon, <2>6, <2>7 DEF PendingSilent, LaterSilent
  <2>12. ResponseFirst'
    BY Zenon, <1>0, <2>1 DEF ResponseFirst
  <2> QED
    BY Zenon, <2>10, <2>11, <2>12 DEF Greeted
<1>3. ASSUME NEW l \in Loops, AddFds(l) PROVE Greeted'
  <2>1. UNCHANGED <<peer, accepted, tokens, query_fn, w_buffer, sent>>
    BY Zenon, <1>3 DEF AddFds, outVars
  <2>2. \A k \in Loops : Pending(k)' = Pending(k)
    BY Zenon, <1>3 DEF AddFds, LoopAt, Control, Pending, TypeOK
  <2>3. ResponseAhead' /\ LaterSilent' /\ ResponseFirst'
    BY Zenon, <1>0, <2>1 DEF ResponseAhead, LaterSilent, ResponseFirst
  <2>5. QueryAnswered'
    BY Zenon, <1>0, <2>1 DEF QueryAnswered
  <2>4. PendingSilent'
    BY Zenon, <1>0, <2>1, <2>2 DEF PendingSilent
  <2> QED
    BY Zenon, <2>3, <2>4, <2>5 DEF Greeted
<1>4. ASSUME NEW l \in Loops, OnNewCnx(l) PROVE Greeted'
  <2>1. UNCHANGED <<peer, accepted, query_fn, w_buffer, sent>>
    BY Zenon, <1>4 DEF OnNewCnx, outVars
  <2>2. at_fd[l] \in Fds /\ at_fd[l] \in Pending(l) /\ \A k \in Loops : tokens[k][at_fd[l]] = 0
    BY Zenon, <1>4 DEF OnNewCnx, LoopAt, Control, Owner, Pending, TypeOK
  <2>3. /\ w_buffer[at_fd[l]] = <<>> /\ sent[peer[at_fd[l]]] = <<>>
        /\ \A k \in Loops : ~query_fn[k][at_fd[l]]
    BY Zenon, <1>0, <2>2 DEF Framed, PendingSilent
  <2>4. \A k \in Loops : Pending(k)' \subseteq Pending(k)
    BY Zenon, <1>4 DEF OnNewCnx, Pending, TypeOK
  <2>5. \A k \in Loops, x \in Fds : x # at_fd[l] => tokens'[k][x] = tokens[k][x]
    BY Zenon, <1>4 DEF OnNewCnx, TypeOK
  <2>6. \A k \in Loops, x \in Fds : tokens'[k][x] # 0 =>
          (query_fn[k][x] <=> (w_buffer[x] # <<>> \/ sent[peer[x]] # <<>>))
    BY Zenon, <1>0, <2>3, <2>5 DEF QueryAnswered
  <2>7. ResponseAhead' /\ LaterSilent' /\ ResponseFirst'
    BY Zenon, <1>0, <2>1 DEF ResponseAhead, LaterSilent, ResponseFirst
  <2>8. PendingSilent' /\ QueryAnswered'
    BY Zenon, <1>0, <2>1, <2>4, <2>6 DEF PendingSilent, QueryAnswered
  <2> QED
    BY Zenon, <2>7, <2>8 DEF Greeted
<1>5. ASSUME NEW l \in Loops, QueueEvent(l) PROVE Greeted'
  <2>1. PICK fd \in Fds, q \in Seq(Frame) :
          /\ tokens[l][fd] # 0 /\ query_fn[l][fd] /\ EventFrames(q, peer[fd])
          /\ w_buffer' = [w_buffer EXCEPT ![fd] = Flushed(q, w_buffer[fd])]
    BY Zenon, <1>5, QueueEventAt
  <2>2. UNCHANGED <<peer, accepted, new_fds_, adding, tokens, query_fn, sent>>
    BY Zenon, <1>5 DEF QueueEvent, clientVars
  <2>3. w_buffer[fd] \in Seq(Frame) /\ Len(w_buffer[fd]) <= BufCap
    BY Zenon DEF TypeOK, Buffers
  <2> DEFINE f == Flushed(q, w_buffer[fd])
  <2>4. \A i \in DOMAIN f : \/ i \in DOMAIN w_buffer[fd] /\ f[i] = w_buffer[fd][i]
                            \/ i \in Nat /\ i > Len(w_buffer[fd]) /\ IsEvent(f[i])
    <3>1. Appended(w_buffer[fd], f)
      BY Zenon, <2>1, <2>3, FlushAppends
    <3> QED
      BY Zenon, <3>1 DEF Appended
  <2>5. f = <<>> => w_buffer[fd] = <<>>
    BY Zenon, <2>1, <2>3, FlushFrames
  <2>6. \A x \in Fds : w_buffer'[x] = IF x = fd THEN f ELSE w_buffer[x]
    BY Zenon, <2>1 DEF TypeOK
  <2> HIDE DEF f
  <2>7. w_buffer[fd] # <<>> \/ sent[peer[fd]] # <<>>
    BY Zenon, <1>0, <2>1 DEF QueryAnswered
  <2>8. \A i \in DOMAIN f : f[i].event = 0 <=> (i = 1 /\ sent[peer[fd]] = <<>>)
    <3>1. w_buffer[fd] # <<>> => Len(w_buffer[fd]) >= 1
      BY <2>3
    <3>2. \A i \in DOMAIN w_buffer[fd] :
            w_buffer[fd][i].event = 0 <=> (i = 1 /\ sent[peer[fd]] = <<>>)
      BY Zenon, <1>0 DEF ResponseAhead
    <3>3. \A i \in Nat : i > Len(w_buffer[fd]) => ~(i = 1 /\ sent[peer[fd]] = <<>>)
      BY <2>3, <2>7, <3>1
    <3> QED
      BY Zenon, <2>4, <3>2, <3>3 DEF IsEvent
  <2>9. ResponseAhead'
    <3>1. w_buffer'[fd] = f /\ \A x \in Fds : x # fd => w_buffer'[x] = w_buffer[x]
      BY Zenon, <2>6
    <3> SUFFICES ASSUME NEW x \in Fds, NEW i \in DOMAIN w_buffer'[x]
                 PROVE  w_buffer'[x][i].event = 0 <=> (i = 1 /\ sent[peer[x]] = <<>>)
      BY Zenon, <2>2 DEF ResponseAhead
    <3>2. CASE x = fd
      BY Zenon, <2>8, <3>1, <3>2
    <3>3. CASE x # fd
      BY Zenon, <1>0, <3>1, <3>3 DEF ResponseAhead
    <3> QED
      BY Zenon, <3>2, <3>3
  <2>10. \A k \in Loops, x \in Fds : tokens'[k][x] # 0 =>
          (query_fn'[k][x] <=> (w_buffer'[x] # <<>> \/ sent'[peer'[x]] # <<>>))
    <3>1. \A k \in Loops : tokens[k][fd] # 0 => k = l
      BY Zenon, <2>1 DEF Owner
    <3>2. \A k \in Loops : tokens[k][fd] # 0 => query_fn[k][fd]
      BY Zenon, <2>1, <3>1
    <3>3. f # <<>> \/ sent[peer[fd]] # <<>>
      BY Zenon, <2>5, <2>7
    <3>4. \A x \in Fds : x # fd => w_buffer'[x] = w_buffer[x]
      BY Zenon, <2>6
    <3>5. w_buffer'[fd] = f
      BY Zenon, <2>6
    <3> QED
      BY Zenon, <1>0, <2>2, <3>2, <3>3, <3>4, <3>5 DEF QueryAnswered
  <2>11. PendingSilent' /\ LaterSilent' /\ ResponseFirst'
    BY Zenon, <1>0, <2>2 DEF PendingSilent, LaterSilent, ResponseFirst, Pending
  <2> QED
    BY Zenon, <2>9, <2>10, <2>11 DEF Greeted, QueryAnswered
<1>6. ASSUME NEW l \in Loops, NEW fd \in Fds, CloseCnx(l, fd) PROVE Greeted'
  <2>1. /\ tokens[l][fd] # 0 /\ Erase(l, fd)
        /\ UNCHANGED <<accepted, new_fds_, adding, sent>>
    BY Zenon, <1>6 DEF CloseCnx, Ready
  <2>2. /\ \A x \in Fds : x # fd => peer'[x] = peer[x] /\ w_buffer'[x] = w_buffer[x]
        /\ w_buffer'[fd] = <<>>
    BY Zenon, <2>1 DEF Erase, TypeOK
  <2>3. \A k \in Loops : tokens'[k][fd] = 0 /\ fd \notin Pending(k)
    <3>1. tokens \in [Loops -> [Fds -> Nat]] /\ tokens'[l][fd] = 0
      BY Zenon, <2>1 DEF Erase, TypeOK
    <3>2. \A k \in Loops : k # l => tokens'[k][fd] = tokens[k][fd]
      BY Zenon, <2>1, <3>1 DEF Erase
    <3>3. \A k \in Loops : k # l => tokens[k][fd] = 0
      BY Zenon, <2>1 DEF Owner
    <3>4. \A k \in Loops : fd \notin Pending(k)
      BY Zenon, <2>1 DEF Owner
    <3> QED
      BY Zenon, <3>1, <3>2, <3>3, <3>4
  <2>4. \A k \in Loops, x \in Fds : x # fd =>
          tokens'[k][x] = tokens[k][x] /\ query_fn'[k][x] = query_fn[k][x]
    BY Zenon, <2>1 DEF Erase, TypeOK
  <2>5. DOMAIN w_buffer'[fd] = {}
    BY <2>2
  <2>6. \A k \in Loops : Pending(k)' = Pending(k) /\ Pending(k) \subseteq Fds
    BY Zenon, <2>1 DEF Pending, TypeOK
  <2>7. \A k \in Loops : \A x \in Pending(k)' : sent'[peer'[x]] = <<>>
    <3> SUFFICES ASSUME NEW k \in Loops, NEW x \in Pending(k)
                 PROVE  sent'[peer'[x]] = <<>>
      BY Zenon, <2>6
    <3>1. sent' = sent /\ peer'[x] = peer[x]
      BY Zenon, <2>1, <2>2, <2>3, <2>6
    <3>2. sent[peer[x]] = <<>>
      BY Zenon, <1>0 DEF PendingSilent
    <3> QED
      BY Zenon, <3>1, <3>2
  <2>8. ResponseAhead'
    <3> SUFFICES ASSUME NEW x \in Fds, NEW i \in DOMAIN w_buffer'[x]
                 PROVE  w_buffer'[x][i].event = 0 <=> (i = 1 /\ sent'[peer'[x]] = <<>>)
      BY Zenon DEF ResponseAhead
    <3>1. x # fd
      BY Zenon, <2>5
    <3>2. peer'[x] = peer[x] /\ w_buffer'[x] = w_buffer[x] /\ sent' = sent
      BY Zenon, <2>1, <2>2, <3>1
    <3> QED
      BY Zenon, <1>0, <3>2 DEF ResponseAhead
  <2>9. QueryAnswered'
    <3> SUFFICES ASSUME NEW k \in Loops, NEW x \in Fds, tokens'[k][x] # 0
                 PROVE  query_fn'[k][x] <=> (w_buffer'[x] # <<>> \/ sent'[peer'[x]] # <<>>)
      BY Zenon DEF QueryAnswered
    <3>1. x # fd
      BY Zenon, <2>3
    <3>2. /\ peer'[x] = peer[x] /\ w_buffer'[x] = w_buffer[x] /\ sent' = sent
          /\ tokens'[k][x] = tokens[k][x] /\ query_fn'[k][x] = query_fn[k][x]
      BY Zenon, <2>1, <2>2, <2>4, <3>1
    <3> QED
      BY Zenon, <1>0, <3>2 DEF QueryAnswered
  <2>10. LaterSilent' /\ ResponseFirst'
    BY Zenon, <1>0, <2>1 DEF LaterSilent, ResponseFirst
  <2> QED
    BY Zenon, <2>7, <2>8, <2>9, <2>10 DEF Greeted, PendingSilent
<1>7. ASSUME NEW l \in Loops, NEW fd \in Fds, RefuseCnx(l, fd) PROVE Greeted'
  <2>1. /\ tokens[l][fd] # 0 /\ Erase(l, fd)
        /\ UNCHANGED <<accepted, new_fds_, adding, sent>>
    BY Zenon, <1>7 DEF RefuseCnx, Ready
  <2>2. /\ \A x \in Fds : x # fd => peer'[x] = peer[x] /\ w_buffer'[x] = w_buffer[x]
        /\ w_buffer'[fd] = <<>>
    BY Zenon, <2>1 DEF Erase, TypeOK
  <2>3. \A k \in Loops : tokens'[k][fd] = 0 /\ fd \notin Pending(k)
    <3>1. tokens \in [Loops -> [Fds -> Nat]] /\ tokens'[l][fd] = 0
      BY Zenon, <2>1 DEF Erase, TypeOK
    <3>2. \A k \in Loops : k # l => tokens'[k][fd] = tokens[k][fd]
      BY Zenon, <2>1, <3>1 DEF Erase
    <3>3. \A k \in Loops : k # l => tokens[k][fd] = 0
      BY Zenon, <2>1 DEF Owner
    <3>4. \A k \in Loops : fd \notin Pending(k)
      BY Zenon, <2>1 DEF Owner
    <3> QED
      BY Zenon, <3>1, <3>2, <3>3, <3>4
  <2>4. \A k \in Loops, x \in Fds : x # fd =>
          tokens'[k][x] = tokens[k][x] /\ query_fn'[k][x] = query_fn[k][x]
    BY Zenon, <2>1 DEF Erase, TypeOK
  <2>5. DOMAIN w_buffer'[fd] = {}
    BY <2>2
  <2>6. \A k \in Loops : Pending(k)' = Pending(k) /\ Pending(k) \subseteq Fds
    BY Zenon, <2>1 DEF Pending, TypeOK
  <2>7. \A k \in Loops : \A x \in Pending(k)' : sent'[peer'[x]] = <<>>
    <3> SUFFICES ASSUME NEW k \in Loops, NEW x \in Pending(k)
                 PROVE  sent'[peer'[x]] = <<>>
      BY Zenon, <2>6
    <3>1. sent' = sent /\ peer'[x] = peer[x]
      BY Zenon, <2>1, <2>2, <2>3, <2>6
    <3>2. sent[peer[x]] = <<>>
      BY Zenon, <1>0 DEF PendingSilent
    <3> QED
      BY Zenon, <3>1, <3>2
  <2>8. ResponseAhead'
    <3> SUFFICES ASSUME NEW x \in Fds, NEW i \in DOMAIN w_buffer'[x]
                 PROVE  w_buffer'[x][i].event = 0 <=> (i = 1 /\ sent'[peer'[x]] = <<>>)
      BY Zenon DEF ResponseAhead
    <3>1. x # fd
      BY Zenon, <2>5
    <3>2. peer'[x] = peer[x] /\ w_buffer'[x] = w_buffer[x] /\ sent' = sent
      BY Zenon, <2>1, <2>2, <3>1
    <3> QED
      BY Zenon, <1>0, <3>2 DEF ResponseAhead
  <2>9. QueryAnswered'
    <3> SUFFICES ASSUME NEW k \in Loops, NEW x \in Fds, tokens'[k][x] # 0
                 PROVE  query_fn'[k][x] <=> (w_buffer'[x] # <<>> \/ sent'[peer'[x]] # <<>>)
      BY Zenon DEF QueryAnswered
    <3>1. x # fd
      BY Zenon, <2>3
    <3>2. /\ peer'[x] = peer[x] /\ w_buffer'[x] = w_buffer[x] /\ sent' = sent
          /\ tokens'[k][x] = tokens[k][x] /\ query_fn'[k][x] = query_fn[k][x]
      BY Zenon, <2>1, <2>2, <2>4, <3>1
    <3> QED
      BY Zenon, <1>0, <3>2 DEF QueryAnswered
  <2>10. LaterSilent' /\ ResponseFirst'
    BY Zenon, <1>0, <2>1 DEF LaterSilent, ResponseFirst
  <2> QED
    BY Zenon, <2>7, <2>8, <2>9, <2>10 DEF Greeted, PendingSilent
<1>8. ASSUME NEW l \in Loops, NEW fd \in Fds, HandleWsInit(l, fd) PROVE Greeted'
  <2> DEFINE buffer == <<FrameFor(0, peer[fd])>>
  <2>1. PICK q \in Seq(Frame) :
          EventFrames(q, peer[fd]) /\ w_buffer' = [w_buffer EXCEPT ![fd] = Flushed(q, buffer)]
    BY Zenon, <1>8, HandleWsInitAt
  <2>2. /\ buffer \in Seq(Frame) /\ Len(buffer) <= BufCap /\ Len(buffer) = 1
        /\ DOMAIN buffer = {1} /\ buffer[1].event = 0 /\ buffer # <<>>
    <3>1. buffer \in Seq(Frame) /\ Len(buffer) <= BufCap
      BY Zenon, <1>8, HandleWsInitAt
    <3>2. Len(buffer) = 1 /\ DOMAIN buffer = 1..1 /\ buffer[1].event = 0 /\ buffer # <<>>
      BY DEF FrameFor
    <3>3. 1..1 = {1}
      OBVIOUS
    <3> QED
      BY Zenon, <3>1, <3>2, <3>3
  <2>3. /\ UNCHANGED <<peer, accepted, new_fds_, adding, tokens, sent>>
        /\ tokens[l][fd] # 0 /\ ~query_fn[l][fd]
    BY Zenon, <1>8 DEF HandleWsInit, Ready
  <2>4. /\ query_fn'[l][fd]
        /\ \A k \in Loops, x \in Fds : k # l \/ x # fd => query_fn'[k][x] = query_fn[k][x]
    BY ZenonT(60), <1>8 DEF HandleWsInit, TypeOK
  <2>5. sent[peer[fd]] = <<>>
    BY Zenon, <1>0, <2>3 DEF QueryAnswered
  <2> HIDE DEF buffer
  <2> DEFINE f == Flushed(q, buffer)
  <2>6. \A i \in DOMAIN f : \/ i \in DOMAIN buffer /\ f[i] = buffer[i]
                            \/ i \in Nat /\ i > Len(buffer) /\ IsEvent(f[i])
    BY Zenon, <2>1, <2>2, FlushFrames
  <2>7. f # <<>>
    BY Zenon, <2>1, <2>2, FlushFrames
  <2>8. \A x \in Fds : w_buffer'[x] = IF x = fd THEN f ELSE w_buffer[x]
    BY Zenon, <2>1 DEF TypeOK
  <2> HIDE DEF f
  <2>9. \A i \in DOMAIN f : f[i].event = 0 <=> i = 1
    BY <2>2, <2>6 DEF IsEvent
  <2>10. ResponseAhead'
    <3>1. w_buffer'[fd] = f /\ \A x \in Fds : x # fd => w_buffer'[x] = w_buffer[x]
      BY Zenon, <2>8
    <3> SUFFICES ASSUME NEW x \in Fds, NEW i \in DOMAIN w_buffer'[x]
                 PROVE  w_buffer'[x][i].event = 0 <=> (i = 1 /\ sent[peer[x]] = <<>>)
      BY Zenon, <2>3 DEF ResponseAhead
    <3>2. CASE x = fd
      BY Zenon, <2>5, <2>9, <3>1, <3>2
    <3>3. CASE x # fd
      BY Zenon, <1>0, <3>1, <3>3 DEF ResponseAhead
    <3> QED
      BY Zenon, <3>2, <3>3
  <2>11. \A k \in Loops, x \in Fds : tokens'[k][x] # 0 =>
          (query_fn'[k][x] <=> (w_buffer'[x] # <<>> \/ sent'[peer'[x]] # <<>>))
    <3>1. \A k \in Loops : tokens[k][fd] # 0 => k = l
      BY Zenon, <2>3 DEF Owner
    <3>2. \A k \in Loops : tokens[k][fd] # 0 => query_fn'[k][fd]
      BY Zenon, <2>4, <3>1
    <3>3. \A x \in Fds : x # fd => w_buffer'[x] = w_buffer[x]
      BY Zenon, <2>8
    <3>4. w_buffer'[fd] = f
      BY Zenon, <2>8
    <3> QED
      BY SMTT(30), <1>0, <2>3, <2>4, <2>7, <3>2, <3>3, <3>4 DEF QueryAnswered
  <2>12. PendingSilent' /\ LaterSilent' /\ ResponseFirst'
    BY Zenon, <1>0, <2>3 DEF PendingSilent, LaterSilent, ResponseFirst, Pending
  <2> QED
    BY Zenon, <2>10, <2>11, <2>12 DEF Greeted, QueryAnswered
<1>9. ASSUME NEW l \in Loops, NEW fd \in Fds, WriteCb(l, fd) PROVE Greeted'
  <2>1. /\ UNCHANGED <<peer, accepted, new_fds_, adding, tokens, query_fn>>
        /\ tokens[l][fd] # 0
    BY Zenon, <1>9 DEF WriteCb, Ready, clientVars
  <2>0. PICK n \in 1..Len(w_buffer[fd]) : \E b \in Seq(Frame), s \in Seq(Frame) :
          /\ w_buffer' = [w_buffer EXCEPT ![fd] = b]
          /\ sent' = [sent EXCEPT ![peer[fd]] = s]
          /\ Len(b) <= Len(w_buffer[fd]) /\ s # <<>>
          /\ \A i \in DOMAIN b : i \in Nat /\ i > 0 /\ i + n \in DOMAIN w_buffer[fd]
                                 /\ b[i] = w_buffer[fd][i + n]
          /\ \A i \in DOMAIN s :
               \/ i \in DOMAIN sent[peer[fd]] /\ s[i] = sent[peer[fd]][i]
               \/ \E j \in DOMAIN w_buffer[fd] :
                    j <= n /\ i = Len(sent[peer[fd]]) + j /\ s[i] = w_buffer[fd][j]
    BY ZenonT(60), <1>9, WriteCbAt
  <2>2. PICK b \in Seq(Frame), s \in Seq(Frame) :
          /\ w_buffer' = [w_buffer EXCEPT ![fd] = b]
          /\ sent' = [sent EXCEPT ![peer[fd]] = s]
          /\ Len(b) <= Len(w_buffer[fd]) /\ s # <<>>
          /\ \A i \in DOMAIN b : i \in Nat /\ i > 0 /\ i + n \in DOMAIN w_buffer[fd]
                                 /\ b[i] = w_buffer[fd][i + n]
          /\ \A i \in DOMAIN s :
               \/ i \in DOMAIN sent[peer[fd]] /\ s[i] = sent[peer[fd]][i]
               \/ \E j \in DOMAIN w_buffer[fd] :
                    j <= n /\ i = Len(sent[peer[fd]]) + j /\ s[i] = w_buffer[fd][j]
    BY Zenon, <2>0
  <2>3. peer[fd] \in Conns
    BY Zenon, <1>9, WriteCbAt
  <2>4. \A x \in Fds : w_buffer'[x] = IF x = fd THEN b ELSE w_buffer[x]
    BY Zenon, <2>2 DEF TypeOK
  <2>5. \A c \in Conns : sent'[c] = IF c = peer[fd] THEN s ELSE sent[c]
    BY Zenon, <2>2 DEF TypeOK
  <2>6. sent[peer[fd]] \in Seq(Frame) /\ w_buffer[fd] \in Seq(Frame) /\ w_buffer[fd] # <<>>
    BY <2>3 DEF TypeOK
  <2>7. \A x \in Fds : x # fd => sent'[peer[x]] = sent[peer[x]]
    <3>1. peer[fd] # 0
      BY <2>3 DEF Conns
    <3>2. \A x \in Fds : x # fd => peer[x] # peer[fd]
      BY Zenon, <3>1 DEF Owner
    <3> QED
      BY SMTT(30), <2>2, <3>2, <2>3 DEF TypeOK
  <2>8. sent'[peer[fd]] = s
    BY Zenon, <2>3, <2>5
  <2>9. \A i \in DOMAIN b : b[i].event # 0
    <3>1. \A i \in DOMAIN b : i \in Nat /\ i > 0 /\ i + n \in DOMAIN w_buffer[fd]
                              /\ b[i] = w_buffer[fd][i + n]
      BY <2>2, ZenonT(60)
    <3>2. n \in Nat /\ n > 0
      BY <2>6
    <3>3. \A i \in Nat : i > 0 => i + n # 1
      BY ONLY <3>2
    <3> QED
      BY Zenon, <1>0, <3>1, <3>3 DEF ResponseAhead
  <2>10. \A i \in DOMAIN s : s[i].event = 0 <=> i = 1
    <3> SUFFICES ASSUME NEW i \in DOMAIN s PROVE s[i].event = 0 <=> i = 1
      BY Zenon
    <3>1. CASE i \in DOMAIN sent[peer[fd]] /\ s[i] = sent[peer[fd]][i]
      BY Zenon, <1>0, <3>1, <2>3 DEF ResponseFirst
    <3>2. ASSUME NEW j \in DOMAIN w_buffer[fd],
                 i = Len(sent[peer[fd]]) + j, s[i] = w_buffer[fd][j]
          PROVE  s[i].event = 0 <=> i = 1
      <4>1. w_buffer[fd][j].event = 0 <=> (j = 1 /\ sent[peer[fd]] = <<>>)
        BY Zenon, <1>0 DEF ResponseAhead
      <4>2. j \in Nat /\ j > 0
        BY <2>6
      <4>3. i = 1 <=> (j = 1 /\ sent[peer[fd]] = <<>>)
        BY Zenon, <2>6, <3>2, <4>2, FirstAfter
      <4> QED
        BY Zenon, <3>2, <4>1, <4>3
    <3> QED
      BY Zenon, <2>2, <3>1, <3>2
  <2>11. ResponseAhead'
    <3>1. \A i \in DOMAIN w_buffer'[fd] : w_buffer'[fd][i].event # 0 /\ sent'[peer'[fd]] # <<>>
      BY ZenonT(60), <2>1, <2>2, <2>4, <2>8, <2>9
    <3>2. \A x \in Fds : x # fd => w_buffer'[x] = w_buffer[x] /\ sent'[peer'[x]] = sent[peer[x]]
      BY Zenon, <2>1, <2>4, <2>7
    <3> SUFFICES ASSUME NEW x \in Fds, NEW i \in DOMAIN w_buffer'[x]
                 PROVE  w_buffer'[x][i].event = 0 <=> (i = 1 /\ sent'[peer'[x]] = <<>>)
      BY Zenon DEF ResponseAhead
    <3>3. CASE x = fd
      BY Zenon, <3>1, <3>3
    <3>4. CASE x # fd
      <4>1. w_buffer'[x] = w_buffer[x] /\ sent'[peer'[x]] = sent[peer[x]]
        BY Zenon, <3>2, <3>4
      <4>2. w_buffer[x][i].event = 0 <=> (i = 1 /\ sent[peer[x]] = <<>>)
        BY Zenon, <1>0, <4>1 DEF ResponseAhead
      <4> QED
        BY Zenon, <4>1, <4>2
    <3> QED
      BY Zenon, <3>3, <3>4
  <2>12. \A k \in Loops, x \in Fds : tokens'[k][x] # 0 =>
          (query_fn'[k][x] <=> (w_buffer'[x] # <<>> \/ sent'[peer'[x]] # <<>>))
    <3>1. \A k \in Loops : tokens[k][fd] # 0 => query_fn[k][fd]
      BY Zenon, <1>0, <2>6 DEF QueryAnswered
    <3>2. sent'[peer'[fd]] # <<>>
      BY Zenon, <2>1, <2>2, <2>8
    <3>3. \A x \in Fds : x # fd => w_buffer'[x] = w_buffer[x] /\ sent'[peer'[x]] = sent[peer[x]]
      BY Zenon, <2>1, <2>4, <2>7
    <3>4. \A k \in Loops, x \in Fds : tokens[k][x] # 0 =>
            (query_fn[k][x] <=> (w_buffer[x] # <<>> \/ sent[peer[x]] # <<>>))
      BY Zenon, <1>0 DEF QueryAnswered
    <3> SUFFICES ASSUME NEW k \in Loops, NEW x \in Fds, tokens[k][x] # 0
                 PROVE  query_fn[k][x] <=> (w_buffer'[x] # <<>> \/ sent'[peer'[x]] # <<>>)
      BY Zenon, <2>1
    <3>5. CASE x = fd
      BY Zenon, <3>1, <3>2, <3>5
    <3>6. CASE x # fd
      BY Zenon, <3>3, <3>4, <3>6
    <3> QED
      BY Zenon, <3>5, <3>6
  <2>13. \A k \in Loops : \A x \in Pending(k)' : sent'[peer'[x]] = <<>>
    <3>1. \A k \in Loops : Pending(k)' = Pending(k) /\ Pending(k) \subseteq Fds
      BY Zenon, <2>1 DEF Pending, TypeOK
    <3>2. \A k \in Loops : fd \notin Pending(k)
      BY Zenon, <2>1 DEF Owner
    <3> QED
      BY Zenon, <1>0, <2>1, <2>7, <3>1, <3>2 DEF PendingSilent
  <2>14. \A c \in Conns : c > accepted' => sent'[c] = <<>>
    <3>0. peer[fd] <= accepted
      BY Zenon DEF Owner
    <3>1. accepted \in Nat /\ peer[fd] <= accepted
      BY <3>0 DEF TypeOK
    <3>2. \A c \in Conns : c > accepted => c # peer[fd]
      BY <2>3, <3>1 DEF Conns
    <3> QED
      BY Zenon, <1>0, <2>1, <2>5, <3>2 DEF LaterSilent
  <2>15. ResponseFirst'
    <3> SUFFICES ASSUME NEW c \in Conns, NEW i \in DOMAIN sent'[c]
                 PROVE  sent'[c][i].event = 0 <=> i = 1
      BY Zenon DEF ResponseFirst
    <3>1. CASE c = peer[fd]
      <4>1. sent'[c] = s
        BY Zenon, <2>8, <3>1
      <4> QED
        BY Zenon, <2>10, <4>1
    <3>2. CASE c # peer[fd]
      <4>1. sent'[c] = sent[c]
        BY Zenon, <2>5, <3>2
      <4>2. ResponseFirst
        BY Zenon, <1>0
      <4>3. \A k \in DOMAIN sent[c] : sent[c][k].event = 0 <=> k = 1
        BY Zenon, <4>2 DEF ResponseFirst
      <4> QED
        BY Zenon, <4>1, <4>3
    <3> QED
      BY Zenon, <3>1, <3>2
  <2> QED
    BY Zenon, <2>11, <2>12, <2>13, <2>14, <2>15
       DEF Greeted, QueryAnswered, PendingSilent, LaterSilent
<1>11. ASSUME NEW l \in Loops, NEW fd \in Fds, HeaderAgain(l, fd) PROVE Greeted'
  <2>1. PICK x \in Frame : /\ x.event # 0
                           /\ w_buffer' = [w_buffer EXCEPT ![fd] = Append(w_buffer[fd], x)]
    BY Zenon, <1>11, HeaderAgainAt
  <2>2. /\ UNCHANGED <<peer, accepted, new_fds_, adding, tokens, query_fn, sent>>
        /\ tokens[l][fd] # 0 /\ query_fn[l][fd] /\ w_buffer[fd] \in Seq(Frame)
    BY Zenon, <1>11, HeaderAgainAt
  <2> DEFINE f == Append(w_buffer[fd], x)
  <2>3. /\ f # <<>>
        /\ \A i \in DOMAIN f : \/ i \in DOMAIN w_buffer[fd] /\ f[i] = w_buffer[fd][i]
                               \/ i = Len(w_buffer[fd]) + 1 /\ f[i] = x
    <3>1. /\ f # <<>>
          /\ \A i \in DOMAIN f :
               \/ i \in DOMAIN w_buffer[fd] /\ f[i] = w_buffer[fd][i] /\ i < Len(w_buffer[fd]) + 1
               \/ i = Len(w_buffer[fd]) + 1 /\ f[i] = x
      BY Zenon, <2>1, <2>2, AppendParts
    <3> HIDE DEF f
    <3> QED
      BY Zenon, <3>1
  <2>4. \A y \in Fds : w_buffer'[y] = IF y = fd THEN f ELSE w_buffer[y]
    BY Zenon, <2>1 DEF TypeOK
  <2> HIDE DEF f
  <2>5. w_buffer[fd] # <<>> \/ sent[peer[fd]] # <<>>
    BY Zenon, <1>0, <2>2 DEF QueryAnswered
  <2>6. w_buffer[fd] # <<>> => Len(w_buffer[fd]) + 1 # 1
    BY <2>2
  <2>7. \A i \in DOMAIN f : f[i].event = 0 <=> (i = 1 /\ sent[peer[fd]] = <<>>)
    <3>1. \A i \in DOMAIN w_buffer[fd] :
            w_buffer[fd][i].event = 0 <=> (i = 1 /\ sent[peer[fd]] = <<>>)
      BY Zenon, <1>0 DEF ResponseAhead
    <3>2. ~(Len(w_buffer[fd]) + 1 = 1 /\ sent[peer[fd]] = <<>>)
      BY Zenon, <2>5, <2>6
    <3> QED
      BY Zenon, <2>1, <2>3, <3>1, <3>2
  <2>8. w_buffer'[fd] = f /\ \A y \in Fds : y # fd => w_buffer'[y] = w_buffer[y]
    BY Zenon, <2>4
  <2>9. ResponseAhead'
    <3> SUFFICES ASSUME NEW y \in Fds, NEW i \in DOMAIN w_buffer'[y]
                 PROVE  w_buffer'[y][i].event = 0 <=> (i = 1 /\ sent[peer[y]] = <<>>)
      BY Zenon, <2>2 DEF ResponseAhead
    <3>1. CASE y = fd
      BY Zenon, <2>7, <2>8, <3>1
    <3>2. CASE y # fd
      BY Zenon, <1>0, <2>8, <3>2 DEF ResponseAhead
    <3> QED
      BY Zenon, <3>1, <3>2
  <2>10. QueryAnswered'
    <3>1. \A k \in Loops : tokens[k][fd] # 0 => k = l
      BY Zenon, <2>2 DEF Owner
    <3>2. \A k \in Loops : tokens[k][fd] # 0 => query_fn[k][fd]
      BY Zenon, <2>2, <3>1
    <3> QED
      BY Zenon, <1>0, <2>2, <2>3, <2>8, <3>2 DEF QueryAnswered
  <2>11. PendingSilent' /\ LaterSilent' /\ ResponseFirst'
    BY Zenon, <1>0, <2>2 DEF PendingSilent, LaterSilent, ResponseFirst, Pending
  <2> QED
    BY Zenon, <2>9, <2>10, <2>11 DEF Greeted
<1>10. CASE UNCHANGED <<peer, tokens, query_fn, outVars, accepted, new_fds_, adding>>
  <2>1. ResponseAhead' /\ QueryAnswered'
    BY Zenon, <1>0, <1>10 DEF ResponseAhead, QueryAnswered, outVars
  <2>2. PendingSilent' /\ LaterSilent' /\ ResponseFirst'
    BY Zenon, <1>0, <1>10 DEF PendingSilent, LaterSilent, ResponseFirst, Pending, outVars
  <2> QED
    BY Zenon, <2>1, <2>2 DEF Greeted
<1> QED
  BY Zenon, <1>1, <1>2, <1>3, <1>4, <1>5, <1>6, <1>7, <1>8, <1>9, <1>10, <1>11

-----------------------------------------------------------------------------
(* The responses to further headers.                                        *)

\* A connection with an empty buffer.
LEMMA LineEmpty ==
  ASSUME NEW p, NEW n, Falling(p), Counted(p, n) PROVE InLine(p, <<>>, n)
<1>1. DOMAIN <<>> = {}
  OBVIOUS
<1> QED
  BY Zenon, <1>1 DEF InLine, Falling, Counted, Follows

\* What is added to the buffer is not a response.
LEMMA LineFlush ==
  ASSUME NEW p, NEW w, NEW f, NEW n, InLine(p, w, n),
         \A i \in DOMAIN f : (i \in DOMAIN w /\ f[i] = w[i]) \/ ~Again(f[i])
  PROVE  InLine(p, f, n)
<1>1. Falling(p) /\ Falling(w) /\ Counted(p, n) /\ Counted(w, n) /\ Follows(p, w)
  BY Zenon DEF InLine
<1>2. \A i \in DOMAIN f : Again(f[i]) => i \in DOMAIN w /\ f[i] = w[i]
  BY Zenon
<1>3. Falling(f)
  BY Zenon, <1>1, <1>2 DEF Falling
<1>4. Counted(f, n)
  BY Zenon, <1>1, <1>2 DEF Counted
<1>5. Follows(p, f)
  BY Zenon, <1>1, <1>2 DEF Follows
<1> QED
  BY Zenon, <1>1, <1>3, <1>4, <1>5 DEF InLine

\* What is in an interval is an integer.
LEMMA RangeInt == \A x : x \in (-MaxRepeats)..MaxEvents => x \in Int
BY WebsocketAssumption

\* A frame's place and what it holds are integers.
LEMMA FrameParts ==
  ASSUME NEW s \in Seq(Frame) PROVE \A i \in DOMAIN s : i \in 1..Len(s) /\ s[i].event \in Int
<1>1. \A x \in Frame : x.event \in Int
  <2>1. \A x \in Frame : x.event \in (-MaxRepeats)..MaxEvents
    BY Zenon DEF Frame
  <2> QED
    BY Zenon, <2>1, RangeInt
<1>2. \A i \in DOMAIN s : i \in 1..Len(s) /\ s[i] \in Frame
  OBVIOUS
<1> QED
  BY Zenon, <1>1, <1>2

\* The next response is added to the buffer.
LEMMA LineAppend ==
  ASSUME NEW p \in Seq(Frame), NEW w \in Seq(Frame), NEW n \in Nat, NEW x \in Frame,
         InLine(p, w, n), x.event = -(n + 1)
  PROVE  InLine(p, Append(w, x), n + 1)
<1> DEFINE f == Append(w, x)
<1>1. Falling(p) /\ Falling(w) /\ Counted(p, n) /\ Counted(w, n) /\ Follows(p, w)
  BY Zenon DEF InLine
<1>2. \A i \in DOMAIN f : \/ i \in DOMAIN w /\ f[i] = w[i] /\ i < Len(w) + 1
                          \/ i = Len(w) + 1 /\ f[i] = x
  BY Zenon, AppendParts
<1>3. \A i \in DOMAIN w : i \in 1..Len(w) /\ w[i].event \in Int
  BY Zenon, FrameParts
<1>4. \A i \in DOMAIN p : p[i].event \in Int
  BY Zenon, FrameParts
<1>5. \A m \in Int : -m <= n => x.event < m /\ -m <= n + 1
  OBVIOUS
<1>6. -(x.event) <= n + 1
  OBVIOUS
<1> HIDE DEF f
<1>7. \A i \in DOMAIN w : Again(w[i]) => x.event < w[i].event /\ -w[i].event <= n + 1
  BY Zenon, <1>1, <1>3, <1>5 DEF Counted
<1>8. \A i \in DOMAIN p : Again(p[i]) => x.event < p[i].event /\ -p[i].event <= n + 1
  BY Zenon, <1>1, <1>4, <1>5 DEF Counted
<1>9. Falling(f)
  <2> SUFFICES ASSUME NEW j \in DOMAIN f, NEW i \in DOMAIN f, Again(f[j]), i < j, Again(f[i])
               PROVE  f[j].event < f[i].event
    BY Zenon DEF Falling
  <2>1. CASE j \in DOMAIN w /\ f[j] = w[j] /\ j < Len(w) + 1
    <3>1. i # Len(w) + 1
      BY <1>3, <2>1
    <3> QED
      BY Zenon, <1>1, <1>2, <2>1, <3>1 DEF Falling
  <2>2. CASE j = Len(w) + 1 /\ f[j] = x
    <3>1. i # Len(w) + 1
      BY <2>2
    <3> QED
      BY Zenon, <1>2, <1>7, <2>2, <3>1
  <2> QED
    BY Zenon, <1>2, <2>1, <2>2
<1>10. Counted(f, n + 1)
  BY Zenon, <1>2, <1>6, <1>7 DEF Counted
<1>11. Counted(p, n + 1)
  BY Zenon, <1>8 DEF Counted
<1>12. Follows(p, f)
  BY Zenon, <1>1, <1>2, <1>8 DEF Follows
<1> QED
  BY Zenon, <1>1, <1>9, <1>10, <1>11, <1>12 DEF InLine, f

\* The first m frames of buffer w go from it, which leaves b, to the peer: it had
\* p and has s.
Written(p, w, m, b, s) ==
  /\ \A i \in DOMAIN b : i \in Nat /\ i > 0 /\ i + m \in DOMAIN w /\ b[i] = w[i + m]
  /\ \A i \in DOMAIN s : \/ i \in DOMAIN p /\ s[i] = p[i]
                         \/ \E j \in DOMAIN w : j <= m /\ i = Len(p) + j /\ s[i] = w[j]

LEMMA LineWrite ==
  ASSUME NEW p \in Seq(Frame), NEW w \in Seq(Frame), NEW n, NEW m \in 1..Len(w),
         NEW b, NEW s, InLine(p, w, n), Written(p, w, m, b, s)
  PROVE  InLine(s, b, n)
<1>0. /\ \A i \in DOMAIN b : i \in Nat /\ i > 0 /\ i + m \in DOMAIN w /\ b[i] = w[i + m]
      /\ \A i \in DOMAIN s : \/ i \in DOMAIN p /\ s[i] = p[i]
                             \/ \E j \in DOMAIN w : j <= m /\ i = Len(p) + j /\ s[i] = w[j]
  BY Zenon DEF Written
<1>1. Falling(p) /\ Falling(w) /\ Counted(p, n) /\ Counted(w, n) /\ Follows(p, w)
  BY Zenon DEF InLine
<1>2. /\ \A i \in DOMAIN w : i \in Nat /\ i > 0
      /\ \A i \in DOMAIN p : i \in Nat /\ i <= Len(p)
      /\ m \in Nat /\ Len(p) \in Nat
  OBVIOUS
<1>3. Falling(b)
  <2> SUFFICES ASSUME NEW j \in DOMAIN b, NEW i \in DOMAIN b, Again(b[j]), i < j, Again(b[i])
               PROVE  b[j].event < b[i].event
    BY Zenon DEF Falling
  <2>1. i \in Nat /\ j \in Nat /\ i + m \in DOMAIN w /\ j + m \in DOMAIN w
        /\ b[i] = w[i + m] /\ b[j] = w[j + m]
    BY Zenon, <1>0
  <2>2. i + m < j + m
    BY <1>2, <2>1
  <2> QED
    BY Zenon, <1>1, <2>1, <2>2 DEF Falling
<1>4. Counted(b, n)
  BY Zenon, <1>0, <1>1 DEF Counted
<1>5. Counted(s, n)
  BY Zenon, <1>0, <1>1 DEF Counted
<1>6. Falling(s)
  <2> SUFFICES ASSUME NEW j \in DOMAIN s, NEW i \in DOMAIN s, Again(s[j]), i < j, Again(s[i])
               PROVE  s[j].event < s[i].event
    BY Zenon DEF Falling
  <2>1. CASE j \in DOMAIN p /\ s[j] = p[j]
    <3>1. i \in DOMAIN p /\ s[i] = p[i]
      <4>1. ASSUME NEW k \in DOMAIN w, i = Len(p) + k PROVE FALSE
        <5>1. j \in Nat /\ j <= Len(p) /\ k \in Nat /\ Len(p) \in Nat /\ i < j
          BY Zenon, <1>2, <2>1
        <5> QED
          BY ONLY <4>1, <5>1
      <4> QED
        BY Zenon, <1>0, <4>1
    <3> QED
      BY Zenon, <1>1, <2>1, <3>1 DEF Falling
  <2>2. ASSUME NEW k \in DOMAIN w, j = Len(p) + k, s[j] = w[k] PROVE s[j].event < s[i].event
    <3>1. CASE i \in DOMAIN p /\ s[i] = p[i]
      BY Zenon, <1>1, <2>2, <3>1 DEF Follows
    <3>2. ASSUME NEW h \in DOMAIN w, i = Len(p) + h, s[i] = w[h] PROVE s[j].event < s[i].event
      <4>1. h < k
        <5>1. h \in Nat /\ k \in Nat /\ Len(p) \in Nat /\ i < j
          BY Zenon, <1>2
        <5> QED
          BY ONLY <2>2, <3>2, <5>1
      <4> QED
        BY Zenon, <1>1, <2>2, <3>2, <4>1 DEF Falling
    <3> QED
      BY Zenon, <1>0, <3>1, <3>2
  <2> QED
    BY Zenon, <1>0, <2>1, <2>2
<1>7. Follows(s, b)
  <2> SUFFICES ASSUME NEW i \in DOMAIN s, NEW j \in DOMAIN b, Again(s[i]), Again(b[j])
               PROVE  b[j].event < s[i].event
    BY Zenon DEF Follows
  <2>1. j \in Nat /\ j > 0 /\ j + m \in DOMAIN w /\ b[j] = w[j + m]
    BY Zenon, <1>0
  <2>2. CASE i \in DOMAIN p /\ s[i] = p[i]
    BY Zenon, <1>1, <2>1, <2>2 DEF Follows
  <2>3. ASSUME NEW k \in DOMAIN w, k <= m, s[i] = w[k] PROVE b[j].event < s[i].event
    <3>1. k < j + m
      <4>1. k \in Nat /\ m \in Nat /\ j \in Nat /\ j > 0 /\ k <= m
        BY Zenon, <1>2, <2>1, <2>3
      <4> QED
        BY ONLY <4>1
    <3> QED
      BY Zenon, <1>1, <2>1, <2>3, <3>1 DEF Falling
  <2> QED
    BY Zenon, <1>0, <2>2, <2>3
<1> QED
  BY Zenon, <1>3, <1>4, <1>5, <1>6, <1>7 DEF InLine

\* Only what a client ended as a header is answered, in order, whatever is queued
\* and written in between.
LEMMA RepeatedStep ==
  TypeOK /\ Owner /\ Control /\ Tagged /\ Framed /\ Buffers /\ Repeated /\ [Next]_vars => Repeated'
<1> SUFFICES ASSUME TypeOK, Owner, Control, Tagged, Framed, Buffers, Repeated, [Next]_vars
             PROVE  Repeated'
  BY Zenon
<1>0. /\ \A c \in Conns : Falling(sent[c]) /\ Counted(sent[c], repeats[c])
      /\ \A fd \in Fds : peer[fd] # 0 => InLine(sent[peer[fd]], w_buffer[fd], repeats[peer[fd]])
  BY Zenon DEF Repeated
<1>1. \/ UNCHANGED <<peer, tokens, query_fn, outVars, accepted, new_fds_, adding>>
      \/ \E fd \in Fds : AddClient(fd)
      \/ \E l \in Loops : AddFds(l)
      \/ \E l \in Loops : OnNewCnx(l)
      \/ \E l \in Loops : QueueEvent(l)
      \/ \E l \in Loops, fd \in Fds : CloseCnx(l, fd)
      \/ \E l \in Loops, fd \in Fds : RefuseCnx(l, fd)
      \/ \E l \in Loops, fd \in Fds : HandleWsInit(l, fd)
      \/ \E l \in Loops, fd \in Fds : WriteCb(l, fd)
      \/ \E l \in Loops, fd \in Fds : HeaderAgain(l, fd)
  BY Zenon, WhoChanges
<1>2. UNCHANGED repeats \/ \E l \in Loops, fd \in Fds : HeaderAgain(l, fd)
  BY Zenon, WhoChanges
<1>a. ASSUME NEW fd \in Fds, UNCHANGED <<sent, repeats>>,
             \A x \in Fds : x # fd => peer'[x] = peer[x] /\ w_buffer'[x] = w_buffer[x],
             peer'[fd] # 0 => InLine(sent[peer'[fd]], w_buffer'[fd], repeats[peer'[fd]])
      PROVE  Repeated'
  BY Zenon, <1>a, <1>0 DEF Repeated
<1>b. ASSUME UNCHANGED <<peer, sent, w_buffer, repeats>> PROVE Repeated'
  BY Zenon, <1>b, <1>0 DEF Repeated
<1>3. ASSUME NEW l \in Loops, NEW fd \in Fds, HeaderAgain(l, fd) PROVE Repeated'
  <2> DEFINE c == peer[fd]
             n == repeats[c]
  <2>1. PICK x \in Frame : /\ x.event = -(n + 1)
                           /\ w_buffer' = [w_buffer EXCEPT ![fd] = Append(w_buffer[fd], x)]
    BY Zenon, <1>3, HeaderAgainAt
  <2>2. /\ UNCHANGED <<peer, sent>> /\ c \in Conns /\ n \in Nat /\ w_buffer[fd] \in Seq(Frame)
        /\ repeats' = [repeats EXCEPT ![c] = n + 1]
    BY Zenon, <1>3, HeaderAgainAt
  <2>3. c # 0 /\ sent[c] \in Seq(Frame)
    BY <2>2 DEF Conns, TypeOK
  <2>4. InLine(sent[c], w_buffer[fd], n)
    BY Zenon, <1>0, <2>3
  <2> HIDE DEF c, n
  <2>5. InLine(sent[c], Append(w_buffer[fd], x), n + 1)
    BY Zenon, <2>1, <2>2, <2>3, <2>4, LineAppend
  <2>6. /\ repeats'[c] = n + 1 /\ \A d \in Conns : d # c => repeats'[d] = repeats[d]
        /\ w_buffer'[fd] = Append(w_buffer[fd], x)
        /\ \A y \in Fds : y # fd => w_buffer'[y] = w_buffer[y]
    BY Zenon, <2>1, <2>2 DEF TypeOK
  <2>7. ASSUME NEW d \in Conns PROVE Falling(sent'[d]) /\ Counted(sent'[d], repeats'[d])
    <3>1. CASE d = c
      BY Zenon, <2>2, <2>5, <2>6, <3>1 DEF InLine
    <3>2. CASE d # c
      BY Zenon, <1>0, <2>2, <2>6, <3>2
    <3> QED
      BY Zenon, <3>1, <3>2
  <2>8. ASSUME NEW y \in Fds, peer'[y] # 0
        PROVE  InLine(sent'[peer'[y]], w_buffer'[y], repeats'[peer'[y]])
    <3>1. CASE y = fd
      <4>1. peer'[y] = c
        BY Zenon, <2>2, <3>1 DEF c
      <4> QED
        BY Zenon, <2>2, <2>5, <2>6, <3>1, <4>1
    <3>2. CASE y # fd
      <4>1. peer[y] # c
        BY Zenon, <2>2, <2>3, <3>2 DEF Owner, c
      <4>2. peer[y] \in Conns
        <5>1. peer[y] \in 0..MaxConns /\ peer[y] # 0
          BY Zenon, <2>2, <2>8 DEF TypeOK
        <5> QED
          BY <5>1, WebsocketAssumption DEF Conns
      <4> QED
        BY Zenon, <1>0, <2>2, <2>6, <2>8, <3>2, <4>1, <4>2
    <3> QED
      BY Zenon, <3>1, <3>2
  <2> QED
    BY Zenon, <2>7, <2>8 DEF Repeated
<1>4. ASSUME NEW fd \in Fds, AddClient(fd), UNCHANGED repeats PROVE Repeated'
  <2>1. /\ UNCHANGED <<sent, w_buffer>> /\ peer[fd] = 0 /\ accepted < MaxConns
        /\ peer' = [peer EXCEPT ![fd] = accepted + 1]
    BY Zenon, <1>4 DEF AddClient, outVars
  <2>2. accepted + 1 \in Conns
    BY <2>1, WebsocketAssumption DEF TypeOK, Conns
  <2>3. w_buffer[fd] = <<>>
    <3>1. \A k \in Loops : tokens[k][fd] = 0
      BY Zenon, <2>1 DEF Owner
    <3> QED
      BY Zenon, <3>1 DEF Framed
  <2>4. peer'[fd] = accepted + 1 /\ \A x \in Fds : x # fd => peer'[x] = peer[x]
    BY Zenon, <2>1 DEF TypeOK
  <2>5. InLine(sent[accepted + 1], <<>>, repeats[accepted + 1])
    BY Zenon, <1>0, <2>2, LineEmpty
  <2> QED
    BY Zenon, <1>4, <1>a, <2>1, <2>3, <2>4, <2>5
<1>5. ASSUME NEW l \in Loops, QueueEvent(l), UNCHANGED repeats PROVE Repeated'
  <2>1. PICK fd \in Fds, q \in Seq(Frame) :
          /\ tokens[l][fd] # 0 /\ EventFrames(q, peer[fd])
          /\ w_buffer' = [w_buffer EXCEPT ![fd] = Flushed(q, w_buffer[fd])]
    BY Zenon, <1>5, QueueEventAt
  <2>2. UNCHANGED <<peer, sent>>
    BY Zenon, <1>5 DEF QueueEvent, clientVars
  <2>3. w_buffer[fd] \in Seq(Frame) /\ Len(w_buffer[fd]) <= BufCap
    BY Zenon DEF TypeOK, Buffers
  <2> DEFINE f == Flushed(q, w_buffer[fd])
  <2>4. Appended(w_buffer[fd], f)
    BY Zenon, <2>1, <2>3, FlushAppends
  <2>5. w_buffer'[fd] = f /\ \A x \in Fds : x # fd => w_buffer'[x] = w_buffer[x]
    BY Zenon, <2>1 DEF TypeOK
  <2> HIDE DEF f
  <2>6. \A i \in DOMAIN f : (i \in DOMAIN w_buffer[fd] /\ f[i] = w_buffer[fd][i]) \/ ~Again(f[i])
    BY Zenon, <2>4 DEF Appended, IsEvent
  <2>7. peer[fd] # 0 => InLine(sent[peer[fd]], f, repeats[peer[fd]])
    BY Zenon, <1>0, <2>6, LineFlush
  <2> QED
    BY Zenon, <1>5, <1>a, <2>2, <2>5, <2>7
<1>6. ASSUME NEW l \in Loops, NEW fd \in Fds, CloseCnx(l, fd) \/ RefuseCnx(l, fd), UNCHANGED repeats
      PROVE  Repeated'
  <2>1. sent' = sent /\ Erase(l, fd)
    BY Zenon, <1>6 DEF CloseCnx, RefuseCnx
  <2>2. peer'[fd] = 0 /\ \A x \in Fds : x # fd => peer'[x] = peer[x] /\ w_buffer'[x] = w_buffer[x]
    BY Zenon, <2>1 DEF Erase, TypeOK
  <2> QED
    BY Zenon, <1>6, <1>a, <2>1, <2>2
<1>7. ASSUME NEW l \in Loops, NEW fd \in Fds, HandleWsInit(l, fd), UNCHANGED repeats PROVE Repeated'
  <2> DEFINE buffer == <<FrameFor(0, peer[fd])>>
  <2>1. PICK q \in Seq(Frame) :
          EventFrames(q, peer[fd]) /\ w_buffer' = [w_buffer EXCEPT ![fd] = Flushed(q, buffer)]
    BY Zenon, <1>7, HandleWsInitAt
  <2>2. UNCHANGED <<peer, sent>> /\ peer[fd] \in Conns /\ buffer \in Seq(Frame) /\ Len(buffer) <= BufCap
    BY Zenon, <1>7, HandleWsInitAt DEF HandleWsInit
  <2>3. \A i \in DOMAIN buffer : ~Again(buffer[i])
    BY DEF FrameFor, Again
  <2> HIDE DEF buffer
  <2> DEFINE f == Flushed(q, buffer)
  <2>4. Appended(buffer, f)
    BY Zenon, <2>1, <2>2, FlushAppends
  <2>5. w_buffer'[fd] = f /\ \A x \in Fds : x # fd => w_buffer'[x] = w_buffer[x]
    BY Zenon, <2>1 DEF TypeOK
  <2> HIDE DEF f
  <2>6. \A i \in DOMAIN f : ~Again(f[i])
    BY Zenon, <2>3, <2>4 DEF Appended, IsEvent
  <2>7. InLine(sent[peer[fd]], <<>>, repeats[peer[fd]])
    BY Zenon, <1>0, <2>2, LineEmpty
  <2>8. InLine(sent[peer[fd]], f, repeats[peer[fd]])
    BY Zenon, <2>6, <2>7, LineFlush
  <2> QED
    BY Zenon, <1>7, <1>a, <2>2, <2>5, <2>8
<1>8. ASSUME NEW l \in Loops, NEW fd \in Fds, WriteCb(l, fd), UNCHANGED repeats PROVE Repeated'
  <2> DEFINE c == peer[fd]
  <2>1. UNCHANGED peer /\ c \in Conns
    BY Zenon, <1>8, WriteCbAt DEF WriteCb, clientVars
  <2>2. PICK n \in 1..Len(w_buffer[fd]) : \E b \in Seq(Frame), s \in Seq(Frame) :
          /\ w_buffer' = [w_buffer EXCEPT ![fd] = b]
          /\ sent' = [sent EXCEPT ![peer[fd]] = s]
          /\ Len(b) <= Len(w_buffer[fd]) /\ s # <<>>
          /\ \A i \in DOMAIN b : i \in Nat /\ i > 0 /\ i + n \in DOMAIN w_buffer[fd]
                                 /\ b[i] = w_buffer[fd][i + n]
          /\ \A i \in DOMAIN s :
               \/ i \in DOMAIN sent[peer[fd]] /\ s[i] = sent[peer[fd]][i]
               \/ \E j \in DOMAIN w_buffer[fd] :
                    j <= n /\ i = Len(sent[peer[fd]]) + j /\ s[i] = w_buffer[fd][j]
    BY ZenonT(60), <1>8, WriteCbAt
  <2>b. PICK b \in Seq(Frame), s \in Seq(Frame) :
          /\ w_buffer' = [w_buffer EXCEPT ![fd] = b]
          /\ sent' = [sent EXCEPT ![peer[fd]] = s]
          /\ Len(b) <= Len(w_buffer[fd]) /\ s # <<>>
          /\ \A i \in DOMAIN b : i \in Nat /\ i > 0 /\ i + n \in DOMAIN w_buffer[fd]
                                 /\ b[i] = w_buffer[fd][i + n]
          /\ \A i \in DOMAIN s :
               \/ i \in DOMAIN sent[peer[fd]] /\ s[i] = sent[peer[fd]][i]
               \/ \E j \in DOMAIN w_buffer[fd] :
                    j <= n /\ i = Len(sent[peer[fd]]) + j /\ s[i] = w_buffer[fd][j]
    BY Zenon, <2>2
  <2>3. /\ w_buffer' = [w_buffer EXCEPT ![fd] = b] /\ sent' = [sent EXCEPT ![c] = s]
        /\ Written(sent[c], w_buffer[fd], n, b, s)
    BY Zenon, <2>b DEF Written
  <2>4. c # 0 /\ sent[c] \in Seq(Frame) /\ w_buffer[fd] \in Seq(Frame)
    BY <2>1 DEF Conns, TypeOK
  <2>5. InLine(sent[c], w_buffer[fd], repeats[c])
    BY Zenon, <1>0, <2>4
  <2> HIDE DEF c
  <2>6. InLine(s, b, repeats[c])
    BY Zenon, <2>2, <2>3, <2>4, <2>5, LineWrite
  <2>7. /\ w_buffer'[fd] = b /\ \A y \in Fds : y # fd => w_buffer'[y] = w_buffer[y]
        /\ sent'[c] = s /\ \A d \in Conns : d # c => sent'[d] = sent[d]
    BY Zenon, <2>1, <2>3 DEF TypeOK
  <2>8. ASSUME NEW d \in Conns PROVE Falling(sent'[d]) /\ Counted(sent'[d], repeats'[d])
    <3>1. CASE d = c
      BY Zenon, <1>8, <2>6, <2>7, <3>1 DEF InLine
    <3>2. CASE d # c
      BY Zenon, <1>0, <1>8, <2>7, <3>2
    <3> QED
      BY Zenon, <3>1, <3>2
  <2>9. ASSUME NEW y \in Fds, peer'[y] # 0
        PROVE  InLine(sent'[peer'[y]], w_buffer'[y], repeats'[peer'[y]])
    <3>1. CASE y = fd
      <4>1. peer'[y] = c
        BY Zenon, <2>1, <3>1 DEF c
      <4> QED
        BY Zenon, <1>8, <2>6, <2>7, <3>1, <4>1
    <3>2. CASE y # fd
      <4>1. peer[y] # c
        BY Zenon, <2>1, <2>4, <3>2 DEF Owner, c
      <4>2. peer[y] \in Conns
        <5>1. peer[y] \in 0..MaxConns /\ peer[y] # 0
          BY Zenon, <2>1, <2>9 DEF TypeOK
        <5> QED
          BY <5>1, WebsocketAssumption DEF Conns
      <4> QED
        BY Zenon, <1>0, <1>8, <2>1, <2>7, <2>9, <3>2, <4>1, <4>2
    <3> QED
      BY Zenon, <3>1, <3>2
  <2> QED
    BY Zenon, <2>8, <2>9 DEF Repeated
<1>9. ASSUME NEW l \in Loops, AddFds(l) \/ OnNewCnx(l), UNCHANGED repeats PROVE Repeated'
  BY Zenon, <1>9, <1>b DEF AddFds, OnNewCnx, outVars
<1>10. CASE UNCHANGED <<peer, tokens, query_fn, outVars, accepted, new_fds_, adding>> /\ UNCHANGED repeats
  BY Zenon, <1>10, <1>b DEF outVars
<1> QED
  BY Zenon, <1>1, <1>2, <1>3, <1>4, <1>5, <1>6, <1>7, <1>8, <1>9, <1>10

-----------------------------------------------------------------------------
(* The theorems.                                                            *)

\* Without connections and events the invariant holds.
LEMMA InvInit == Init => IInv
<1> SUFFICES ASSUME Init PROVE IInv
  BY Zenon
<1>1. \A l \in Loops, fd \in Fds : tokens[l][fd] = 0 /\ ~query_fn[l][fd] /\ queue[l][fd] = <<>>
  BY Zenon DEF Init
<1>2. \A fd \in Fds : peer[fd] = 0 /\ w_buffer[fd] = <<>>
  BY Zenon DEF Init
<1>3. \A l \in Loops : /\ new_fds_[l] = {} /\ adding[l] = {} /\ filters_[l] = {}
                       /\ event_queues_[l] = <<>> /\ loop_pc[l] = "poll"
  BY Zenon DEF Init
<1>4. \A w \in Workers : filter_fns[w] = {} /\ todo[w] = {} /\ worker_pc[w] = "start"
  BY Zenon DEF Init
<1>5. \A c \in Conns : sent[c] = <<>>
  BY Zenon DEF Init
<1>6. accepted = 0 /\ token = 0
  BY Zenon DEF Init
<1>7. TypeOK
  <2>1. queue \in [Loops -> [Fds -> Seq(Frame)]] /\ w_buffer \in [Fds -> Seq(Frame)]
        /\ event_queues_ \in [Loops -> Seq(Queued)] /\ event_queue_ \in Seq(Events)
        /\ sent \in [Conns -> Seq(Frame)]
    BY DEF Init
  <2>4. repeats \in [Conns -> 0..MaxRepeats]
    BY WebsocketAssumption DEF Init
  <2>2. peer \in [Fds -> 0..MaxConns] /\ accepted \in 0..MaxConns /\ token \in Nat
        /\ e \in [Workers -> 0..MaxEvents]
    BY WebsocketAssumption DEF Init
  <2>3. tokens \in [Loops -> [Fds -> Nat]] /\ query_fn \in [Loops -> [Fds -> BOOLEAN]]
    BY Zenon DEF Init
  <2> QED
    BY Zenon, <2>1, <2>2, <2>3, <2>4 DEF Init, TypeOK
<1>8. Owner
  BY <1>1, <1>2, <1>3, <1>6 DEF Owner, Pending
<1>9. Control
  BY Zenon, <1>3, <1>4 DEF Control
<1>0. DOMAIN <<>> = {}
  OBVIOUS
<1>10. Tagged
  <2>1. \A l \in Loops, fd \in Fds : Fresh(l, tokens[l][fd])
    <3>1. \A l \in Loops : loop_pc[l] # "token"
      BY <1>3
    <3>2. \A l \in Loops, fd \in Fds : tokens[l][fd] <= token
      BY <1>1, <1>6
    <3> QED
      BY Zenon, <3>1, <3>2 DEF Fresh
  <2> QED
    BY Zenon, <1>0, <1>3, <1>4, <2>1 DEF Tagged
<1>11. Framed
  BY Zenon, <1>0, <1>1, <1>2, <1>5 DEF Framed, RightPeer
<1>12. Greeted
  BY SMTT(30), <1>1, <1>2, <1>3, <1>5
     DEF Greeted, ResponseAhead, QueryAnswered, PendingSilent, LaterSilent, ResponseFirst, Pending
<1>13. Buffers
  BY <1>2, WebsocketAssumption DEF Buffers
<1>14. Repeated
  BY Zenon, <1>0, <1>2, <1>5 DEF Repeated, Falling, Counted
<1> QED
  BY Zenon, <1>7, <1>8, <1>9, <1>10, <1>11, <1>12, <1>13, <1>14 DEF IInv

\* The inductive invariant of the websocket pool holds in every reachable state.
THEOREM InvHolds == Spec => []IInv
<1>1. IInv /\ [Next]_vars => IInv'
  BY Zenon, TypesStep, OwnerStep, ControlStep, TaggedStep, FramedStep, GreetedStep,
     BuffersStep, RepeatedStep
  DEF IInv
<1> QED
  BY <1>1, InvInit, PTL DEF Spec

\* The pool's tables and queues keep their types: whatever is queued, filtered or
\* buffered belongs to a connection that was accepted.
THEOREM TypeCorrect == Spec => []TypeOK
<1>1. IInv => TypeOK
  BY Zenon DEF IInv
<1> QED
  BY <1>1, InvHolds, PTL

\* A client receives only what its own query selected, however descriptors are
\* reused and however the loops interleave in next_token.
THEOREM ClientsGetTheirOwn == Spec => []RightPeer
<1>1. IInv => RightPeer
  BY Zenon DEF IInv, Framed
<1> QED
  BY <1>1, InvHolds, PTL

\* The response to the HTTP header is the first frame a client is sent; a further
\* response follows only for a further header that the client ended, one for each
\* and in their order.
THEOREM ResponseComesFirst == Spec => []HandshakeFirst
<1>1. IInv => ResponseFirst /\ OnePerHeader
  <2>1. IInv => ResponseFirst
    BY Zenon DEF IInv, Greeted
  <2>2. IInv => OnePerHeader
    BY Zenon DEF IInv, Repeated, OnePerHeader, Falling, Counted
  <2> QED
    BY Zenon, <2>1, <2>2
<1>2. IInv => HandshakeFirst
  BY Zenon, <1>1 DEF HandshakeFirst
<1> QED
  BY <1>2, InvHolds, PTL

-----------------------------------------------------------------------------
(* Subscribers are registered, and no queue outgrows its limit.             *)

\* The filter that update_filters makes of a subscriber.
FilterOf(l, fd) ==
  [loop |-> l, fd |-> fd, token |-> tokens[l][fd], set |-> TRUE, for |-> peer[fd]]

\* Only while a loop is between handle_ws_init and its update_filters can the
\* workers lack the filter of one of its subscribers.
AllRegistered ==
  \A l \in Loops : loop_pc[l] # "filters" =>
    \A fd \in Fds : query_fn[l][fd] => FilterOf(l, fd) \in filters_[l]

\* update_filters makes the filter of every subscriber.
LEMMA FiltersOfAll ==
  ASSUME TypeOK, Framed, NEW l \in Loops, NEW fd \in Fds, query_fn[l][fd]
  PROVE  FilterOf(l, fd) \in FiltersOf(l) /\ FilterOf(l, fd).fd = fd
<1>1. tokens[l][fd] # 0
  BY Zenon DEF Framed
<1>2. query_fn[l][fd] = TRUE
  BY Zenon DEF TypeOK
<1>3. FilterOf(l, fd) \in FiltersOf(l)
  BY Zenon, <1>1, <1>2 DEF FilterOf, FiltersOf
<1>4. FilterOf(l, fd).fd = fd
  BY Zenon DEF FilterOf
<1> QED
  BY Zenon, <1>3, <1>4

\* What another loop, or a step that opens no filter, leaves registered.
LEMMA RegisteredKept ==
  ASSUME AllRegistered, NEW l \in Loops, loop_pc[l] # "filters", filters_'[l] = filters_[l],
         \A fd \in Fds : query_fn'[l][fd] =>
            query_fn[l][fd] /\ tokens'[l][fd] = tokens[l][fd] /\ peer'[fd] = peer[fd]
  PROVE  \A fd \in Fds : query_fn'[l][fd] => FilterOf(l, fd)' \in filters_'[l]
<1> SUFFICES ASSUME NEW fd \in Fds, query_fn'[l][fd] PROVE FilterOf(l, fd)' \in filters_'[l]
  BY Zenon
<1>1. FilterOf(l, fd)' = FilterOf(l, fd)
  BY Zenon DEF FilterOf
<1>2. FilterOf(l, fd) \in filters_[l]
  BY Zenon DEF AllRegistered
<1> QED
  BY Zenon, <1>1, <1>2

\* Every step of the pool leaves the subscribers of every loop registered.
LEMMA RegisteredStep == IInv /\ AllRegistered /\ [Next]_vars => AllRegistered'
<1> SUFFICES ASSUME IInv, AllRegistered, [Next]_vars,
                    NEW l \in Loops, loop_pc'[l] # "filters"
             PROVE  \A fd \in Fds : query_fn'[l][fd] => FilterOf(l, fd)' \in filters_'[l]
  BY Zenon DEF AllRegistered
<1>0. TypeOK /\ Owner /\ Framed /\ Control
  BY Zenon DEF IInv
<1>a. ASSUME loop_pc[l] # "filters", UNCHANGED <<filters_, query_fn>>,
             \A fd \in Fds : query_fn[l][fd] => tokens'[l][fd] = tokens[l][fd] /\ peer'[fd] = peer[fd]
      PROVE  \A fd \in Fds : query_fn'[l][fd] => FilterOf(l, fd)' \in filters_'[l]
  BY <1>a, RegisteredKept, Zenon
<1>b. ASSUME loop_pc[l] # "filters", UNCHANGED <<filters_, query_fn, tokens, peer>>
      PROVE  \A fd \in Fds : query_fn'[l][fd] => FilterOf(l, fd)' \in filters_'[l]
  BY <1>b, <1>a, Zenon
<1>g. ASSUME NEW k \in Loops, NEW at, at # "filters", Goto(k, at) \/ UNCHANGED loop_pc, loop_pc[k] # "filters"
      PROVE  loop_pc[l] # "filters"
  BY Zenon, <1>g, <1>0 DEF Goto, TypeOK
<1>1. ASSUME NEW fd \in Fds, AddClient(fd) PROVE \A x \in Fds : query_fn'[l][x] => FilterOf(l, x)' \in filters_'[l]
  <2>1. /\ peer[fd] = 0 /\ peer' = [peer EXCEPT ![fd] = accepted + 1]
        /\ UNCHANGED <<filters_, query_fn, tokens, loop_pc>>
    BY <1>1, Zenon DEF AddClient
  <2>2. ~query_fn[l][fd]
    <3>1. tokens[l][fd] = 0
      BY Zenon, <2>1, <1>0 DEF Owner
    <3> QED
      BY Zenon, <3>1, <1>0 DEF Framed
  <2>3. \A x \in Fds : query_fn[l][x] => peer'[x] = peer[x]
    BY Zenon, <2>1, <2>2, <1>0 DEF TypeOK
  <2> QED
    BY <1>a, <2>1, <2>3, Zenon
<1>2. ASSUME NEW k \in Loops, LoopStep(k) PROVE \A x \in Fds : query_fn'[l][x] => FilterOf(l, x)' \in filters_'[l]
  <2>1. CASE AddFds(k) \/ NextToken(k) \/ AddFdsEnd(k) \/ DropEvent(k) \/ QueueEvent(k) \/ EventsEnd(k)
    <3>1. UNCHANGED <<filters_, query_fn, tokens, peer>>
      BY <2>1, Zenon DEF AddFds, NextToken, AddFdsEnd, DropEvent, QueueEvent, EventsEnd, clientVars
    <3>2. loop_pc[k] # "filters"
      BY <2>1, Zenon DEF AddFds, NextToken, AddFdsEnd, DropEvent, QueueEvent, EventsEnd, LoopAt
    <3>3. \E at \in {"fds", "token", "events", "poll"} : Goto(k, at) \/ UNCHANGED loop_pc
      BY <2>1, Zenon DEF AddFds, NextToken, AddFdsEnd, DropEvent, QueueEvent, EventsEnd
    <3>4. loop_pc[l] # "filters"
      BY <3>2, <3>3, <1>g, Zenon
    <3> QED
      BY Zenon, <1>b, <3>1, <3>4
  <2>2. CASE OnNewCnx(k)
    <3>1. /\ loop_pc[k] = "token" /\ Goto(k, "fds") /\ UNCHANGED <<filters_, query_fn, peer>>
          /\ tokens' = [tokens EXCEPT ![k][at_fd[k]] = token]
      BY <2>2, Zenon DEF OnNewCnx, LoopAt
    <3>2. at_fd[k] \in adding[k] /\ adding[k] \subseteq Fds
      BY <3>1, <1>0, Zenon DEF Control, TypeOK
    <3>3. \A j \in Loops : tokens[j][at_fd[k]] = 0
      BY <3>2, <1>0, Zenon DEF Owner, Pending
    <3>4. ~query_fn[l][at_fd[k]]
      BY <3>2, <3>3, <1>0, Zenon DEF Framed
    <3>5. \A x \in Fds : query_fn[l][x] => tokens'[l][x] = tokens[l][x]
      BY Zenon, <3>1, <3>4, <1>0 DEF TypeOK
    <3>6. loop_pc[l] # "filters"
      BY <3>1, <1>g, Zenon
    <3> QED
      BY <1>a, <3>1, <3>5, <3>6, Zenon
  <2>3. CASE UpdateFilters(k)
    <3>1. /\ UNCHANGED <<query_fn, tokens, peer>> /\ filters_' = [filters_ EXCEPT ![k] = FiltersOf(k)]
          /\ Goto(k, "poll")
      BY <2>3, Zenon DEF UpdateFilters
    <3>2. CASE k = l
      <4>1. filters_'[l] = FiltersOf(l)
        BY <3>1, <3>2, <1>0, Zenon DEF TypeOK
      <4>2. \A x \in Fds : FilterOf(l, x)' = FilterOf(l, x)
        BY Zenon, <3>1 DEF FilterOf
      <4> QED
        BY <1>0, <3>1, <4>1, <4>2, FiltersOfAll, Zenon
    <3>3. CASE k # l
      <4>1. filters_'[l] = filters_[l] /\ loop_pc'[l] = loop_pc[l]
        BY Zenon, <3>1, <3>3, <1>0 DEF TypeOK, Goto
      <4> QED
        BY <4>1, <3>1, RegisteredKept, Zenon
    <3> QED
      BY Zenon, <3>2, <3>3
  <2>4. ASSUME NEW fd \in Fds, CloseCnx(k, fd) \/ RefuseCnx(k, fd)
        PROVE  \A x \in Fds : query_fn'[l][x] => FilterOf(l, x)' \in filters_'[l]
    <3>1. /\ tokens[k][fd] # 0 /\ UNCHANGED loop_pc
          /\ tokens' = [tokens EXCEPT ![k][fd] = 0]
          /\ query_fn' = [query_fn EXCEPT ![k][fd] = FALSE]
          /\ peer' = [peer EXCEPT ![fd] = 0]
          /\ \/ filters_' = [filters_ EXCEPT ![k] = {f \in FiltersOf(k) : f.fd # fd}]
             \/ UNCHANGED filters_
      BY <2>4, Zenon DEF CloseCnx, RefuseCnx, Ready, Erase
    <3>2. \A x \in Fds : query_fn'[l][x] =>
             query_fn[l][x] /\ x # fd /\ tokens'[l][x] = tokens[l][x] /\ peer'[x] = peer[x]
      <4>1. ASSUME NEW x \in Fds, query_fn'[l][x] PROVE query_fn[l][x] /\ x # fd
        <5>1. query_fn[l][x]
          BY Zenon, <4>1, <3>1, <1>0 DEF TypeOK
        <5>2. CASE k = l
          BY Zenon, <4>1, <3>1, <5>1, <5>2, <1>0 DEF TypeOK
        <5>3. CASE k # l
          <6>1. tokens[l][fd] = 0
            BY <3>1, <5>3, <1>0, Zenon DEF Owner
          <6> QED
            BY <5>1, <6>1, <1>0, Zenon DEF Framed
        <5> QED
          BY Zenon, <5>1, <5>2, <5>3
      <4>2. \A x \in Fds : x # fd => tokens'[l][x] = tokens[l][x] /\ peer'[x] = peer[x]
        BY Zenon, <3>1, <1>0 DEF TypeOK
      <4> QED
        BY Zenon, <4>1, <4>2
    <3>3. CASE filters_'[l] = filters_[l]
      BY <3>1, <3>2, <3>3, RegisteredKept, Zenon
    <3>4. CASE k = l /\ filters_'[l] = {f \in FiltersOf(l) : f.fd # fd}
      <4>1. ASSUME NEW x \in Fds, query_fn'[l][x] PROVE FilterOf(l, x)' \in filters_'[l]
        <5>1. query_fn[l][x] /\ x # fd /\ tokens'[l][x] = tokens[l][x] /\ peer'[x] = peer[x]
          BY <4>1, <3>2, Zenon
        <5>2. FilterOf(l, x)' = FilterOf(l, x)
          BY Zenon, <5>1 DEF FilterOf
        <5>3. FilterOf(l, x) \in FiltersOf(l) /\ FilterOf(l, x).fd = x
          BY <5>1, <1>0, FiltersOfAll, Zenon
        <5> QED
          BY Zenon, <5>1, <5>2, <5>3, <3>4
      <4> QED
        BY Zenon, <4>1
    <3>5. \/ filters_'[l] = filters_[l]
          \/ k = l /\ filters_'[l] = {f \in FiltersOf(l) : f.fd # fd}
      BY Zenon, <3>1, <1>0 DEF TypeOK
    <3> QED
      BY Zenon, <3>3, <3>4, <3>5
  <2>5. ASSUME NEW fd \in Fds, HandleWsInit(k, fd)
        PROVE  \A x \in Fds : query_fn'[l][x] => FilterOf(l, x)' \in filters_'[l]
    <3>1. /\ Goto(k, "filters") /\ UNCHANGED <<filters_, tokens, peer>>
          /\ query_fn' = [query_fn EXCEPT ![k][fd] = TRUE]
      BY <2>5, Zenon DEF HandleWsInit
    <3>2. k # l
      BY Zenon, <3>1, <1>0 DEF Goto, TypeOK
    <3>3. query_fn'[l] = query_fn[l] /\ loop_pc'[l] = loop_pc[l]
      BY Zenon, <3>1, <3>2, <1>0 DEF Goto, TypeOK
    <3> QED
      BY <3>1, <3>3, RegisteredKept, Zenon
  <2>6. ASSUME NEW fd \in Fds, WriteCb(k, fd)
        PROVE  \A x \in Fds : query_fn'[l][x] => FilterOf(l, x)' \in filters_'[l]
    BY <2>6, <1>b, Zenon DEF WriteCb, clientVars
  <2>7. ASSUME NEW fd \in Fds, HeaderAgain(k, fd)
        PROVE  \A x \in Fds : query_fn'[l][x] => FilterOf(l, x)' \in filters_'[l]
    BY <2>7, <1>b, Zenon DEF HeaderAgain, clientVars
  <2> QED
    BY Zenon, <1>2, <2>1, <2>2, <2>3, <2>4, <2>5, <2>6, <2>7 DEF LoopStep
<1>3. CASE IndexEvent \/ AddEvent \/ \E w \in Workers : Worker(w)
  BY <1>3, <1>b, Zenon DEF IndexEvent, AddEvent, Worker, StartWorker, PopEvent, RunFilter, FiltersEnd, clientVars
<1>4. CASE UNCHANGED vars
  BY <1>4, <1>b, Zenon DEF vars, clientVars
<1> QED
  BY Zenon, <1>1, <1>2, <1>3, <1>4 DEF Next

\* What is flushed from a queue leaves it shorter.
LEMMA UnflushedShorter ==
  ASSUME NEW q \in Seq(Frame), NEW buffer \in Seq(Frame), Len(buffer) <= BufCap
  PROVE  Unflushed(q, buffer) \in Seq(Frame) /\ Len(Unflushed(q, buffer)) <= Len(q)
<1>1. /\ Fits(q, buffer) \in 0..Len(q) /\ Unflushed(q, buffer) \in Seq(Frame)
      /\ Len(Unflushed(q, buffer)) = Len(q) - Fits(q, buffer)
  BY FlushParts, Zenon
<1> QED
  BY <1>1

ConnQueuesBounded == \A l \in Loops, fd \in Fds : Len(queue[l][fd]) <= QueueCap + 1
LoopQueuesBounded == \A l \in Loops : Len(event_queues_[l]) <= QueueCap

\* on_async_signal and handle_ws_init keep the queue of a connection within one
\* event of k_max_ws_queue_size.
LEMMA ConnQueuesStep == IInv /\ ConnQueuesBounded /\ [Next]_vars => ConnQueuesBounded'
<1> SUFFICES ASSUME IInv, ConnQueuesBounded, [Next]_vars PROVE ConnQueuesBounded'
  BY Zenon
<1>0. TypeOK /\ Owner /\ Buffers
  BY Zenon DEF IInv
<1>a. ASSUME NEW l \in Loops, NEW fd \in Fds, NEW s \in Seq(Frame), Len(s) <= QueueCap + 1,
             queue' = [queue EXCEPT ![l][fd] = s]
      PROVE  ConnQueuesBounded'
  BY Zenon, <1>a, <1>0 DEF ConnQueuesBounded, TypeOK
<1>b. CASE UNCHANGED queue
  BY Zenon, <1>b DEF ConnQueuesBounded
<1>1. ASSUME NEW l \in Loops, QueueEvent(l) PROVE ConnQueuesBounded'
  <2>1. event_queues_[l] \in Seq(Queued) /\ event_queues_[l] # <<>>
    BY <1>0, <1>1, Zenon DEF QueueEvent, TypeOK
  <2>2. PICK ev \in Queued : ev = Head(event_queues_[l])
    BY <2>1
  <2>3. ev.fd \in Fds /\ FrameFor(ev.event, ev.for) \in Frame
    BY SMTT(30), WebsocketAssumption DEF Queued, Events, FrameFor, Frame
  <2> DEFINE q == Append(queue[l][ev.fd], FrameFor(ev.event, ev.for))
  <2>4. /\ Len(queue[l][ev.fd]) <= QueueCap
        /\ queue' = [queue EXCEPT ![l][ev.fd] = Unflushed(q, w_buffer[ev.fd])]
    BY <1>1, <2>2, Zenon DEF QueueEvent
  <2>5. queue[l][ev.fd] \in Seq(Frame) /\ w_buffer[ev.fd] \in Seq(Frame) /\ Len(w_buffer[ev.fd]) <= BufCap
    BY <1>0, <2>3, Zenon DEF TypeOK, Buffers
  <2>6. q \in Seq(Frame) /\ Len(q) <= QueueCap + 1
    <3>1. Len(queue[l][ev.fd]) \in Nat /\ QueueCap \in Nat
      BY <2>5, WebsocketAssumption
    <3> HIDE DEF FrameFor
    <3> QED
      BY <2>3, <2>4, <2>5, <3>1
  <2> HIDE DEF q
  <2>7. Unflushed(q, w_buffer[ev.fd]) \in Seq(Frame) /\ Len(Unflushed(q, w_buffer[ev.fd])) <= Len(q)
    BY <2>5, <2>6, UnflushedShorter, Zenon
  <2>8. Len(Unflushed(q, w_buffer[ev.fd])) <= QueueCap + 1
    BY <2>6, <2>7, WebsocketAssumption
  <2> QED
    BY <1>a, <2>3, <2>4, <2>7, <2>8, Zenon
<1>2. ASSUME NEW l \in Loops, NEW fd \in Fds, CloseCnx(l, fd) \/ RefuseCnx(l, fd) PROVE ConnQueuesBounded'
  <2>1. queue' = [queue EXCEPT ![l][fd] = <<>>]
    BY <1>2, Zenon DEF CloseCnx, RefuseCnx, Erase
  <2>2. <<>> \in Seq(Frame) /\ Len(<<>>) <= QueueCap + 1
    BY WebsocketAssumption
  <2> QED
    BY <1>a, <2>1, <2>2, Zenon
<1>3. ASSUME NEW l \in Loops, NEW fd \in Fds, HandleWsInit(l, fd) PROVE ConnQueuesBounded'
  <2>1. peer[fd] \in Conns /\ <<FrameFor(0, peer[fd])>> \in Seq(Frame) /\ Len(<<FrameFor(0, peer[fd])>>) <= BufCap
    BY <1>0, <1>3, HandleWsInitAt, Zenon
  <2>2. PICK n \in 0..QueueCap : \E events \in [1..n -> index] :
           queue' = [queue EXCEPT ![l][fd] =
                      Unflushed([i \in 1..n |-> FrameFor(events[i], peer[fd])], <<FrameFor(0, peer[fd])>>)]
    BY <1>3, Zenon DEF HandleWsInit
  <2>3. PICK events \in [1..n -> index] :
           queue' = [queue EXCEPT ![l][fd] =
                      Unflushed([i \in 1..n |-> FrameFor(events[i], peer[fd])], <<FrameFor(0, peer[fd])>>)]
    BY <2>2, Zenon
  <2>4. n \in Nat /\ n <= QueueCap /\ events \in [1..n -> Events]
    BY SMTT(30), <1>0, <2>3, WebsocketAssumption DEF TypeOK
  <2> DEFINE q == SnapshotOf(n, events, peer[fd])
             b == <<FrameFor(0, peer[fd])>>
  <2>5. q \in Seq(Frame) /\ Len(q) = n
    BY <2>1, <2>4, SnapshotType, Zenon
  <2>6. queue' = [queue EXCEPT ![l][fd] = Unflushed(q, b)]
    BY <2>3, Zenon DEF SnapshotOf
  <2>7. b \in Seq(Frame) /\ Len(b) <= BufCap
    BY <2>1, Zenon
  <2> HIDE DEF q, b
  <2>8. Unflushed(q, b) \in Seq(Frame) /\ Len(Unflushed(q, b)) <= Len(q)
    BY <2>5, <2>7, UnflushedShorter, Zenon
  <2>9. Len(Unflushed(q, b)) <= QueueCap + 1
    BY <2>4, <2>5, <2>8, WebsocketAssumption
  <2> QED
    BY <1>a, <2>6, <2>8, <2>9, Zenon
<1>4. \/ UNCHANGED queue
      \/ \E l \in Loops : QueueEvent(l)
      \/ \E l \in Loops, fd \in Fds : CloseCnx(l, fd) \/ RefuseCnx(l, fd) \/ HandleWsInit(l, fd)
  <2>1. \/ UNCHANGED <<peer, tokens, query_fn, outVars, accepted, new_fds_, adding>>
        \/ \E fd \in Fds : AddClient(fd)
        \/ \E l \in Loops : AddFds(l)
        \/ \E l \in Loops : OnNewCnx(l)
        \/ \E l \in Loops : QueueEvent(l)
        \/ \E l \in Loops, fd \in Fds : CloseCnx(l, fd)
        \/ \E l \in Loops, fd \in Fds : RefuseCnx(l, fd)
        \/ \E l \in Loops, fd \in Fds : HandleWsInit(l, fd)
        \/ \E l \in Loops, fd \in Fds : WriteCb(l, fd)
      \/ \E l \in Loops, fd \in Fds : HeaderAgain(l, fd)
    BY Zenon, WhoChanges
  <2> QED
    BY <2>1, Zenon DEF AddClient, AddFds, OnNewCnx, WriteCb, HeaderAgain, outVars
<1> QED
  BY Zenon, <1>b, <1>1, <1>2, <1>3, <1>4

\* A worker puts an event in a loop's queue only if it has room.
LEMMA LoopQueuesStep == IInv /\ LoopQueuesBounded /\ [Next]_vars => LoopQueuesBounded'
<1> SUFFICES ASSUME IInv, LoopQueuesBounded, [Next]_vars PROVE LoopQueuesBounded'
  BY Zenon
<1>0. TypeOK
  BY Zenon DEF IInv
<1>b. CASE UNCHANGED event_queues_
  BY Zenon, <1>b DEF LoopQueuesBounded
<1>1. ASSUME NEW l \in Loops, DropEvent(l) \/ QueueEvent(l) PROVE LoopQueuesBounded'
  <2>1. event_queues_[l] # <<>> /\ event_queues_' = [event_queues_ EXCEPT ![l] = Tail(@)]
    BY <1>1, Zenon DEF DropEvent, QueueEvent
  <2>2. event_queues_[l] \in Seq(Queued) /\ QueueCap \in Nat
    BY <1>0, WebsocketAssumption, Zenon DEF TypeOK
  <2>3. Len(Tail(event_queues_[l])) <= QueueCap
    BY <2>1, <2>2 DEF LoopQueuesBounded
  <2> QED
    BY Zenon, <1>0, <2>1, <2>3 DEF LoopQueuesBounded, TypeOK
<1>2. ASSUME NEW w \in Workers, RunFilter(w) PROVE LoopQueuesBounded'
  <2>1. PICK f \in todo[w] :
          LET item == [event |-> e[w], fd |-> f.fd, token |-> f.token, for |-> f.for]
          IN  \/ /\ Len(event_queues_[f.loop]) < QueueCap
                 /\ event_queues_' = [event_queues_ EXCEPT ![f.loop] = Append(@, item)]
              \/ UNCHANGED event_queues_
    BY <1>2, Zenon DEF RunFilter
  <2>2. f.loop \in Loops
    <3>1. f \in Filter
      BY <1>0, Zenon DEF TypeOK
    <3> QED
      BY Zenon, <3>1 DEF Filter
  <2>3. PICK item :
          \/ /\ Len(event_queues_[f.loop]) < QueueCap
             /\ event_queues_' = [event_queues_ EXCEPT ![f.loop] = Append(@, item)]
          \/ UNCHANGED event_queues_
    BY <2>1, Zenon
  <2>4. CASE /\ Len(event_queues_[f.loop]) < QueueCap
             /\ event_queues_' = [event_queues_ EXCEPT ![f.loop] = Append(@, item)]
    <3>1. event_queues_[f.loop] \in Seq(Queued) /\ QueueCap \in Nat
      BY <1>0, <2>2, WebsocketAssumption, Zenon DEF TypeOK
    <3>2. Len(Append(event_queues_[f.loop], item)) <= QueueCap
      BY <2>4, <3>1
    <3> QED
      BY Zenon, <1>0, <2>2, <2>4, <3>2 DEF LoopQueuesBounded, TypeOK
  <2> QED
    BY Zenon, <1>b, <2>3, <2>4
<1>3. \/ UNCHANGED event_queues_
      \/ \E l \in Loops : DropEvent(l) \/ QueueEvent(l)
      \/ \E w \in Workers : RunFilter(w)
  <2>1. ASSUME NEW l \in Loops, LoopStep(l) PROVE UNCHANGED event_queues_ \/ DropEvent(l) \/ QueueEvent(l)
    BY <2>1, Zenon DEF LoopStep, AddFds, NextToken, OnNewCnx, AddFdsEnd, EventsEnd, UpdateFilters,
       CloseCnx, RefuseCnx, HandleWsInit, HeaderAgain, WriteCb
  <2>2. ASSUME NEW w \in Workers, Worker(w) PROVE UNCHANGED event_queues_ \/ RunFilter(w)
    BY <2>2, Zenon DEF Worker, StartWorker, PopEvent, FiltersEnd
  <2>3. (\E fd \in Fds : AddClient(fd)) \/ IndexEvent \/ AddEvent \/ UNCHANGED vars => UNCHANGED event_queues_
    BY Zenon DEF AddClient, IndexEvent, AddEvent, vars
  <2> QED
    BY <2>1, <2>2, <2>3, Zenon DEF Next
<1> QED
  BY Zenon, <1>b, <1>1, <1>2, <1>3

\* add_event drops what the queue of the workers has no room for.
LEMMA EventQueueStep ==
  IInv /\ Len(event_queue_) <= QueueCap /\ [Next]_vars => (Len(event_queue_) <= QueueCap)'
<1> SUFFICES ASSUME IInv, Len(event_queue_) <= QueueCap, [Next]_vars PROVE Len(event_queue_') <= QueueCap
  BY Zenon
<1>0. event_queue_ \in Seq(Events) /\ QueueCap \in Nat
  BY WebsocketAssumption, Zenon DEF IInv, TypeOK
<1>1. ASSUME AddEvent PROVE Len(event_queue_') <= QueueCap
  <2>1. PICK ev \in publishing : \/ Len(event_queue_) < QueueCap /\ event_queue_' = Append(event_queue_, ev)
                                 \/ UNCHANGED event_queue_
    BY <1>1, Zenon DEF AddEvent
  <2> QED
    BY <1>0, <2>1
<1>2. ASSUME NEW w \in Workers, PopEvent(w) PROVE Len(event_queue_') <= QueueCap
  BY <1>0, <1>2 DEF PopEvent
<1>3. UNCHANGED event_queue_ \/ AddEvent \/ \E w \in Workers : PopEvent(w)
  <2>1. ASSUME NEW l \in Loops, LoopStep(l) PROVE UNCHANGED event_queue_
    BY <2>1, Zenon DEF LoopStep, AddFds, NextToken, OnNewCnx, AddFdsEnd, EventsEnd, UpdateFilters,
       CloseCnx, RefuseCnx, HandleWsInit, HeaderAgain, WriteCb, DropEvent, QueueEvent,
       workerVars
  <2>2. ASSUME NEW w \in Workers, Worker(w) PROVE UNCHANGED event_queue_ \/ PopEvent(w)
    BY <2>2, Zenon DEF Worker, StartWorker, RunFilter, FiltersEnd
  <2>3. (\E fd \in Fds : AddClient(fd)) \/ IndexEvent \/ UNCHANGED vars => UNCHANGED event_queue_
    BY Zenon DEF AddClient, IndexEvent, vars, workerVars
  <2> QED
    BY <2>1, <2>2, <2>3, Zenon DEF Next
<1> QED
  BY Zenon, <1>1, <1>2, <1>3

Served == AllRegistered /\ ConnQueuesBounded /\ LoopQueuesBounded /\ Len(event_queue_) <= QueueCap

\* Whenever a loop waits for events the workers have a filter for each of its
\* subscribers, whatever descriptors are reused and however handle_ws_init,
\* close and refuse interleave; and no queue between the index and a client
\* outgrows the limit that the code compares it with (the client's own by the
\* one event that on_async_signal appends).
THEOREM SubscribersAreServed == Spec => []SubscribersServed
<1>1. Init => Served
  <2>1. Init => AllRegistered
    <3>1. Init => \A l \in Loops, fd \in Fds : query_fn[l][fd] = FALSE
      BY DEF Init
    <3> QED
      BY Zenon, <3>1 DEF AllRegistered
  <2>2. Init => ConnQueuesBounded /\ LoopQueuesBounded /\ Len(event_queue_) <= QueueCap
    BY WebsocketAssumption DEF Init, ConnQueuesBounded, LoopQueuesBounded
  <2> QED
    BY Zenon, <2>1, <2>2 DEF Served
<1>2. IInv /\ Served /\ [Next]_vars => Served'
  BY Zenon, RegisteredStep, ConnQueuesStep, LoopQueuesStep, EventQueueStep DEF Served
<1>3. IInv /\ Served => SubscribersServed
  <2>1. AllRegistered => SubscribersRegistered
    BY Zenon DEF AllRegistered, SubscribersRegistered, FilterOf
  <2>2. IInv /\ Served => QueuesBounded
    BY Zenon DEF IInv, Buffers, Served, QueuesBounded, ConnQueuesBounded, LoopQueuesBounded
  <2> QED
    BY Zenon, <2>1, <2>2 DEF Served, SubscribersServed
<1> QED
  BY <1>1, <1>2, <1>3, InvHolds, PTL DEF Spec
=============================================================================
