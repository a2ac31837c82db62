--------------------------- MODULE TcpClientPool ---------------------------
(***************************************************************************)
(* The client side of tcp (tcp_client_pool.cpp), with which events are     *)
(* forwarded to another server (riemann_tcp_client_pool.cpp) or sent to    *)
(* graphite (graphite_pool.cpp).  Rule threads push events into the queues *)
(* of the loops; a loop turns what is in its queue into one output for its *)
(* connection when there is a batch, or when a timer says so, and a timer  *)
(* connects a loop that has no connection.  tcp_pool.cpp is under it, as   *)
(* under the server (see TcpServer).                                       *)
(*                                                                         *)
(* An output is the sequence of its events, an event takes one unit of     *)
(* the write buffer, and an ack of the server one unit of the read buffer. *)
(***************************************************************************)
EXTENDS Integers, Sequences, FiniteSets, Functions

CONSTANTS Threads,    \* threads that run rules
          BatchSize,  \* batch_size_
          QueueCap,   \* k_queue_capacity
          BuffSize,   \* the capacity of a read or write buffer
          Scenarios,  \* bounds of a run: [loops, events, conns, waiting, closes]
          MaxLoops,   \* the largest number of loops in them
          MaxConns    \* the largest number of connections in them

ASSUME Bounds == /\ BatchSize \in Nat /\ QueueCap \in Nat \ {0} /\ BuffSize \in Nat \ {0}
                 /\ MaxLoops \in Nat /\ MaxConns \in Nat
                 /\ \A x \in Scenarios : /\ x.loops \in 1..MaxLoops /\ x.conns \in 0..MaxConns
                                         /\ x.events \in Nat /\ x.waiting \in Nat /\ x.closes \in Nat

VARIABLES
  scenario,     \* the threads of the pool, and the bounds
  next_thread,  \* next_thread_
  pusher,       \* per rule thread: where it is in push_event
  queues,       \* per loop: thread_event_queues_
  flush,        \* per loop: flush_batch_
  pending,      \* per loop: the async watcher was signalled
  new_fds,      \* per loop: connections handed to tcp_pool
  fds,          \* per loop: the connections watched, and their mode
  conn_maps,    \* per loop and connection: the buffers [r, w]
  out_queues,   \* per loop and connection: fd_event_queues_
  server,       \* connections the server has and those it has closed
  crashed,      \* set_fd_mode was called for a connection that is not watched
  pushed,       \* history: per loop, the events that were queued
  received,     \* history: per connection, the events the server got
  lost,         \* history: events that were dropped after they had been queued
  failed        \* history: per loop, a write has failed

vars == <<scenario, next_thread, pusher, queues, flush, pending, new_fds, fds, conn_maps, out_queues, server,
          crashed, pushed, received, lost, failed>>
loop_vars == <<scenario, new_fds, fds, conn_maps, out_queues, server, crashed, received, lost, failed>>

NL == scenario.loops
Loops == 0..(NL - 1)
Idle == [at |-> "idle", l |-> 0]
ConnIds == 1..MaxConns

Init ==
  /\ scenario \in Scenarios
  /\ next_thread = 0
  /\ pusher = [t \in Threads |-> Idle]
  /\ queues = [l \in Loops |-> <<>>]
  /\ flush = [l \in Loops |-> FALSE]
  /\ pending = [l \in Loops |-> FALSE]
  /\ new_fds = [l \in Loops |-> <<>>]
  /\ fds = [l \in Loops |-> <<>>]
  /\ conn_maps = [l \in Loops |-> <<>>]
  /\ out_queues = [l \in Loops |-> <<>>]
  /\ server = [made |-> 0, closed |-> {}]
  /\ crashed = FALSE
  /\ pushed = [l \in Loops |-> <<>>]
  /\ received = [fd \in ConnIds |-> <<>>]
  /\ lost = {}
  /\ failed = [l \in Loops |-> FALSE]

Events == UNION {Range(pushed[l]) : l \in Loops}

-----------------------------------------------------------------------------
(* push_event.  next_thread_ is shared by the rule threads: it is read for  *)
(* the queue, for the signal and for the next thread, and then written.     *)

TryPush(l) == Len(queues[l]) < QueueCap

PushEvent(t) ==
  LET l == next_thread
      e == Cardinality(Events) + 1
  IN  /\ pusher[t] = Idle /\ e <= scenario.events
      /\ TryPush(l)   \* otherwise the event is dropped and nothing changes
      /\ queues' = [queues EXCEPT ![l] = Append(@, e)]
      /\ pushed' = [pushed EXCEPT ![l] = Append(@, e)]
      /\ pusher' = [pusher EXCEPT ![t] = [at |-> "signal", l |-> l]]
      /\ UNCHANGED <<next_thread, flush, pending, loop_vars>>

Signal(t) ==
  /\ pusher[t].at = "signal"
  /\ IF Len(queues[pusher[t].l]) < BatchSize
     THEN pusher' = [pusher EXCEPT ![t] = Idle] /\ UNCHANGED pending
     ELSE /\ pending' = [pending EXCEPT ![next_thread] = TRUE]
          /\ pusher' = [pusher EXCEPT ![t] = [at |-> "read", l |-> next_thread]]
  /\ UNCHANGED <<next_thread, queues, flush, pushed, loop_vars>>

ReadNext(t) ==
  /\ pusher[t].at = "read"
  /\ pusher' = [pusher EXCEPT ![t] = [at |-> "advance", l |-> next_thread]]
  /\ UNCHANGED <<next_thread, queues, flush, pending, pushed, loop_vars>>

Advance(t) ==
  /\ pusher[t].at = "advance"
  /\ next_thread' = (pusher[t].l + 1) % NL
  /\ pusher' = [pusher EXCEPT ![t] = Idle]
  /\ UNCHANGED <<queues, flush, pending, pushed, loop_vars>>

-----------------------------------------------------------------------------
(* The two periodic tasks of a loop.                                        *)

\* connect_clients, when connect succeeds: otherwise nothing changes.  The
\* connection waits in new_fds until the async callback has run.
ConnectClients(l) ==
  /\ ~crashed /\ out_queues[l] = <<>>
  /\ server.made < scenario.conns /\ Len(new_fds[l]) < scenario.waiting
  /\ server' = [server EXCEPT !.made = @ + 1]
  /\ new_fds' = [new_fds EXCEPT ![l] = Append(@, server.made + 1)]
  /\ pending' = [pending EXCEPT ![l] = TRUE]
  /\ UNCHANGED <<scenario, next_thread, pusher, queues, flush, fds, conn_maps, out_queues, crashed, pushed,
                 received, lost, failed>>

\* Mutant of SignalBatchFlush: the loop is not signalled.
SignalBatchFlush_NoSignal(l) ==
  /\ ~crashed
  /\ flush' = [flush EXCEPT ![l] = TRUE]
  /\ UNCHANGED <<next_thread, pusher, queues, pending, pushed, loop_vars>>

SignalBatchFlush(l) ==
  /\ ~crashed
  /\ flush' = [flush EXCEPT ![l] = TRUE]
  /\ pending' = [pending EXCEPT ![l] = TRUE]
  /\ UNCHANGED <<next_thread, pusher, queues, pushed, loop_vars>>

-----------------------------------------------------------------------------
(* The async callback: tcp_pool::add_fds and create_conn, then async.       *)

Insert(map, keys, v) == [k \in DOMAIN map \cup keys |-> IF k \in DOMAIN map THEN map[k] ELSE v]

\* Mutant of Ready: a loop that has no connection takes its events, too.
Ready_Unconnected(l, outs) == flush[l] \/ Len(queues[l]) > BatchSize

\* The loop has a connection, and a batch or the order to flush.
Ready(l, outs) == outs # <<>> /\ (flush[l] \/ Len(queues[l]) > BatchSize)

\* The connections whose queue has room.
Open(outs) == {fd \in DOMAIN outs : Len(outs[fd]) <= QueueCap}

\* The output is moved into the first queue of the map that has room, the
\* queues after it get an empty one.
Queue(outs, first, output) ==
  [fd \in DOMAIN outs |->
     IF fd \notin Open(outs) THEN outs[fd]
     ELSE Append(outs[fd], IF fd = first THEN output ELSE <<>>)]

AsyncCallback(l) ==
  /\ ~crashed /\ pending[l]
  /\ pending' = [pending EXCEPT ![l] = FALSE]
  /\ new_fds' = [new_fds EXCEPT ![l] = <<>>]
  /\ conn_maps' = [conn_maps EXCEPT ![l] = Insert(@, Range(new_fds[l]), [r |-> 0, w |-> <<>>])]
  /\ LET watched == Insert(fds[l], Range(new_fds[l]), "read")
         outs == Insert(out_queues[l], Range(new_fds[l]), <<>>)
     IN  IF Ready(l, outs) /\ queues[l] # <<>>
         THEN /\ \E first \in IF Open(outs) = {} THEN {0} ELSE Open(outs) :   \* the map is unordered
                   out_queues' = [out_queues EXCEPT ![l] = Queue(outs, first, queues[l])]
              /\ queues' = [queues EXCEPT ![l] = <<>>]
              /\ flush' = [flush EXCEPT ![l] = FALSE]
              /\ lost' = IF Open(outs) = {} THEN lost \cup Range(queues[l]) ELSE lost
              /\ fds' = [fds EXCEPT ![l] =
                   [fd \in DOMAIN watched |-> IF fd \in Open(outs) THEN "readwrite" ELSE watched[fd]]]
              /\ crashed' = ~(Open(outs) \subseteq DOMAIN watched)
         ELSE /\ out_queues' = [out_queues EXCEPT ![l] = outs]
              /\ fds' = [fds EXCEPT ![l] = watched]
              /\ UNCHANGED <<queues, flush, lost, crashed>>
  /\ UNCHANGED <<scenario, next_thread, pusher, server, pushed, received, failed>>

-----------------------------------------------------------------------------
(* data_ready and the end of socket_callback.                               *)

Drop(map, fd) == [k \in DOMAIN map \ {fd} |-> map[k]]

EraseOut(l, fd) == out_queues' = [out_queues EXCEPT ![l] = Drop(@, fd)]

\* socket_callback for a connection with close_connection set.
Close(l, fd) ==
  /\ fds' = [fds EXCEPT ![l] = Drop(@, fd)]
  /\ conn_maps' = [conn_maps EXCEPT ![l] = Drop(@, fd)]

\* The events of the outputs of a queue, in their order.
Joined(outs) ==
  LET upTo[n \in 1..Len(outs)] == IF n = 1 THEN outs[n] ELSE upTo[n - 1] \o outs[n]
  IN  IF outs = <<>> THEN <<>> ELSE upTo[Len(outs)]

Unsent(l, fd) == Range(conn_maps[l][fd].w) \cup Range(Joined(out_queues[l][fd]))

\* How many outputs fit in the write buffer, one after the other.
Fitting(w, outs) ==
  LET Size(n) == Len(Joined(SubSeq(outs, 1, n)))
      fits == {n \in 0..Len(outs) : \A k \in 1..n : Len(w) + Size(k) <= BuffSize}
  IN  CHOOSE n \in fits : \A k \in fits : k <= n

\* Mutant of Rest: what is copied to the buffer stays in the queue.
Rest_All(outs, n) == outs

Rest(outs, n) == SubSeq(outs, n + 1, Len(outs))

\* The connection is readable: the server has closed it, or has sent an ack,
\* for which a full read buffer has no room (nothing takes acks out of it).
\* A read that fails erases the queue.
ReadClosed(l, fd) ==
  /\ ~crashed /\ fd \in DOMAIN fds[l] /\ fd \in server.closed /\ fds[l][fd] # "none"
  /\ conn_maps[l][fd].r < BuffSize
  /\ lost' = lost \cup Unsent(l, fd)
  /\ EraseOut(l, fd)
  /\ Close(l, fd)
  /\ UNCHANGED <<scenario, next_thread, pusher, queues, flush, pending, new_fds, server, crashed, pushed,
                 received, failed>>

\* The mode of a connection for which there is nothing to send.
IdleMode == "read"

\* ack: the callback also reads one of the server's acks.
DataReady(l, fd, ack, wr) ==
  /\ ~crashed /\ fd \in DOMAIN fds[l]
  /\ ack \/ wr
  /\ wr => fds[l][fd] = "readwrite"
  /\ ack => fds[l][fd] # "none" /\ conn_maps[l][fd].r < Len(received[fd]) /\ conn_maps[l][fd].r < BuffSize
  /\ LET x == [conn_maps[l][fd] EXCEPT !.r = IF ack THEN @ + 1 ELSE @]
         outs == out_queues[l][fd]
         n == Fitting(x.w, outs)
         w == x.w \o Joined(SubSeq(outs, 1, n))
     IN  \/ /\ x.w = <<>> /\ outs = <<>>
            /\ conn_maps' = [conn_maps EXCEPT ![l][fd] = x]
            /\ fds' = [fds EXCEPT ![l][fd] = IdleMode]
            /\ UNCHANGED <<out_queues, received, lost, failed>>
         \/ /\ (x.w # <<>> \/ outs # <<>>) /\ ~wr
            /\ conn_maps' = [conn_maps EXCEPT ![l][fd] = x]
            /\ UNCHANGED <<fds, out_queues, received, lost, failed>>
         \/ /\ (x.w # <<>> \/ outs # <<>>) /\ wr
            /\ \/ \E k \in IF w = <<>> THEN {0} ELSE 1..Len(w) :   \* the write takes k units
                    /\ fd \notin server.closed
                    /\ conn_maps' = [conn_maps EXCEPT ![l][fd] =
                                       [x EXCEPT !.w = SubSeq(w, k + 1, Len(w))]]
                    /\ received' = [received EXCEPT ![fd] = @ \o SubSeq(w, 1, k)]
                    /\ out_queues' = [out_queues EXCEPT ![l][fd] = Rest(outs, n)]
                    /\ UNCHANGED <<fds, lost, failed>>
               \/ /\ fd \in server.closed                          \* the write fails
                  /\ lost' = lost \cup Unsent(l, fd)
                  /\ out_queues' = [out_queues EXCEPT ![l][fd] = Rest(outs, n)]
                  /\ failed' = [failed EXCEPT ![l] = TRUE]
                  /\ Close(l, fd)
                  /\ UNCHANGED received
  /\ UNCHANGED <<scenario, next_thread, pusher, queues, flush, pending, new_fds, server, crashed, pushed>>

ServerCloses(fd) ==
  /\ fd \in 1..server.made \ server.closed
  /\ Cardinality(server.closed) < scenario.closes
  /\ server' = [server EXCEPT !.closed = @ \cup {fd}]
  /\ UNCHANGED <<scenario, next_thread, pusher, queues, flush, pending, new_fds, fds, conn_maps, out_queues,
                 crashed, pushed, received, lost, failed>>

Next ==
  \/ \E t \in Threads : PushEvent(t) \/ Signal(t) \/ ReadNext(t) \/ Advance(t)
  \/ \E l \in Loops :
       \/ ConnectClients(l) \/ SignalBatchFlush(l) \/ AsyncCallback(l)
       \/ \E fd \in ConnIds : ReadClosed(l, fd) \/ \E ack, wr \in BOOLEAN : DataReady(l, fd, ack, wr)
  \/ \E fd \in ConnIds : ServerCloses(fd)

Spec == Init /\ [][Next]_vars

\* Every thread goes on, a loop runs its timers and callbacks as long as one of
\* its connections is ready, and the server accepts and reads.
FairSpec ==
  /\ Spec
  /\ WF_vars(\E t \in Threads : Signal(t) \/ ReadNext(t) \/ Advance(t))
  /\ \A l \in 0..(MaxLoops - 1) :
       /\ WF_vars(l \in Loops /\ ConnectClients(l))
       /\ WF_vars(l \in Loops /\ SignalBatchFlush(l))
       /\ WF_vars(l \in Loops /\ AsyncCallback(l))
       /\ WF_vars(l \in Loops /\ \E fd \in ConnIds : ReadClosed(l, fd) \/ DataReady(l, fd, FALSE, TRUE))

-----------------------------------------------------------------------------
(* Properties.                                                              *)

TypeOK ==
  /\ next_thread \in Loops
  /\ \A t \in Threads : pusher[t].at \in {"idle", "signal", "read", "advance"} /\ pusher[t].l \in Loops
  /\ flush \in [Loops -> BOOLEAN] /\ pending \in [Loops -> BOOLEAN] /\ failed \in [Loops -> BOOLEAN]
  /\ \A l \in Loops :
       /\ Len(queues[l]) <= QueueCap
       /\ \A fd \in DOMAIN fds[l] : fd \in ConnIds /\ fds[l][fd] \in {"none", "read", "readwrite"}
       /\ \A fd \in DOMAIN conn_maps[l] : /\ conn_maps[l][fd].r <= BuffSize
                                          /\ Len(conn_maps[l][fd].w) <= BuffSize
       /\ \A fd \in DOMAIN out_queues[l] : Len(out_queues[l][fd]) <= QueueCap + 1
  /\ server.made \in 0..MaxConns /\ server.closed \subseteq 1..server.made
  /\ crashed \in BOOLEAN /\ lost \subseteq Events

\* As long as no write has failed, a loop has a queue of outputs for exactly
\* the connections it watches, so that no output goes to a connection that is
\* gone and a loop without a connection connects again.
QueuesMatchConnections ==
  /\ \A l \in Loops :
       /\ DOMAIN fds[l] = DOMAIN conn_maps[l] /\ DOMAIN fds[l] \subseteq DOMAIN out_queues[l]
       /\ ~failed[l] => DOMAIN out_queues[l] = DOMAIN fds[l]
  /\ crashed => \E l \in Loops : failed[l]

\* An event that was queued is in one place: in its loop's queue, on its way to
\* one connection, with the server, or lost.  What the server gets on a
\* connection are events of one loop, in the order in which they were pushed.
SentOnceInOrder ==
  /\ \A fd \in ConnIds : \A i, j \in DOMAIN received[fd] : i < j => received[fd][i] < received[fd][j]
  /\ crashed \/ \A l \in Loops : \A e \in Range(pushed[l]) :
       LET sent == {fd \in ConnIds : e \in Range(received[fd])}
           under_way == {fd \in DOMAIN fds[l] : e \in Unsent(l, fd)}
       IN  /\ Cardinality(sent) + Cardinality(under_way)
                + Cardinality({e} \cap Range(queues[l])) + Cardinality({e} \cap lost) = 1
           /\ \A k \in Loops \ {l} : sent \cap DOMAIN fds[k] = {}

\* Events and connections are kept together: what push_event has queued goes, by
\* async and data_ready, to a connection that tcp_pool watches, once and in order.
EventsFollowConnections == TypeOK /\ QueuesMatchConnections /\ SentOnceInOrder

\* An event that was queued is lost only with a connection that the server has
\* closed, or because the queues of its loop's connections are full: never
\* because there is no connection yet.
LostOnlyWithConnection ==
  [][lost' # lost =>
       \E l \in Loops : \/ \E fd \in DOMAIN fds[l] \cap server.closed : lost' = lost \cup Unsent(l, fd)
                        \/ /\ out_queues[l] # <<>>
                           /\ \A fd \in DOMAIN out_queues[l] : Len(out_queues[l][fd]) > QueueCap]_vars

\* An output larger than the write buffer is never sent.
Blocked(l) == \E fd \in DOMAIN fds[l] : /\ out_queues[l][fd] # <<>>
                                        /\ Len(Head(out_queues[l][fd])) > BuffSize

Waiting(l) ==
  /\ ~crashed /\ fds[l] # <<>> /\ ~Blocked(l)
  /\ queues[l] # <<>> \/ \E fd \in DOMAIN fds[l] : Unsent(l, fd) # {}

\* As long as a loop has a connection, an event leaves its queue, by the timer's
\* flush if there is no batch, and is sent; but an output larger than the write
\* buffer blocks its connection.
QueuedAreSent == (\E l \in Loops : Waiting(l)) ~> (\A l \in Loops : ~Waiting(l))

\* The server has closed a connection that is watched and can be read.
Unnoticed == \E l \in Loops : \E fd \in DOMAIN fds[l] \cap server.closed :
               conn_maps[l][fd].r < BuffSize

\* A connection the server closes is noticed, unless acks have filled the read
\* buffer.
CloseNoticed == Unnoticed ~> (~Unnoticed \/ crashed)

\* A loop neither keeps its events nor a connection that is gone.
LoopGoesOn == QueuedAreSent /\ CloseNoticed

\* A loop whose connection is gone gets another.
Reconnects == (\E l \in Loops : fds[l] = <<>>) ~> (\A l \in Loops : fds[l] # <<>>)
=============================================================================
