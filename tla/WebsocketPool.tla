--------------------------- MODULE WebsocketPool ---------------------------
(***************************************************************************)
(* Websocket clients of the index (websocket_pool, worker_pool and the     *)
(* tcp_pool beneath them).  Each loop thread owns the connections that the *)
(* main thread hands it.  A connection becomes a subscriber when its HTTP  *)
(* header has been read: it is sent the index, and a filter for it is      *)
(* registered with the workers.  The workers run every published event     *)
(* through their own copy of the filters, and put it in the queue of the   *)
(* loop that owns the subscriber, tagged with the subscriber's descriptor  *)
(* and token: descriptors are reused, so the token says for which          *)
(* connection the event is meant.                                          *)
(*                                                                         *)
(* A connection is a number, of which the code knows nothing: the field    *)
(* "for" of filters, queued events and frames remembers the connection     *)
(* they were made for.  An event is a number, whether a query matches it   *)
(* is left open.  A frame takes one place of the connection's write        *)
(* buffer.  Frame 0 is the response to the HTTP header, and frame -n the   *)
(* response to the n-th further header of the same client.                 *)
(***************************************************************************)
EXTENDS Integers, Sequences, FiniteSets

CONSTANTS NLoops,     \* ws_pool_size
          Fds,        \* file descriptors
          Workers,    \* k_worker_threads
          QueueCap,   \* k_max_ws_queue_size
          BufCap,     \* k_default_buffer_size, in frames
          MaxConns,   \* bound: number of connections accepted
          MaxEvents,  \* bound: number of events indexed
          MaxRepeats, \* max_header_size, in headers that a client ends after its first
          NoFd

ASSUME WebsocketAssumption ==
  /\ NLoops \in Nat \ {0} /\ QueueCap \in Nat \ {0} /\ BufCap \in Nat \ {0}
  /\ MaxConns \in Nat /\ MaxEvents \in Nat /\ MaxRepeats \in Nat
  /\ NoFd \notin Fds

VARIABLES peer,           \* per descriptor, the connection open on it, or 0
          accepted,       \* the number of connections accepted
          token,          \* the global token counter
          new_fds_,       \* per loop, descriptors handed over by the main thread
          signalled,      \* per loop, whether its async watcher is pending
          loop_pc,        \* per loop, what its thread is doing
          adding,         \* per loop, the local new_fds of add_fds
          at_fd,          \* per loop, the descriptor of the running callback
          available_fds,  \* per loop, the local of on_async_signal
          tokens,         \* per loop and descriptor, the token in fd_ctxes_, or 0
          query_fn,       \* per loop and descriptor, whether query_fn is set
          queue,          \* per loop and descriptor, the queue in fd_ctxes_
          w_buffer,       \* per descriptor, the connection's write buffer
          event_queues_,  \* per loop, events for its subscribers
          filters_,       \* per loop, the filters registered with the workers
          event_queue_,   \* published events the workers have to process
          filter_fns,     \* per worker, its copy of the filters
          worker_pc,      \* per worker, what it is doing
          e,              \* per worker, the event it processes
          todo,           \* per worker, the filters it has yet to run
          index,          \* events in the index
          publishing,     \* events in the index that are not yet published
          terminated,     \* an exception left a thread: std::terminate
          sent,           \* per connection, the frames written to its socket
          offered,        \* per connection, the events compared with its query
          repeats         \* per connection, the headers ended after the first one

clientVars == <<peer, accepted, token, new_fds_, adding, at_fd, tokens, query_fn, filters_>>
outVars == <<queue, w_buffer, sent>>
workerVars == <<event_queue_, filter_fns, worker_pc, e, todo, terminated>>
indexVars == <<index, publishing>>
vars == <<clientVars, outVars, workerVars, indexVars, signalled, loop_pc,
          available_fds, event_queues_, offered, repeats>>

Loops == 0..(NLoops - 1)
Conns == 1..MaxConns
Events == 1..MaxEvents

Frame == [event : (-MaxRepeats)..MaxEvents, for : Conns]
Filter == [loop : Loops, fd : Fds, token : Nat, set : BOOLEAN, for : Conns]
Queued == [event : Events, fd : Fds, token : Nat, for : Conns]

FrameFor(ev, conn) == [event |-> ev, for |-> conn]

Init ==
  /\ peer = [fd \in Fds |-> 0] /\ accepted = 0 /\ token = 0
  /\ new_fds_ = [l \in Loops |-> {}] /\ adding = [l \in Loops |-> {}]
  /\ signalled = [l \in Loops |-> FALSE] /\ loop_pc = [l \in Loops |-> "poll"]
  /\ at_fd = [l \in Loops |-> NoFd] /\ available_fds = [l \in Loops |-> {}]
  /\ tokens = [l \in Loops |-> [fd \in Fds |-> 0]]
  /\ query_fn = [l \in Loops |-> [fd \in Fds |-> FALSE]]
  /\ queue = [l \in Loops |-> [fd \in Fds |-> <<>>]]
  /\ w_buffer = [fd \in Fds |-> <<>>]
  /\ event_queues_ = [l \in Loops |-> <<>>]
  /\ filters_ = [l \in Loops |-> {}]
  /\ event_queue_ = <<>>
  /\ filter_fns = [w \in Workers |-> {}] /\ worker_pc = [w \in Workers |-> "start"]
  /\ e = [w \in Workers |-> 0] /\ todo = [w \in Workers |-> {}]
  /\ index = {} /\ publishing = {} /\ terminated = FALSE
  /\ sent = [c \in Conns |-> <<>>] /\ offered = [c \in Conns |-> {}]
  /\ repeats = [c \in Conns |-> 0]

-----------------------------------------------------------------------------
(* The main thread accepts a client and hands it to the next loop.          *)

AddClient(fd) ==
  /\ ~terminated
  /\ peer[fd] = 0
  /\ accepted < MaxConns
  /\ accepted' = accepted + 1
  /\ peer' = [peer EXCEPT ![fd] = accepted + 1]
  /\ LET l == (accepted + 1) % NLoops
     IN  /\ new_fds_' = [new_fds_ EXCEPT ![l] = @ \cup {fd}]
         /\ signalled' = [signalled EXCEPT ![l] = TRUE]
  /\ UNCHANGED <<token, adding, at_fd, tokens, query_fn, filters_, outVars,
                 workerVars, indexVars, loop_pc, available_fds, event_queues_, offered, repeats>>

-----------------------------------------------------------------------------
(* The async callback of loop l: add_fds, then on_async_signal.             *)

LoopAt(l, at) == ~terminated /\ loop_pc[l] = at

Goto(l, at) == loop_pc' = [loop_pc EXCEPT ![l] = at]

\* async_hook: add_fds takes the new descriptors over, under the mutex.
AddFds(l) ==
  /\ LoopAt(l, "poll")
  /\ signalled[l]
  /\ signalled' = [signalled EXCEPT ![l] = FALSE]
  /\ adding' = [adding EXCEPT ![l] = new_fds_[l]]
  /\ new_fds_' = [new_fds_ EXCEPT ![l] = {}]
  /\ Goto(l, "fds")
  /\ UNCHANGED <<peer, accepted, token, at_fd, tokens, query_fn, filters_, outVars,
                 workerVars, indexVars, available_fds, event_queues_, offered, repeats>>

\* on_new_cnx: next_token increments the counter...
NextToken(l) ==
  /\ LoopAt(l, "fds")
  /\ \E fd \in adding[l] : at_fd' = [at_fd EXCEPT ![l] = fd]
  /\ token' = token + 1
  /\ Goto(l, "token")
  /\ UNCHANGED <<peer, accepted, new_fds_, adding, tokens, query_fn, filters_, outVars,
                 workerVars, indexVars, signalled, available_fds, event_queues_, offered, repeats>>

\* ... and reads it in a second step, when another loop may have moved it on.
OnNewCnx(l) ==
  /\ LoopAt(l, "token")
  /\ LET fd == at_fd[l]
     IN  /\ tokens' = [tokens EXCEPT ![l][fd] = token]
         /\ adding' = [adding EXCEPT ![l] = @ \ {fd}]
  /\ Goto(l, "fds")
  /\ UNCHANGED <<peer, accepted, token, new_fds_, at_fd, query_fn, filters_, outVars,
                 workerVars, indexVars, signalled, available_fds, event_queues_, offered, repeats>>

\* add_fds is through; on_async_signal collects the loop's connections.
AddFdsEnd(l) ==
  /\ LoopAt(l, "fds")
  /\ adding[l] = {}
  /\ available_fds' = [available_fds EXCEPT ![l] = {fd \in Fds : tokens[l][fd] # 0}]
  /\ Goto(l, "events")
  /\ UNCHANGED <<clientVars, outVars, workerVars, indexVars, signalled,
                 event_queues_, offered, repeats>>

\* flush_fd_queue moves as many frames as the write buffer has room for.
Fits(q, buffer) == IF Len(q) <= BufCap - Len(buffer) THEN Len(q) ELSE BufCap - Len(buffer)

\* Mutant of Flushed: queue_write inserts at the beginning of the buffer.
Flushed_Front(q, buffer) == SubSeq(q, 1, Fits(q, buffer)) \o buffer

Flushed(q, buffer) == buffer \o SubSeq(q, 1, Fits(q, buffer))
Unflushed(q, buffer) == SubSeq(q, Fits(q, buffer) + 1, Len(q))

\* Mutant of IsCurrent: the token is not compared.
IsCurrent_AnyToken(l) == tokens[l][Head(event_queues_[l]).fd] # 0

\* The front event of the loop's queue: is it for a connection that is open?
IsCurrent(l) ==
  LET ev == Head(event_queues_[l])
  IN  tokens[l][ev.fd] # 0 /\ tokens[l][ev.fd] = ev.token

\* on_async_signal: an event for a connection that is gone, or whose queue is
\* full, is dropped.
DropEvent(l) ==
  /\ LoopAt(l, "events")
  /\ event_queues_[l] # <<>>
  /\ \/ ~IsCurrent(l)
     \/ Len(queue[l][Head(event_queues_[l]).fd]) > QueueCap
  /\ event_queues_' = [event_queues_ EXCEPT ![l] = Tail(@)]
  /\ UNCHANGED <<clientVars, outVars, workerVars, indexVars, signalled, loop_pc,
                 available_fds, offered, repeats>>

\* on_async_signal: the event joins the queue of its connection, which is
\* flushed; when no connection has room the callback ends.
QueueEvent(l) ==
  /\ LoopAt(l, "events")
  /\ event_queues_[l] # <<>>
  /\ IsCurrent(l)
  /\ LET ev == Head(event_queues_[l])
         q == Append(queue[l][ev.fd], FrameFor(ev.event, ev.for))
         rest == Unflushed(q, w_buffer[ev.fd])
         left == IF rest = <<>> THEN available_fds[l] ELSE available_fds[l] \ {ev.fd}
     IN  /\ Len(queue[l][ev.fd]) <= QueueCap
         /\ queue' = [queue EXCEPT ![l][ev.fd] = rest]
         /\ w_buffer' = [w_buffer EXCEPT ![ev.fd] = Flushed(q, w_buffer[ev.fd])]
         /\ available_fds' = [available_fds EXCEPT ![l] = left]
         /\ IF rest # <<>> /\ left = {} THEN Goto(l, "poll") ELSE UNCHANGED loop_pc
  /\ event_queues_' = [event_queues_ EXCEPT ![l] = Tail(@)]
  /\ UNCHANGED <<clientVars, sent, workerVars, indexVars, signalled, offered, repeats>>

\* on_async_signal finds its queue empty.
EventsEnd(l) ==
  /\ LoopAt(l, "events")
  /\ event_queues_[l] = <<>>
  /\ Goto(l, "poll")
  /\ UNCHANGED <<clientVars, outVars, workerVars, indexVars, signalled,
                 available_fds, event_queues_, offered, repeats>>

-----------------------------------------------------------------------------
(* on_fd_ready of a connection of loop l, called by tcp_pool's               *)
(* socket_callback, which closes the descriptor when the connection is done. *)

Ready(l, fd) == LoopAt(l, "poll") /\ tokens[l][fd] # 0

\* The filters of a loop as update_filters builds them: one for every entry
\* of fd_ctxes_, whether its query_fn is set or not.
FiltersOf(l) ==
  {[loop |-> l, fd |-> fd, token |-> tokens[l][fd], set |-> query_fn[l][fd],
    for |-> peer[fd]] : fd \in {x \in Fds : tokens[l][x] # 0}}

\* Mutant of Erase: fd_ctxes_ keeps its entry.
Erase_KeepCtx(l, fd) ==
  /\ w_buffer' = [w_buffer EXCEPT ![fd] = <<>>]
  /\ peer' = [peer EXCEPT ![fd] = 0]
  /\ UNCHANGED <<tokens, query_fn, queue>>

\* fd_ctxes_.erase, and socket_callback removes the descriptor, closing it.
Erase(l, fd) ==
  /\ tokens' = [tokens EXCEPT ![l][fd] = 0]
  /\ query_fn' = [query_fn EXCEPT ![l][fd] = FALSE]
  /\ queue' = [queue EXCEPT ![l][fd] = <<>>]
  /\ w_buffer' = [w_buffer EXCEPT ![fd] = <<>>]
  /\ peer' = [peer EXCEPT ![fd] = 0]

\* The client is gone, sent more than max_header_size, a write failed, or the
\* buffer has no room for the response to a further header.
CloseCnx(l, fd) ==
  /\ Ready(l, fd)
  /\ Erase(l, fd)
  /\ filters_' = [filters_ EXCEPT ![l] = {f \in FiltersOf(l) : f.fd # fd}]
  /\ UNCHANGED <<accepted, token, new_fds_, adding, at_fd, sent, workerVars,
                 indexVars, signalled, loop_pc, available_fds, event_queues_, offered, repeats>>

\* handle_ws_init fails: something was read, and there is no query yet (the
\* header is incomplete or holds none).  The filters stay as they are.
RefuseCnx(l, fd) ==
  /\ Ready(l, fd)
  /\ ~query_fn[l][fd]
  /\ Erase(l, fd)
  /\ UNCHANGED <<accepted, token, new_fds_, adding, at_fd, filters_, sent, workerVars,
                 indexVars, signalled, loop_pc, available_fds, event_queues_, offered, repeats>>

\* The whole header arrives: the response is queued, query_fn is set, and what
\* the query matches in the index is queued and flushed.
HandleWsInit(l, fd) ==
  /\ Ready(l, fd)
  /\ ~query_fn[l][fd]
  /\ query_fn' = [query_fn EXCEPT ![l][fd] = TRUE]
  /\ \E n \in 0..QueueCap : \E events \in [1..n -> index] :
       /\ \A i, j \in 1..n : events[i] = events[j] => i = j
       /\ LET q == [i \in 1..n |-> FrameFor(events[i], peer[fd])]
              buffer == <<FrameFor(0, peer[fd])>>
          IN  /\ queue' = [queue EXCEPT ![l][fd] = Unflushed(q, buffer)]
              /\ w_buffer' = [w_buffer EXCEPT ![fd] = Flushed(q, buffer)]
  /\ offered' = [offered EXCEPT ![peer[fd]] = @ \cup index]
  /\ at_fd' = [at_fd EXCEPT ![l] = fd]
  /\ Goto(l, "filters")
  /\ UNCHANGED <<peer, accepted, token, new_fds_, adding, tokens, filters_, sent,
                 workerVars, indexVars, signalled, available_fds, event_queues_, repeats>>

\* What the client sends after its header.  read_cb takes the state for one in
\* which the header is read, whatever the state is, and nothing is ever removed
\* from the read buffer: when it ends in a blank line again the same response is
\* queued again, behind what is in the write buffer.
HeaderAgain(l, fd) ==
  /\ Ready(l, fd)
  /\ query_fn[l][fd]
  /\ repeats[peer[fd]] < MaxRepeats
  /\ Len(w_buffer[fd]) < BufCap
  /\ LET n == repeats[peer[fd]] + 1
     IN  /\ repeats' = [repeats EXCEPT ![peer[fd]] = n]
         /\ w_buffer' = [w_buffer EXCEPT ![fd] = Append(@, FrameFor(-n, peer[fd]))]
  /\ UNCHANGED <<clientVars, queue, sent, workerVars, indexVars, signalled, loop_pc,
                 available_fds, event_queues_, offered>>

\* Mutant of UpdateFilters: only the new subscriber is registered.
UpdateFilters_Only(l) ==
  /\ LoopAt(l, "filters")
  /\ filters_' = [filters_ EXCEPT ![l] = {f \in FiltersOf(l) : f.fd = at_fd[l]}]
  /\ Goto(l, "poll")
  /\ UNCHANGED <<peer, accepted, token, new_fds_, adding, at_fd, tokens, query_fn,
                 outVars, workerVars, indexVars, signalled, available_fds,
                 event_queues_, offered, repeats>>

\* handle_ws_init ends with update_filters.
UpdateFilters(l) ==
  /\ LoopAt(l, "filters")
  /\ filters_' = [filters_ EXCEPT ![l] = FiltersOf(l)]
  /\ Goto(l, "poll")
  /\ UNCHANGED <<peer, accepted, token, new_fds_, adding, at_fd, tokens, query_fn,
                 outVars, workerVars, indexVars, signalled, available_fds,
                 event_queues_, offered, repeats>>

\* write_cb: the socket takes some of the write buffer.
WriteCb(l, fd) ==
  /\ Ready(l, fd)
  /\ \E n \in 1..Len(w_buffer[fd]) :
       /\ sent' = [sent EXCEPT ![peer[fd]] = @ \o SubSeq(w_buffer[fd], 1, n)]
       /\ w_buffer' = [w_buffer EXCEPT ![fd] = SubSeq(@, n + 1, Len(@))]
  /\ UNCHANGED <<clientVars, queue, workerVars, indexVars, signalled, loop_pc,
                 available_fds, event_queues_, offered, repeats>>

LoopStep(l) ==
  \/ AddFds(l) \/ NextToken(l) \/ OnNewCnx(l) \/ AddFdsEnd(l)
  \/ DropEvent(l) \/ QueueEvent(l) \/ EventsEnd(l) \/ UpdateFilters(l)
  \/ \E fd \in Fds : CloseCnx(l, fd) \/ RefuseCnx(l, fd) \/ HandleWsInit(l, fd)
                     \/ HeaderAgain(l, fd) \/ WriteCb(l, fd)

-----------------------------------------------------------------------------
(* The index, as its subscriber sees it: an event is put in the index and    *)
(* then published.                                                           *)

IndexEvent ==
  /\ ~terminated
  /\ \E ev \in Events \ index :
       /\ ev = Cardinality(index) + 1
       /\ index' = index \cup {ev}
       /\ publishing' = publishing \cup {ev}
  /\ UNCHANGED <<clientVars, outVars, workerVars, signalled, loop_pc, available_fds,
                 event_queues_, offered, repeats>>

\* worker_pool::add_event: without clients, or when the queue is full, the
\* event is dropped.
AddEvent ==
  /\ ~terminated
  /\ \E ev \in publishing :
       /\ publishing' = publishing \ {ev}
       /\ IF (\E l \in Loops : filters_[l] # {}) /\ Len(event_queue_) < QueueCap
          THEN event_queue_' = Append(event_queue_, ev)
          ELSE UNCHANGED event_queue_
  /\ UNCHANGED <<clientVars, outVars, filter_fns, worker_pc, e, todo, terminated, index,
                 signalled, loop_pc, available_fds, event_queues_, offered, repeats>>

-----------------------------------------------------------------------------
(* A worker in process_events.                                              *)

WorkerAt(w, at) == ~terminated /\ worker_pc[w] = at

AllFilters == UNION {filters_[l] : l \in Loops}

\* The thread starts and copies the filters.
StartWorker(w) ==
  /\ WorkerAt(w, "start")
  /\ filter_fns' = [filter_fns EXCEPT ![w] = AllFilters]
  /\ worker_pc' = [worker_pc EXCEPT ![w] = "pop"]
  /\ UNCHANGED <<clientVars, outVars, event_queue_, e, todo, terminated, indexVars,
                 signalled, loop_pc, available_fds, event_queues_, offered, repeats>>

PopEvent(w) ==
  /\ WorkerAt(w, "pop")
  /\ event_queue_ # <<>>
  /\ e' = [e EXCEPT ![w] = Head(event_queue_)]
  /\ event_queue_' = Tail(event_queue_)
  /\ todo' = [todo EXCEPT ![w] = filter_fns[w]]
  /\ worker_pc' = [worker_pc EXCEPT ![w] = "filter"]
  /\ UNCHANGED <<clientVars, outVars, filter_fns, terminated, indexVars, signalled,
                 loop_pc, available_fds, event_queues_, offered, repeats>>

\* One filter is run.  An empty query_fn throws and the process terminates.
RunFilter(w) ==
  /\ WorkerAt(w, "filter")
  /\ \E f \in todo[w] :
       /\ todo' = [todo EXCEPT ![w] = @ \ {f}]
       /\ terminated' = ~f.set
       /\ offered' = [offered EXCEPT ![f.for] = @ \cup {e[w]}]
       /\ LET item == [event |-> e[w], fd |-> f.fd, token |-> f.token, for |-> f.for]
          IN  \/ /\ f.set /\ Len(event_queues_[f.loop]) < QueueCap
                 /\ event_queues_' = [event_queues_ EXCEPT ![f.loop] = Append(@, item)]
                 /\ signalled' = [signalled EXCEPT ![f.loop] = TRUE]
              \/ UNCHANGED <<event_queues_, signalled>>
  /\ UNCHANGED <<clientVars, outVars, event_queue_, filter_fns, worker_pc, e, indexVars,
                 loop_pc, available_fds, repeats>>

\* All filters are run; if two seconds have passed the filters are copied again.
FiltersEnd(w) ==
  /\ WorkerAt(w, "filter")
  /\ todo[w] = {}
  /\ \E fns \in {filter_fns[w], AllFilters} : filter_fns' = [filter_fns EXCEPT ![w] = fns]
  /\ worker_pc' = [worker_pc EXCEPT ![w] = "pop"]
  /\ UNCHANGED <<clientVars, outVars, event_queue_, e, todo, terminated, indexVars,
                 signalled, loop_pc, available_fds, event_queues_, offered, repeats>>

Worker(w) == StartWorker(w) \/ PopEvent(w) \/ RunFilter(w) \/ FiltersEnd(w)

Next ==
  \/ \E fd \in Fds : AddClient(fd)
  \/ \E l \in Loops : LoopStep(l)
  \/ IndexEvent \/ AddEvent
  \/ \E w \in Workers : Worker(w)

Spec == Init /\ [][Next]_vars

\* Threads run when they can, and clients read what they are sent.
Fairness ==
  /\ \A l \in Loops :
       /\ WF_vars(AddFds(l) \/ NextToken(l) \/ OnNewCnx(l) \/ AddFdsEnd(l)
                  \/ DropEvent(l) \/ QueueEvent(l) \/ EventsEnd(l) \/ UpdateFilters(l))
       /\ \A fd \in Fds : SF_vars(WriteCb(l, fd))
  /\ WF_vars(AddEvent)
  /\ \A w \in Workers : WF_vars(Worker(w))

FairSpec == Spec /\ Fairness

-----------------------------------------------------------------------------
(* Properties.                                                              *)

\* The types of the pool's tables and queues; no filter, queued event or frame
\* belongs to a connection that does not exist.
TypeOK ==
  /\ peer \in [Fds -> 0..MaxConns] /\ accepted \in 0..MaxConns /\ token \in Nat
  /\ new_fds_ \in [Loops -> SUBSET Fds] /\ adding \in [Loops -> SUBSET Fds]
  /\ signalled \in [Loops -> BOOLEAN] /\ available_fds \in [Loops -> SUBSET Fds]
  /\ loop_pc \in [Loops -> {"poll", "fds", "token", "events", "filters"}]
  /\ at_fd \in [Loops -> Fds \cup {NoFd}]
  /\ tokens \in [Loops -> [Fds -> Nat]] /\ query_fn \in [Loops -> [Fds -> BOOLEAN]]
  /\ queue \in [Loops -> [Fds -> Seq(Frame)]] /\ w_buffer \in [Fds -> Seq(Frame)]
  /\ event_queues_ \in [Loops -> Seq(Queued)]
  /\ filters_ \in [Loops -> SUBSET Filter] /\ event_queue_ \in Seq(Events)
  /\ filter_fns \in [Workers -> SUBSET Filter] /\ todo \in [Workers -> SUBSET Filter]
  /\ worker_pc \in [Workers -> {"start", "pop", "filter"}]
  /\ e \in [Workers -> 0..MaxEvents]
  /\ index \subseteq Events /\ publishing \subseteq Events /\ terminated \in BOOLEAN
  /\ sent \in [Conns -> Seq(Frame)] /\ offered \in [Conns -> SUBSET Events]
  /\ repeats \in [Conns -> 0..MaxRepeats]

\* A client is sent only what was selected with its own query, although
\* descriptors are reused while events tagged with them are still queued, and
\* although next_token increments and reads its counter in two steps.
RightPeer == \A c \in Conns : \A i \in DOMAIN sent[c] : sent[c][i].for = c

\* The response to the first HTTP header is the first thing a client is sent.
ResponseFirst ==
  \A c \in Conns : \A i \in DOMAIN sent[c] : sent[c][i].event = 0 <=> i = 1

\* The frame is the response to a header that the client ended after its first.
Again(f) == f.event < 0

\* The n-th further response is sent only when the client has ended n further
\* headers, after all the earlier responses, and once.
OnePerHeader ==
  \A c \in Conns : \A j \in DOMAIN sent[c] : Again(sent[c][j]) =>
    /\ -sent[c][j].event <= repeats[c]
    /\ \A i \in DOMAIN sent[c] : i < j /\ Again(sent[c][i]) =>
         sent[c][j].event < sent[c][i].event

\* The response to the HTTP header is the first thing a client is sent: no event
\* overtakes it.  Among the events come at most as many further responses as the
\* client ended headers, in their order, because what it sends later is read as a
\* header too.
HandshakeFirst == ResponseFirst /\ OnePerHeader

\* Whenever a loop waits for events, the workers have a filter for each of its
\* subscribers: an event indexed from now on is compared with its query as soon
\* as the workers copy the filters again.
SubscribersRegistered ==
  \A l \in Loops : loop_pc[l] = "poll" =>
    \A fd \in Fds : query_fn[l][fd] =>
      [loop |-> l, fd |-> fd, token |-> tokens[l][fd], set |-> TRUE,
       for |-> peer[fd]] \in filters_[l]

\* The queue of a connection holds at most one event more than the limit that
\* on_async_signal compares it with, and no other queue or buffer overflows.
QueuesBounded ==
  /\ \A l \in Loops, fd \in Fds : Len(queue[l][fd]) <= QueueCap + 1
  /\ \A fd \in Fds : Len(w_buffer[fd]) <= BufCap
  /\ \A l \in Loops : Len(event_queues_[l]) <= QueueCap
  /\ Len(event_queue_) <= QueueCap

\* A worker never calls an empty query_fn.
QueriesAreSet == ~terminated

\* What is queued for a client that reads is sent, unless the client goes.
QueuedIsSent ==
  \A l \in Loops, fd \in Fds : queue[l][fd] # <<>> ~> (queue[l][fd] = <<>> \/ terminated)

\* Every event in the index is compared with the query of every subscriber, or
\* still on its way to the workers.
AllEventsOffered ==
  \A l \in Loops, fd \in Fds : \A ev \in index :
    (query_fn[l][fd] /\ loop_pc[l] = "poll") =>
       \/ ev \in offered[peer[fd]] \cup publishing
       \/ \E i \in DOMAIN event_queue_ : event_queue_[i] = ev
       \/ \E w \in Workers : e[w] = ev /\ WorkerAt(w, "filter")

\* Whoever subscribes is registered with the workers, and no queue on the way
\* to the subscriber outgrows its limit.
SubscribersServed == SubscribersRegistered /\ QueuesBounded
=============================================================================
