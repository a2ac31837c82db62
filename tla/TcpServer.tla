----------------------------- MODULE TcpServer -----------------------------
(***************************************************************************)
(* The way of an event into the rules: clients connect, the main loop      *)
(* hands their descriptors to the loops of the tcp pool (tcp_pool.cpp,     *)
(* async_thread_pool.cpp), a connection cuts the bytes into messages       *)
(* (tcp_connection.cpp, riemann_tcp_connection.cpp), acknowledges each and *)
(* gives it to the executor (executor_thread_pool.cpp), whose workers push *)
(* its events through the streams.  The core starts and stops all of this  *)
(* (real_core.cpp) next to other threads that push events: the scheduler,  *)
(* the udp loop and the index's expirer.                                   *)
(*                                                                         *)
(* A peer's bytes are only counted: message i of a connection is a header  *)
(* of HeaderLen bytes that announces its size and a body of that size, so  *)
(* the read buffer is the interval from "pos" to "got" of the peer's bytes *)
(* and the write buffer is a number of bytes.                              *)
(***************************************************************************)
EXTENDS Integers, Sequences, FiniteSets

CONSTANTS Conns,      \* connections that clients make
          Fds,        \* descriptors the kernel can give them, numbers
          NL, NW,     \* threads of the tcp pool and of the executor
          HeaderLen,  \* 4 bytes
          AckLen,     \* the size of ok_response
          BuffSize,   \* k_default_buffer_size
          QueueCap,   \* k_max_queue_size
          Scenarios   \* who is active: the sizes of the messages each client sends,
                      \* whether clients leave, the threads besides the workers
                      \* that push events, and whether the process is stopped

ASSUME Sizes == NL \in Nat \ {0} /\ NW \in Nat \ {0} /\ "none" \notin Conns
ASSUME Buffers == /\ HeaderLen \in Nat \ {0} /\ AckLen \in Nat /\ QueueCap \in Nat
                  /\ BuffSize \in Nat /\ HeaderLen <= BuffSize
ASSUME Activity == \A s \in Scenarios : /\ s.stops \in BOOLEAN /\ s.leave \in BOOLEAN
                                       /\ \A c \in DOMAIN s.msgs : s.msgs[c] \in Seq(Nat)

VARIABLES
  main,         \* where the main thread is
  core,         \* [set: g_core points to the core, rules: they are loaded]; the scenario's stops and leave
  owner,        \* the connection a descriptor stands for
  peer,         \* per connection: [at, msgs]; at is "new", "open", "gone", or "never"
  next_loop,    \* async_thread_pool's next_thread_
  new_fds,      \* per loop: descriptors handed over
  pending,      \* per loop: the async watcher was signalled
  stop,         \* [pool, loops, streams]: the stop_ of the pool, the loops with theirs set, the streams'
  fds,          \* per loop: the descriptors watched, and their mode
  conn_maps,    \* per loop and descriptor: the tcp_connection
  connections,  \* per loop and descriptor: the riemann_tcp_connection
  loop,         \* per loop: what its thread does
  next_thread,  \* the executor's next_thread_
  tasks,        \* per worker: its queue
  worker,       \* per worker: what it does
  gauges,       \* [tasks, conns]: the two gauges
  others,       \* the threads that push events besides the workers
  handed,       \* history: per connection, the messages given to the executor
  acked,        \* history: per connection, the bytes of acks its peer has
  ran           \* history: the tasks that ran

pool_vars == <<owner, peer, next_loop, new_fds, pending, fds, conn_maps, connections, acked>>
exec_vars == <<next_thread, tasks, worker, ran>>
vars == <<main, core, stop, loop, gauges, others, handed, pool_vars, exec_vars>>

Loops == 0..(NL - 1)
Workers == 0..(NW - 1)
NoConn == "none"
Idle == [at |-> "idle"]
Exited == [at |-> "exited"]
StopTask == [stop |-> TRUE]

\* The stops of real_core::start, in their order, and then g_core.reset().
Phases == <<"ctor", "loaded", "run", "stop_sched", "stop_executor", "join_executor", "stop_streams",
            "stop_tcp", "join_tcp", "stop_udp", "reset", "destroyed">>
PhaseOf(p) == CHOOSE i \in DOMAIN Phases : Phases[i] = p
Reached(p) == PhaseOf(main.at) >= PhaseOf(p)
Go(p) == main' = [at |-> p, i |-> 0]

Others == {"sched", "udp", "expirer"}

Init ==
  /\ \E s \in Scenarios :
       /\ peer = [c \in Conns |-> IF c \in DOMAIN s.msgs THEN [at |-> "new", msgs |-> s.msgs[c]]
                                 ELSE [at |-> "never", msgs |-> <<>>]]
       /\ core = [set |-> FALSE, rules |-> FALSE, stops |-> s.stops, leave |-> s.leave]
       /\ others = [o \in Others |-> IF o \notin s.others THEN "quiet"
                                     ELSE IF o = "expirer" THEN "off" ELSE "idle"]
  /\ main = [at |-> "ctor", i |-> 0]
  /\ owner = [fd \in Fds |-> NoConn]
  /\ next_loop = 0
  /\ new_fds = [l \in Loops |-> <<>>]
  /\ pending = [l \in Loops |-> FALSE]
  /\ stop = [pool |-> FALSE, loops |-> {}, streams |-> FALSE]
  /\ fds = [l \in Loops |-> <<>>]
  /\ conn_maps = [l \in Loops |-> <<>>]
  /\ connections = [l \in Loops |-> <<>>]
  /\ loop = [l \in Loops |-> Idle]
  /\ next_thread = 0
  /\ tasks = [w \in Workers |-> <<>>]
  /\ worker = [w \in Workers |-> Idle]
  /\ gauges = [tasks |-> 0, conns |-> 0]
  /\ handed = [c \in Conns |-> <<>>]
  /\ acked = [c \in Conns |-> 0]
  /\ ran = {}

-----------------------------------------------------------------------------
(* A peer's bytes.                                                          *)

\* The bytes before message i of a sequence of messages.
Start(msgs, i) ==
  LET upTo[k \in 0..Len(msgs)] == IF k = 0 THEN 0 ELSE upTo[k - 1] + HeaderLen + msgs[k]
  IN  upTo[i - 1]
Total(msgs) == Start(msgs, Len(msgs) + 1)

\* The message whose header starts at a position, 0 if it is no header.
HeaderAt(msgs, pos) ==
  LET at == {i \in DOMAIN msgs : Start(msgs, i) = pos}
  IN  IF at = {} THEN 0 ELSE CHOOSE i \in at : TRUE

Whole(msgs, got) == Cardinality({i \in DOMAIN msgs : Start(msgs, i + 1) <= got})

-----------------------------------------------------------------------------
(* Connections: add_client by the main loop's thread, add_fds by the loop.  *)

\* accept returns the lowest descriptor that is free.
Lowest(fd) == owner[fd] = NoConn /\ \A k \in Fds : k < fd => owner[k] # NoConn

Accept(c, fd) ==
  /\ main.at = "run" /\ peer[c].at = "new" /\ Lowest(fd)
  /\ peer' = [peer EXCEPT ![c].at = "open"]
  /\ owner' = [owner EXCEPT ![fd] = c]
  /\ next_loop' = (next_loop + 1) % NL
  /\ new_fds' = [new_fds EXCEPT ![next_loop'] = Append(@, fd)]
  /\ pending' = [pending EXCEPT ![next_loop'] = TRUE]
  /\ UNCHANGED <<main, core, stop, loop, gauges, others, handed, fds, conn_maps, connections, acked,
                 exec_vars>>

PeerClose(c) ==
  /\ peer[c].at = "open" /\ core.leave
  /\ peer' = [peer EXCEPT ![c].at = "gone"]
  /\ UNCHANGED <<main, core, stop, loop, gauges, others, handed, owner, next_loop, new_fds, pending, fds,
                 conn_maps, connections, acked, exec_vars>>

\* std::map::insert: what is there stays.
Insert(map, more) == [k \in DOMAIN map \cup DOMAIN more |-> IF k \in DOMAIN map THEN map[k] ELSE more[k]]

TcpConnection(fd) == [c |-> owner[fd], pos |-> 0, got |-> 0, w |-> 0, close |-> FALSE]
RiemannTcpConnection == [reading_header |-> TRUE, size |-> 0]

\* The async callback: leave the loop, or pass the pool's stop on to it, or
\* take over the new descriptors.
AsyncCallback(l) ==
  /\ loop[l] = Idle /\ pending[l]
  /\ IF l \in stop.loops
     THEN /\ loop' = [loop EXCEPT ![l] = Exited]
          /\ pending' = [pending EXCEPT ![l] = FALSE]
          /\ UNCHANGED <<stop, new_fds, fds, conn_maps, connections, gauges>>
     ELSE IF stop.pool
     THEN /\ stop' = [stop EXCEPT !.loops = @ \cup {l}]   \* and the loop is signalled again
          /\ UNCHANGED <<loop, pending, new_fds, fds, conn_maps, connections, gauges>>
     ELSE LET new == {new_fds[l][i] : i \in DOMAIN new_fds[l]}
          IN  /\ pending' = [pending EXCEPT ![l] = FALSE]
              /\ new_fds' = [new_fds EXCEPT ![l] = <<>>]
              /\ fds' = [fds EXCEPT ![l] = Insert(@, [fd \in new |-> "read"])]
              /\ conn_maps' = [conn_maps EXCEPT ![l] = Insert(@, [fd \in new |-> TcpConnection(fd)])]
              /\ connections' = [connections EXCEPT ![l] =
                    Insert(@, [fd \in new |-> RiemannTcpConnection])]
              /\ gauges' = [gauges EXCEPT !.conns = @ + Len(new_fds[l])]
              /\ UNCHANGED <<stop, loop>>
  /\ UNCHANGED <<main, core, others, handed, owner, peer, next_loop, acked, exec_vars>>

-----------------------------------------------------------------------------
(* socket_callback and riemann_tcp_connection::callback.  The loop's        *)
(* thread first reads, then goes through the buffer (at = "parse"), calling *)
(* add_task for each message, and ends with the write.                      *)

Conn(l) == conn_maps[l][loop[l].fd]
Riemann(l) == connections[l][loop[l].fd]
SetConn(l, x) == conn_maps' = [conn_maps EXCEPT ![l][loop[l].fd] = x]
SetRiemann(l, x) == connections' = [connections EXCEPT ![l][loop[l].fd] = x]
At(l, at) == loop' = [loop EXCEPT ![l].at = at]

ReadableBytes(x) == x.got - x.pos
Reserve(x) == BuffSize - ReadableBytes(x)

\* What recv leaves: some of the peer's bytes, or its end.
ReadFromFd(x, left, gone) ==
  {[x EXCEPT !.got = @ + n] : n \in {m \in 1..left : m <= Reserve(x)}}
    \cup (IF gone THEN {[x EXCEPT !.close = TRUE]} ELSE {})

\* tcp_connection::read: a full buffer is not read into, and ends nothing.
Read(x, left, gone) == IF Reserve(x) <= 0 THEN {x} ELSE ReadFromFd(x, left, gone)

SocketCallback(l, fd, rd, wr) ==
  /\ loop[l] = Idle /\ fd \in DOMAIN fds[l]
  /\ rd \/ wr
  /\ wr => fds[l][fd] = "readwrite"
  /\ LET x == conn_maps[l][fd]
         left == Total(peer[x.c].msgs) - x.got
         gone == peer[x.c].at = "gone"
     IN  /\ rd => left > 0 \/ gone
         /\ \E y \in IF rd THEN Read(x, left, gone) ELSE {x} :
              /\ conn_maps' = [conn_maps EXCEPT ![l][fd] = y]
              /\ loop' = [loop EXCEPT ![l] = [at |-> IF y.got > x.got THEN "parse" ELSE "write",
                                              fd |-> fd, wr |-> wr]]
  /\ UNCHANGED <<main, core, stop, gauges, others, handed, owner, peer, next_loop, new_fds, pending, fds,
                 connections, acked, exec_vars>>

Fits(size) == size + HeaderLen <= BuffSize

\* read_header.  A body read as a header announces anything.  After a message
\* that is too big the loop goes on, with what follows its header.
ReadHeader(l) ==
  /\ loop[l].at = "parse" /\ Riemann(l).reading_header
  /\ LET x == Conn(l)
         msgs == peer[x.c].msgs
         i == HeaderAt(msgs, x.pos)
     IN  IF ReadableBytes(x) < HeaderLen
         THEN At(l, "write") /\ UNCHANGED <<conn_maps, connections>>
         ELSE \E size \in IF i # 0 THEN {msgs[i]} ELSE 0..(BuffSize + 1) :
                /\ SetConn(l, [x EXCEPT !.pos = @ + HeaderLen, !.close = @ \/ ~Fits(size)])
                /\ SetRiemann(l, [reading_header |-> ~Fits(size), size |-> size])
                /\ UNCHANGED loop
  /\ UNCHANGED <<main, core, stop, gauges, others, handed, owner, peer, next_loop, new_fds, pending, fds,
                 acked, exec_vars>>

BodyComplete(x, size) == ReadableBytes(x) >= size

QueueWrite(x, length) == [x EXCEPT !.w = @ + length]

\* queue_write refuses what does not fit.
AckFits(x) == BuffSize - x.w >= AckLen
AddOkResponse(x) == QueueWrite(x, AckLen)

\* Mutant of AfterMessage: one message per callback.
AfterMessage_Once(size) == "write"

\* The loop of read_cb goes on as long as the number of bytes changes.
AfterMessage(size) == IF size = 0 THEN "write" ELSE "parse"

\* read_message, and add_task up to the push: the ack is queued first, and
\* next_thread_ is read for the push, and read and written after it, by every
\* loop without a lock.
ReadMessage(l) ==
  /\ loop[l].at = "parse" /\ ~Riemann(l).reading_header
  /\ LET x == Conn(l)
         size == Riemann(l).size
         msgs == peer[x.c].msgs
         i == HeaderAt(msgs, x.pos - HeaderLen)
     IN  IF ~BodyComplete(x, size)
         THEN At(l, "write") /\ UNCHANGED <<conn_maps, connections, gauges, handed>>
         ELSE IF ~AckFits(x)
         THEN /\ At(l, "write")
              /\ SetConn(l, [x EXCEPT !.close = TRUE])
              /\ UNCHANGED <<connections, gauges, handed>>
         ELSE /\ SetConn(l, [AddOkResponse(x) EXCEPT !.pos = @ + size])
              /\ SetRiemann(l, [reading_header |-> TRUE, size |-> size])
              /\ handed' = [handed EXCEPT ![x.c] = Append(@, i)]
              /\ gauges' = [gauges EXCEPT !.tasks = @ + 1]
              /\ loop' = [loop EXCEPT ![l] =
                   [at |-> "push", w |-> next_thread, fd |-> @.fd, wr |-> @.wr, 
                    task |-> <<x.c, Len(handed'[x.c])>>, then |-> AfterMessage(size)]]
  /\ UNCHANGED <<main, core, stop, others, owner, peer, next_loop, new_fds, pending, fds, acked,
                 exec_vars>>

HasRoom(w) == Len(tasks[w]) < QueueCap

PushTask(l) ==
  /\ loop[l].at = "push" /\ HasRoom(loop[l].w)   \* push waits for room
  /\ tasks' = [tasks EXCEPT ![loop[l].w] = Append(@, [stop |-> FALSE, id |-> loop[l].task])]
  /\ At(l, "advance")
  /\ UNCHANGED <<main, core, stop, gauges, others, handed, pool_vars, next_thread, worker, ran>>

AdvanceRead(l) ==
  /\ loop[l].at = "advance"
  /\ loop' = [loop EXCEPT ![l] = [@ EXCEPT !.at = "store", !.w = next_thread]]
  /\ UNCHANGED <<main, core, stop, gauges, others, handed, pool_vars, exec_vars>>

AdvanceStore(l) ==
  /\ loop[l].at = "store"
  /\ next_thread' = (loop[l].w + 1) % NW
  /\ loop' = [loop EXCEPT ![l] = [at |-> @.then, fd |-> @.fd, wr |-> @.wr]]
  /\ UNCHANGED <<main, core, stop, gauges, others, handed, pool_vars, tasks, worker, ran>>

-----------------------------------------------------------------------------
(* The end of the callback: write, set the mode, and close.                 *)

Drop(map, fd) == [k \in DOMAIN map \ {fd} |-> map[k]]

\* callback() and write_cb().
MayWrite(l, x) == loop[l].wr /\ x.w > 0 /\ ~x.close

\* What write leaves: it takes some bytes, or fails if the peer is gone.
WriteToFd(x, gone) ==
  {[x EXCEPT !.w = @ - n] : n \in 1..x.w} \cup (IF gone THEN {[x EXCEPT !.close = TRUE]} ELSE {})

ConnToMode(x) == IF x.w > 0 THEN "readwrite" ELSE "read"

\* Mutant of Closed: riemann_tcp_pool keeps its connection.
Closed_KeepRiemann(l, fd) ==
  /\ fds' = [fds EXCEPT ![l] = Drop(@, fd)]
  /\ conn_maps' = [conn_maps EXCEPT ![l] = Drop(@, fd)]
  /\ gauges' = [gauges EXCEPT !.conns = @ - 1]
  /\ owner' = [owner EXCEPT ![fd] = NoConn]
  /\ UNCHANGED connections

\* data_ready erases its connection, then socket_callback stops the watcher,
\* which closes the descriptor, and erases the tcp_connection.
Closed(l, fd) ==
  /\ fds' = [fds EXCEPT ![l] = Drop(@, fd)]
  /\ conn_maps' = [conn_maps EXCEPT ![l] = Drop(@, fd)]
  /\ connections' = [connections EXCEPT ![l] = Drop(@, fd)]
  /\ gauges' = [gauges EXCEPT !.conns = @ - 1]
  /\ owner' = [owner EXCEPT ![fd] = NoConn]

\* The rest of data_ready, and what socket_callback does after it.
Finish(l) ==
  /\ loop[l].at = "write"
  /\ loop' = [loop EXCEPT ![l] = Idle]
  /\ LET x == Conn(l)
         fd == loop[l].fd
     IN  \E y \in IF MayWrite(l, x) THEN WriteToFd(x, peer[x.c].at = "gone") ELSE {x} :
           /\ acked' = [acked EXCEPT ![x.c] = @ + (x.w - y.w)]
           /\ IF y.close THEN Closed(l, fd)
              ELSE /\ SetConn(l, y)
                   /\ fds' = [fds EXCEPT ![l][fd] = ConnToMode(y)]
                   /\ UNCHANGED <<connections, gauges, owner>>
  /\ UNCHANGED <<main, core, stop, others, handed, peer, next_loop, new_fds, pending, exec_vars>>

-----------------------------------------------------------------------------
(* The executor's workers.                                                  *)

Pop(w) ==
  /\ worker[w] = Idle /\ tasks[w] # <<>>
  /\ tasks' = [tasks EXCEPT ![w] = Tail(@)]
  /\ worker' = [worker EXCEPT ![w] = IF Head(tasks[w]).stop THEN Exited
                                     ELSE [at |-> "run", task |-> Head(tasks[w]).id]]
  /\ UNCHANGED <<main, core, stop, loop, gauges, others, handed, pool_vars, next_thread, ran>>

\* Mutant of TaskDone: an exception ends the worker.
TaskDone_Dies(w) ==
  /\ worker[w].at = "run"
  /\ ran' = ran \cup {worker[w].task}
  /\ worker' = [worker EXCEPT ![w] = Exited]
  /\ gauges' = [gauges EXCEPT !.tasks = @ - 1]
  /\ UNCHANGED <<main, core, stop, loop, others, handed, pool_vars, next_thread, tasks>>

\* incoming_event has pushed the message's events.
TaskDone(w) ==
  /\ worker[w].at = "run"
  /\ ran' = ran \cup {worker[w].task}
  /\ worker' = [worker EXCEPT ![w] = Idle]
  /\ gauges' = [gauges EXCEPT !.tasks = @ - 1]
  /\ UNCHANGED <<main, core, stop, loop, others, handed, pool_vars, next_thread, tasks>>

-----------------------------------------------------------------------------
(* The other threads that push events, from the start of push_event's loop  *)
(* over the libraries to its end.                                           *)

SetOther(o, at) ==
  /\ others' = [others EXCEPT ![o] = at]
  /\ UNCHANGED <<main, core, stop, loop, gauges, handed, pool_vars, exec_vars>>

\* Without a library in use no rule runs.  A thread that outlives the streams reads
\* both from memory that is free, which may hold anything.
StartPush(o) ==
  /\ others[o] = "idle"
  /\ main.at = "destroyed" \/ (~stop.streams /\ core.rules)
  /\ SetOther(o, "pushing")

EndPush(o) == others[o] = "pushing" /\ SetOther(o, "idle")

\* timer_cb of the index, a task of the scheduler, detaches a thread.
Detach == others["expirer"] = "off" /\ others["sched"] = "idle" /\ SetOther("expirer", "idle")
ExpirerEnds == others["expirer"] = "idle" /\ SetOther("expirer", "off")

-----------------------------------------------------------------------------
(* The main thread.                                                         *)

\* start_core: g_core is assigned when the constructor has returned, and
\* start() loads the rules.
AssignCore ==
  /\ main.at = "ctor"
  /\ core' = [core EXCEPT !.set = TRUE]
  /\ Go("loaded")
  /\ UNCHANGED <<stop, loop, gauges, others, handed, pool_vars, exec_vars>>

ReloadRules ==
  /\ main.at = "loaded"
  /\ core' = [core EXCEPT !.rules = TRUE]
  /\ Go("run")
  /\ UNCHANGED <<stop, loop, gauges, others, handed, pool_vars, exec_vars>>

MainLoopEnds ==
  /\ main.at = "run" /\ core.stops
  /\ Go("stop_sched")
  /\ UNCHANGED <<core, stop, loop, gauges, others, handed, pool_vars, exec_vars>>

StopScheduler ==
  /\ main.at = "stop_sched" /\ others["sched"] # "pushing"
  /\ others' = [others EXCEPT !["sched"] = "exited"]
  /\ Go("stop_executor")
  /\ UNCHANGED <<core, stop, loop, gauges, handed, pool_vars, exec_vars>>

\* executor_thread_pool::stop, for each queue clear() and then push(): main.i
\* counts both.
StopExecutor ==
  LET w == main.i \div 2
  IN  /\ main.at = "stop_executor"
      /\ \/ w = NW /\ Go("join_executor") /\ UNCHANGED tasks
         \/ /\ w < NW /\ main.i % 2 = 0
            /\ tasks' = [tasks EXCEPT ![w] = <<>>]
            /\ main' = [main EXCEPT !.i = @ + 1]
         \/ /\ w < NW /\ main.i % 2 = 1 /\ HasRoom(w)
            /\ tasks' = [tasks EXCEPT ![w] = Append(@, StopTask)]
            /\ main' = [main EXCEPT !.i = @ + 1]
      /\ UNCHANGED <<core, stop, loop, gauges, others, handed, pool_vars, next_thread, worker, ran>>

\* Mutant of JoinExecutor: after its attempts stop() does not join.
JoinExecutor_GiveUp ==
  /\ main.at = "join_executor"
  /\ Go("stop_streams")
  /\ UNCHANGED <<core, stop, loop, gauges, others, handed, pool_vars, exec_vars>>

JoinExecutor ==
  /\ main.at = "join_executor" /\ \A w \in Workers : worker[w] = Exited
  /\ Go("stop_streams")
  /\ UNCHANGED <<core, stop, loop, gauges, others, handed, pool_vars, exec_vars>>

StopStreams ==
  /\ main.at = "stop_streams"
  /\ stop' = [stop EXCEPT !.streams = TRUE]
  /\ Go("stop_tcp")
  /\ UNCHANGED <<core, loop, gauges, others, handed, pool_vars, exec_vars>>

\* Mutant of StopTcp: the loops are not signalled.
StopTcp_NoSignal ==
  /\ main.at = "stop_tcp"
  /\ stop' = [stop EXCEPT !.pool = TRUE, !.loops = Loops]
  /\ Go("join_tcp")
  /\ UNCHANGED <<core, loop, gauges, others, handed, pool_vars, exec_vars>>

\* stop_threads: the pool's flag, then the loops' and their signals.
StopTcp ==
  /\ main.at = "stop_tcp"
  /\ \/ /\ ~stop.pool
        /\ stop' = [stop EXCEPT !.pool = TRUE]
        /\ UNCHANGED <<main, pending>>
     \/ /\ stop.pool
        /\ stop' = [stop EXCEPT !.loops = Loops]
        /\ pending' = [l \in Loops |-> TRUE]
        /\ Go("join_tcp")
  /\ UNCHANGED <<core, loop, gauges, others, handed, owner, peer, next_loop, new_fds, fds, conn_maps,
                 connections, acked, exec_vars>>

JoinTcp ==
  /\ main.at = "join_tcp" /\ \A l \in Loops : loop[l] = Exited
  /\ Go("stop_udp")
  /\ UNCHANGED <<core, stop, loop, gauges, others, handed, pool_vars, exec_vars>>

StopUdp ==
  /\ main.at = "stop_udp" /\ others["udp"] # "pushing"
  /\ others' = [others EXCEPT !["udp"] = "exited"]
  /\ Go("reset")
  /\ UNCHANGED <<core, stop, loop, gauges, handed, pool_vars, exec_vars>>

\* g_core.reset(): the pointer is empty before the destructors run, of which
\* the index's waits for its expirer, k_stop_attempts times, and then ends with
\* the expirer still at work.
ResetCore ==
  /\ main.at = "reset"
  /\ \/ core.set /\ core' = [core EXCEPT !.set = FALSE] /\ UNCHANGED main
     \/ ~core.set /\ Go("destroyed") /\ UNCHANGED core
  /\ UNCHANGED <<stop, loop, gauges, others, handed, pool_vars, exec_vars>>

MainStep ==
  \/ AssignCore \/ ReloadRules \/ StopScheduler \/ StopExecutor \/ JoinExecutor \/ StopStreams
  \/ StopTcp \/ JoinTcp \/ StopUdp \/ ResetCore

LoopStep(l) ==
  \/ AsyncCallback(l) \/ ReadHeader(l) \/ ReadMessage(l) \/ PushTask(l)
  \/ AdvanceRead(l) \/ AdvanceStore(l) \/ Finish(l)

Next ==
  \/ MainStep \/ MainLoopEnds
  \/ \E c \in Conns : PeerClose(c) \/ \E fd \in Fds : Accept(c, fd)
  \/ \E l \in Loops : LoopStep(l) \/ \E fd \in Fds, rd, wr \in BOOLEAN : SocketCallback(l, fd, rd, wr)
  \/ \E w \in Workers : Pop(w) \/ TaskDone(w)
  \/ \E o \in Others : StartPush(o) \/ EndPush(o)
  \/ Detach \/ ExpirerEnds

Spec == Init /\ [][Next]_vars

FairSpec ==
  /\ Spec
  /\ WF_vars(MainStep)
  /\ \A l \in Loops : WF_vars(LoopStep(l))
  /\ \A w \in Workers : WF_vars(Pop(w) \/ TaskDone(w))
  /\ \A o \in Others : WF_vars(EndPush(o))
  /\ WF_vars(ExpirerEnds)
  /\ SF_vars(StopScheduler)

-----------------------------------------------------------------------------
(* Properties.                                                              *)

TcpConnections == {x \in [c : Conns, pos : Nat, got : Nat, w : 0..BuffSize, close : BOOLEAN] :
                     ReadableBytes(x) \in 0..BuffSize}
RiemannTcpConnections == [reading_header : BOOLEAN, size : Nat]
TaskIds == Conns \X Nat
Callbacks == [at : {"parse", "write"}, fd : Fds, wr : BOOLEAN]
AddTaskCalls == [at : {"push", "advance", "store"}, w : Workers, fd : Fds, wr : BOOLEAN,
                 task : TaskIds, then : {"parse", "write"}]

MainTypes ==
  /\ main \in [at : {Phases[k] : k \in DOMAIN Phases}, i : 0..(2 * NW)]
  /\ core \in [set : BOOLEAN, rules : BOOLEAN, stops : BOOLEAN, leave : BOOLEAN]
  /\ stop \in [pool : BOOLEAN, loops : SUBSET Loops, streams : BOOLEAN]

PoolTypes ==
  /\ owner \in [Fds -> Conns \cup {NoConn}]
  /\ peer \in [Conns -> [at : {"new", "open", "gone", "never"}, msgs : Seq(Nat)]]
  /\ next_loop \in Loops /\ new_fds \in [Loops -> Seq(Fds)] /\ pending \in [Loops -> BOOLEAN]
  /\ acked \in [Conns -> Nat] /\ handed \in [Conns -> Seq(Nat)]
  /\ loop \in [Loops -> {Idle, Exited} \cup Callbacks \cup AddTaskCalls]

MapTypes ==
  \A l \in Loops :
    /\ fds[l] \in [DOMAIN fds[l] -> {"read", "readwrite"}] /\ DOMAIN fds[l] \subseteq Fds
    /\ conn_maps[l] \in [DOMAIN conn_maps[l] -> TcpConnections]
    /\ connections[l] \in [DOMAIN connections[l] -> RiemannTcpConnections]

ExecTypes ==
  /\ next_thread \in Workers /\ ran \subseteq TaskIds
  /\ worker \in [Workers -> {Idle, Exited} \cup [at : {"run"}, task : TaskIds]]
  /\ tasks \in [Workers -> Seq([stop : {FALSE}, id : TaskIds] \cup {StopTask})]
  /\ \A w \in Workers : Len(tasks[w]) <= QueueCap

TypeOK ==
  MainTypes /\ PoolTypes /\ MapTypes /\ ExecTypes /\ gauges \in [tasks : Nat, conns : Nat]

\* A loop watches exactly the descriptors it has connections for, in both
\* maps, each belongs to one loop and to the client that has the descriptor now.
Registered ==
  \A l \in Loops :
    /\ DOMAIN fds[l] = DOMAIN conn_maps[l] /\ DOMAIN fds[l] = DOMAIN connections[l]
    /\ \A fd \in DOMAIN fds[l] :
         /\ conn_maps[l][fd].c = owner[fd]
         /\ \A k \in Loops \ {l} : fd \notin DOMAIN fds[k]

\* The maps of tcp_pool and riemann_tcp_pool agree with what the loops watch (the
\* CHECKs "fd not found") although descriptors are used again, and the gauge
\* counts the connections.
RegisteredTogether ==
  /\ TypeOK
  /\ Registered
  /\ gauges.conns = Cardinality({lf \in Loops \X Fds : lf[2] \in DOMAIN fds[lf[1]]})

OnlyFitting(c) == \A i \in DOMAIN peer[c].msgs : Fits(peer[c].msgs[i])

\* Whatever the pieces in which a client's bytes arrive, the messages given to
\* the executor are those it sent, in their order, each when it has arrived.
HandedInOrder ==
  \A c \in Conns : OnlyFitting(c) =>
    /\ \A k \in DOMAIN handed[c] : handed[c][k] = k
    /\ \A l \in Loops : \A fd \in DOMAIN conn_maps[l] :
         conn_maps[l][fd].c = c => Len(handed[c]) <= Whole(peer[c].msgs, conn_maps[l][fd].got)

\* A message the server acts upon is one its client sent: "We have a complete
\* message", says read_message.
HandedAreSent == \A c \in Conns : \A k \in DOMAIN handed[c] : handed[c][k] # 0

InCallback(l, fd) == loop[l] \notin {Idle, Exited} /\ loop[l].fd = fd

\* Between callbacks the read buffer has room: a full one would never be read
\* into again (tcp_connection::read), and never close.
RoomToRead ==
  \A l \in Loops : \A fd \in DOMAIN conn_maps[l] :
    ~InCallback(l, fd) => Reserve(conn_maps[l][fd]) > 0

\* Between callbacks no complete message waits in the buffer, unless it is
\* behind an empty one, on which the loop of read_cb stops.
NothingLeftBehind ==
  \A l \in Loops : \A fd \in DOMAIN conn_maps[l] :
    LET x == conn_maps[l][fd]
        y == connections[l][fd]
    IN  ~InCallback(l, fd) =>
          IF y.reading_header
          THEN ReadableBytes(x) < HeaderLen \/ (handed[x.c] # <<>> /\ y.size = 0)
          ELSE ReadableBytes(x) < y.size

\* A peer never has more acks than messages of its that were given to the
\* executor, and the bytes queued for it are the acks it does not have yet.
AcksHonest ==
  /\ \A c \in Conns : acked[c] <= AckLen * Cardinality({k \in DOMAIN handed[c] : handed[c][k] # 0})
  /\ \A l \in Loops : \A fd \in DOMAIN conn_maps[l] :
       LET x == conn_maps[l][fd] IN acked[x.c] + x.w = AckLen * Len(handed[x.c])

\* What riemann_tcp_connection makes of a client's bytes, however they are cut:
\* its messages in order and each once, nothing complete left in the buffer, no
\* buffer full between callbacks, and an ack for each message and for no other.
Framing == HandedInOrder /\ RoomToRead /\ NothingLeftBehind /\ AcksHonest

Adding == {l \in Loops : loop[l].at = "push"}
Running == {w \in Workers : worker[w].at = "run"}

\* The tasks of add_task so far, named by connection and number, and the places
\* where one may be: a thread that is about to push it, a queue, a worker.
Handed == UNION {{<<c, k>> : k \in DOMAIN handed[c]} : c \in Conns}
Holders == {<<"loop", l, 0>> : l \in Adding} \cup {<<"worker", w, 0>> : w \in Running}
           \cup UNION {{<<"queue", w, i>> : i \in {j \in DOMAIN tasks[w] : ~tasks[w][j].stop}}
                      : w \in Workers}
TaskOf(h) == CASE h[1] = "loop"   -> loop[h[2]].task
               [] h[1] = "worker" -> worker[h[2]].task
               [] h[1] = "queue"  -> tasks[h[2]][h[3]].id

\* No message that was acknowledged is run twice or is in two places, and the
\* gauge counts those that have not run.  Until the executor is stopped, which
\* clears its queues, each of these is still in one place.
TasksAccounted ==
  /\ \A h, g \in Holders : TaskOf(h) = TaskOf(g) => h = g
  /\ {TaskOf(h) : h \in Holders} \subseteq Handed \ ran
  /\ ~Reached("stop_executor") => {TaskOf(h) : h \in Holders} = Handed \ ran
  /\ ran \subseteq Handed
  /\ gauges.tasks = Cardinality(Handed \ ran)

\* g_core is set whenever a rule runs: no thread pushes an event through the
\* rules before start_core has assigned it, and of the threads that do only the
\* index's expirer, for which the destructor waits a while and no longer, can be
\* left when it is reset.
RulesSeeCore ==
  /\ \A w \in Running : core.set
  /\ \A o \in Others \ {"expirer"} : others[o] = "pushing" => core.set
  /\ others["expirer"] = "pushing" => core.set \/ main.at \in {"reset", "destroyed"}

\* add_task and run_tasks neither lose a message nor run it twice, although
\* next_thread_ is not synchronised, and the rules a task runs see the core.
TasksSeeCore == TasksAccounted /\ RulesSeeCore

\* The messages whose ack was queued before add_task run, unless the executor is
\* stopped: no worker or loop waits for ever for another.
HandedRuns == gauges.tasks > 0 ~> (gauges.tasks = 0 \/ Reached("stop_executor"))

\* A loop that waits for room in the queue of a worker that has ended.
Stuck == \E l \in Loops : /\ loop[l].at = "push" /\ ~HasRoom(loop[l].w)
                          /\ worker[loop[l].w] = Exited

\* The core stops, unless a loop of the tcp server, which is stopped after the
\* executor, fills the queue of a worker that is gone.
StopEnds == main.at = "stop_sched" ~> (main.at = "destroyed" \/ Stuck)
=============================================================================
