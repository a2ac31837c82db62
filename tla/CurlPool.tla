------------------------------ MODULE CurlPool ------------------------------
(***************************************************************************)
(* curl_pool.cpp, with which mail and PagerDuty calls are sent, on one of  *)
(* its loops (the loops share only next_thread_, as in TcpClientPool).  An *)
(* event becomes a transfer of libcurl, which asks for sockets, has them   *)
(* watched, and reports transfers that are done; a periodic task frees     *)
(* those.  libcurl calls back from within the calls that are made to it,   *)
(* also from the one that gives up a handle, in the middle of the loop     *)
(* that frees the transfers.                                               *)
(*                                                                         *)
(* Events are numbered, and a transfer (an easy handle) has the number of  *)
(* its event.                                                              *)
(***************************************************************************)
EXTENDS Integers, Sequences, FiniteSets, Functions

CONSTANTS QueueCap,   \* k_queue_capacity
          Limit,      \* k_max_concurrent_conns
          Fds,        \* file descriptors
          MaxEvents   \* bound: events pushed

ASSUME Bounds == QueueCap \in Nat \ {0} /\ Limit \in Nat /\ Fds \subseteq Nat /\ MaxEvents \in Nat

VARIABLES
  pushed,     \* events pushed so far
  queue,      \* thread_event_queues_
  signalled,  \* the async watcher is pending
  running,    \* the loop's thread runs
  pool,       \* the loop's maps and libcurl's state
  cleanup,    \* where cleanup_conns is: [at, left, easy]
  skipped     \* history: events were left in the queue because of the limit

vars == <<pushed, queue, signalled, running, pool, cleanup, skipped>>

Easies == 1..MaxEvents
Empty == [x \in {} |-> x]

\* cleanup_conns does not run.
NoCleanup == [at |-> "none", left |-> 0, easy |-> 0]

Init ==
  /\ cleanup = NoCleanup
  /\ pushed = 0 /\ queue = <<>> /\ signalled = FALSE /\ running = TRUE /\ skipped = FALSE
  /\ pool = [conns |-> Empty,        \* curl_conns_: per transfer, its fds
             finished |-> <<>>,      \* finished_conns_, without those freed
             multi |-> Empty,        \* libcurl: per handle, "active", "done", "told", or
                                     \* "lost": told, and dropped from finished_conns_
             socks |-> Empty,        \* libcurl: per socket it has open, its handle
             fds |-> Empty,          \* tcp_pool: per watched fd, its mode
             cleaned |-> [e \in Easies |-> 0],   \* history: calls of clean_fn
             crashed |-> FALSE]      \* a CHECK failed, or an fd was not found

Without(f, keys) == [k \in DOMAIN f \ keys |-> f[k]]
With(f, k, v) == [j \in DOMAIN f \cup {k} |-> IF j = k THEN v ELSE f[j]]
Crash(s) == [s EXCEPT !.crashed = TRUE]

-----------------------------------------------------------------------------
(* What libcurl calls.                                                      *)

\* set_fd and real_async_loop::set_fd_mode
SetFdMode(s, fd, mode) ==
  IF fd \in DOMAIN s.fds THEN [s EXCEPT !.fds[fd] = mode] ELSE Crash(s)

\* add_fd and tcp_pool::add_client_sync
AddFd(s, e, fd) ==
  IF e \in DOMAIN s.conns
  THEN [s EXCEPT !.conns[e] = @ \cup {fd}, !.fds = With(@, fd, "read")]
  ELSE Crash(s)

\* multi_socket
MultiSocket(s, fd, mode) == IF mode = "remove" THEN s ELSE SetFdMode(s, fd, mode)

\* close_sock_cb, for each of the fds: it stays open, and watched for nothing.
CloseSocks(s, fds) ==
  IF fds \subseteq DOMAIN s.fds
  THEN [s EXCEPT !.socks = Without(@, fds),
                 !.fds = [fd \in DOMAIN @ |-> IF fd \in fds THEN "none" ELSE @[fd]]]
  ELSE Crash(s)

\* The order in which libcurl reports transfers.
InOrder(S) == CHOOSE q \in Injection(1..Cardinality(S), S) : TRUE

\* check_multi_info
CheckMultiInfo(s) ==
  LET done == {e \in DOMAIN s.multi : s.multi[e] = "done"}
  IN  [s EXCEPT !.multi = [e \in DOMAIN @ |-> IF e \in done THEN "told" ELSE @[e]],
                !.finished = @ \o InOrder(done)]

-----------------------------------------------------------------------------
(* libcurl.                                                                 *)

SocksOf(s, es) == {fd \in DOMAIN s.socks : s.socks[fd] \in es}

\* A transfer ends.
Ended(s, e) == [s EXCEPT !.multi[e] = "done"]

\* The system gives out the lowest free number; without one the transfer fails.
SockCb(s, e) ==
  LET free == Fds \ DOMAIN s.fds
      fd == CHOOSE x \in free : \A y \in free : x <= y
  IN  IF free = {} THEN Ended(s, e)
      ELSE AddFd([s EXCEPT !.socks = With(@, fd, e)], e, fd)

\* What libcurl may do for a transfer: open a socket, have one watched in
\* another mode, give one up, or end the transfer, whose sockets it closes at
\* once or when the handle is removed.
Advance(s, e) ==
  {SockCb(s, e)}
    \cup {MultiSocket(s, fd, m) : fd \in SocksOf(s, {e}), m \in {"read", "write", "remove"}}
    \cup {CloseSocks(s, {fd}) : fd \in SocksOf(s, {e})}
    \cup {Ended(t, e) : t \in {s, CloseSocks(s, SocksOf(s, {e}))}}

Library(s) ==
  {s} \cup UNION {Advance(s, e) : e \in {x \in DOMAIN s.multi : s.multi[x] = "active"}}

\* multi_socket_action: an error of libcurl leaves what is done unread.
MultiSocketAction(s) == Library(s) \cup {CheckMultiInfo(t) : t \in Library(s)}

\* multi_timer: a short timeout changes nothing (set_task_interval is empty),
\* another one calls libcurl again from within its callback.  The latter is a
\* step of its own unless the caller is curl_multi_add_handle.
MultiTimer(s) == {s} \cup MultiSocketAction(s)

-----------------------------------------------------------------------------
(* push_event and async                                                     *)

TryPush == Len(queue) < QueueCap

\* Mutant of PushEvent: the event is queued and the loop is not signalled.
PushEvent_NoSignal ==
  /\ pushed < MaxEvents
  /\ pushed' = pushed + 1
  /\ queue' = IF TryPush THEN Append(queue, pushed + 1) ELSE queue
  /\ UNCHANGED <<signalled, running, pool, cleanup, skipped>>

\* A full queue drops the event.
PushEvent ==
  /\ pushed < MaxEvents
  /\ pushed' = pushed + 1
  /\ IF TryPush THEN queue' = Append(queue, pushed + 1) /\ signalled' = TRUE
     ELSE UNCHANGED <<queue, signalled>>
  /\ UNCHANGED <<running, pool, cleanup, skipped>>

\* curl_event_fn_ and cleanup_fn: what the first sets aside the second frees.
CallCleanFn(s, es) == [s EXCEPT !.cleaned = [e \in Easies |-> IF e \in es THEN @[e] + 1 ELSE @[e]]]

\* One event of the queue.  curl_multi_add_handle sets the timer, and may fail.
StartTransfer(s, e) ==
  LET entered == [s EXCEPT !.conns = With(@, e, {})]
  IN  MultiTimer([entered EXCEPT !.multi = With(@, e, "active")])
        \cup {[CallCleanFn(entered, {e}) EXCEPT !.conns = Without(@, {e})]}

\* The loop over the queue: what may be left after its first n events, for each n.
StartAll(s, events) ==
  LET after[n \in 0..Len(events)] ==
        IF n = 0 THEN {s} ELSE UNION {StartTransfer(t, events[n]) : t \in after[n - 1]}
  IN  after[Len(events)]

\* The loop's thread runs and is between two callbacks.
Between == running /\ cleanup = NoCleanup /\ ~pool.crashed

Async ==
  /\ Between /\ signalled
  /\ signalled' = FALSE
  /\ \/ /\ Cardinality(DOMAIN pool.conns) > Limit
        /\ skipped' = (queue # <<>>)
        /\ UNCHANGED <<queue, pool>>
     \/ /\ Cardinality(DOMAIN pool.conns) <= Limit
        /\ pool' \in StartAll(pool, queue)
        /\ queue' = <<>> /\ skipped' = FALSE
  /\ UNCHANGED <<pushed, running, cleanup>>

-----------------------------------------------------------------------------
(* The callbacks of the sockets and the timer                               *)

\* on_ready.  With an error nothing is done, and without an active transfer
\* libcurl does nothing.
OnReady(fd) ==
  /\ Between
  /\ fd \in DOMAIN pool.fds /\ pool.fds[fd] # "none"
  /\ fd \in DOMAIN pool.socks /\ pool.multi[pool.socks[fd]] = "active"
  /\ pool' \in {CheckMultiInfo(t) : t \in Advance(pool, pool.socks[fd])}
  /\ UNCHANGED <<pushed, queue, signalled, running, cleanup, skipped>>

-----------------------------------------------------------------------------
(* cleanup_conns, by the timer and by stop: a range-for over finished_conns_ *)
(* that visits the "left" transfers still to come of those the list had at   *)
(* its start.                                                                *)

StartCleanup == cleanup' = [at |-> "next", left |-> Len(pool.finished), easy |-> 0]

Timer ==
  /\ Between
  /\ StartCleanup
  /\ UNCHANGED <<pushed, queue, signalled, running, pool, skipped>>

\* stop, which joins the loop's thread first.
Stop ==
  /\ Between
  /\ running' = FALSE
  /\ StartCleanup
  /\ UNCHANGED <<pushed, queue, signalled, pool, skipped>>

\* Mutant of RemoveHandle: the fds go before libcurl gives up the handle.
RemoveHandle_FdsFirst(s, e) ==
  LET t == [s EXCEPT !.fds = Without(@, s.conns[e])]
  IN  [CloseSocks(t, SocksOf(t, {e})) EXCEPT !.multi = Without(@, {e}), !.finished = Tail(@)]

\* The CHECK, and curl_multi_remove_handle, which closes the sockets that are
\* still open.
RemoveHandle(s, e) ==
  IF e \in DOMAIN s.conns
  THEN [CloseSocks(s, SocksOf(s, {e})) EXCEPT !.multi = Without(@, {e}), !.finished = Tail(@)]
  ELSE Crash(s)

\* The next transfer of the loop.  If push_back has moved the list meanwhile
\* the loop reads memory that was freed: what was there, or a handle that the
\* CHECK does not find.
CleanupNext ==
  /\ cleanup.at = "next" /\ cleanup.left > 0 /\ ~pool.crashed
  /\ \/ /\ pool' = RemoveHandle(pool, Head(pool.finished))
        /\ cleanup' = [at |-> "removed", left |-> cleanup.left - 1, easy |-> Head(pool.finished)]
     \/ /\ Len(pool.finished) > cleanup.left
        /\ cleanup' = [cleanup EXCEPT !.at = "aborted"]
        /\ UNCHANGED pool
  /\ UNCHANGED <<pushed, queue, signalled, running, skipped>>

\* multi_timer, which curl_multi_remove_handle calls before it returns.
CleanupTimer ==
  /\ cleanup.at = "removed" /\ ~pool.crashed
  /\ pool' \in MultiTimer(pool)
  /\ UNCHANGED <<pushed, queue, signalled, running, cleanup, skipped>>

\* remove_fds, tcp_pool::remove_client_sync: the fds are closed
RemoveFds(s, e) == [s EXCEPT !.fds = Without(@, s.conns[e])]

\* The rest of the loop's body.
CleanupFree ==
  /\ cleanup.at = "removed" /\ ~pool.crashed
  /\ LET e == cleanup.easy
     IN  pool' = [RemoveFds(CallCleanFn(pool, {e}), e) EXCEPT !.conns = Without(@, {e})]
  /\ cleanup' = [cleanup EXCEPT !.at = "next", !.easy = 0]
  /\ UNCHANGED <<pushed, queue, signalled, running, skipped>>

\* clear(): the transfers reported during the loop are dropped.
ClearFinished(s) ==
  [s EXCEPT !.multi = [e \in DOMAIN @ |-> IF @[e] = "told" THEN "lost" ELSE @[e]],
            !.finished = <<>>]

\* The end of the loop, and of timer or stop.
CleanupDone ==
  /\ cleanup.at = "next" /\ cleanup.left = 0 /\ ~pool.crashed
  /\ pool' \in IF running THEN MultiSocketAction(ClearFinished(pool)) ELSE {ClearFinished(pool)}
  /\ cleanup' = NoCleanup
  /\ UNCHANGED <<pushed, queue, signalled, running, skipped>>

CleanupStep == CleanupNext \/ CleanupFree \/ CleanupDone

Next ==
  \/ PushEvent \/ Async \/ (\E fd \in Fds : OnReady(fd)) \/ Timer \/ Stop
  \/ CleanupStep \/ CleanupTimer

Spec == Init /\ [][Next]_vars

\* The timer calls libcurl, which ends every transfer in time (it gives up one
\* that is slower than CURLOPT_LOW_SPEED_LIMIT) and does not fail each time.
Ends ==
  /\ CleanupDone
  /\ \E e \in DOMAIN pool.multi : pool.multi[e] = "active" /\ pool'.multi[e] # "active"
Reports ==
  /\ CleanupDone
  /\ \E e \in DOMAIN pool.multi : pool.multi[e] = "done" /\ pool'.multi[e] = "told"

\* The loop serves its watchers in turn, however often the timer is due.
FairSpec ==
  /\ Spec
  /\ SF_vars(Async) /\ WF_vars(Timer) /\ WF_vars(CleanupStep)
  /\ SF_vars(Ends) /\ SF_vars(Reports)

-----------------------------------------------------------------------------
(* Properties.                                                              *)

\* The transfer that libcurl has given up and cleanup_conns not freed yet.
Removed == IF cleanup.at = "removed" THEN {cleanup.easy} ELSE {}

\* Every socket libcurl has open is watched and belongs to its transfer, every
\* fd that is watched belongs to one transfer that is not freed, and a transfer
\* that is reported done waits once in the list, unless clear() dropped it: no
\* callback of libcurl meets a transfer or an fd that is gone, although some run
\* in the middle of cleanup_conns, and an event's clean_fn runs once, when the
\* transfer is gone.
TransfersTracked ==
  /\ ~pool.crashed
  /\ \A fd \in DOMAIN pool.socks : fd \in pool.conns[pool.socks[fd]]
  /\ \A fd \in DOMAIN pool.fds : Cardinality({e \in DOMAIN pool.conns : fd \in pool.conns[e]}) = 1
  /\ \A e \in DOMAIN pool.conns : pool.conns[e] \subseteq DOMAIN pool.fds
  /\ DOMAIN pool.multi = DOMAIN pool.conns \ Removed
  /\ \A e \in Easies : Cardinality({i \in DOMAIN pool.finished : pool.finished[i] = e})
                         = IF e \in DOMAIN pool.multi /\ pool.multi[e] = "told" THEN 1 ELSE 0
  /\ \A e \in 1..pushed : pool.cleaned[e] + Cardinality({e} \cap DOMAIN pool.conns)
                            + Cardinality({i \in DOMAIN queue : queue[i] = e}) <= 1

\* The transfers that cleanup_conns has not lost.
NotLost == {e \in DOMAIN pool.conns : e \in DOMAIN pool.multi => pool.multi[e] # "lost"}

Waiting == /\ running /\ cleanup.at # "aborted"
           /\ (queue # <<>> /\ ~skipped) \/ NotLost # {}

\* While the pool runs, an event leaves the queue, its transfer ends, and what
\* the transfer held is freed.  Two kinds are left behind: an event that the
\* limit kept in the queue waits for another event to be pushed, and a transfer
\* that was reported while cleanup_conns was in its loop is never freed.
EventsServed == Waiting ~> ~Waiting
=============================================================================
