------------------------------- MODULE Index -------------------------------
(***************************************************************************)
(* The index (real_index): the last event of every key, sharded, each      *)
(* shard under a mutex.  Threads that run send_index() add events; a timer *)
(* starts a detached thread that removes the events whose time plus ttl is *)
(* past and pushes them, marked expired, back to the streams, whose rules  *)
(* may index them again.  Every change is published to the one subscriber  *)
(* of the "index" topic after the mutex has been released.  At shutdown    *)
(* the destructor waits for the thread that expires events.                *)
(***************************************************************************)
EXTENDS Integers, FiniteSets

CONSTANTS Keys,          \* key(e): host and service
          NShards,       \* k_indexes
          ShardOf,       \* hash_fn(key) % indexes_.size()
          Adders,        \* threads that run send_index()
          Expirers,      \* detached threads that run expire_events
          Ttls,          \* ttls of events
          StopAttempts,  \* k_stop_attempts
          MaxClock,      \* bound: the clock
          MaxAdded,      \* bound: number of add_event calls
          NoEvent        \* no event

ASSUME IndexAssumption ==
  /\ NShards \in Nat \ {0} /\ ShardOf \in [Keys -> 1..NShards]
  /\ StopAttempts \in Nat /\ MaxClock \in Nat /\ MaxAdded \in Nat
  /\ Ttls \subseteq Nat

VARIABLES indexes_,   \* the event of each key
          clock,      \* unix_time()
          expiring_,  \* an expire_events thread is running
          adding,     \* per adder, the event inserted and not yet published
          expirer_pc, \* per expirer, where it is in expire_events
          time_read,  \* per expirer, the locals of expire_events: now,
          at_shard,        \* i, the shard it is at,
          expired_events,  \* the events it removed,
          event,           \* and the one it pushes
          dtor,       \* where the main thread is in ~real_index
          shard,      \* the destructor's i
          attempts,   \* the destructor's attempts
          added,      \* number of add_event calls
          replaced, cleared, returned,  \* history: events that left the index
          published                     \* history: per key, the last publication

indexVars == <<indexes_, added, replaced>>
expirerVars == <<expirer_pc, time_read, at_shard, expired_events, event>>
stopVars == <<dtor, shard, attempts, cleared>>
idxVars == <<indexVars, clock, expiring_, adding, expirerVars, stopVars, returned, published>>

Event == [id : Nat, key : Keys, time : Nat, ttl : Ttls, expired : BOOLEAN]

ASSUME NoEventAssumption == NoEvent \notin Event

IndexInit ==
  /\ indexes_ = [k \in Keys |-> NoEvent]
  /\ clock = 0
  /\ expiring_ = FALSE
  /\ adding = [a \in Adders |-> NoEvent]
  /\ expirer_pc = [x \in Expirers |-> "idle"]
  /\ time_read = [x \in Expirers |-> 0] /\ at_shard = [x \in Expirers |-> 1]
  /\ expired_events = [x \in Expirers |-> {}]
  /\ event = [x \in Expirers |-> NoEvent]
  /\ dtor = "run" /\ shard = 1 /\ attempts = StopAttempts
  /\ added = 0 /\ replaced = {} /\ cleared = {} /\ returned = {}
  /\ published = [k \in Keys |-> NoEvent]

ClockTick ==
  /\ clock < MaxClock
  /\ clock' = clock + 1
  /\ UNCHANGED <<indexVars, expiring_, adding, expirerVars, stopVars, returned, published>>

-----------------------------------------------------------------------------
\* add_event, the critical section: insert or replace.
Insert(e) ==
  /\ added < MaxAdded
  /\ added' = e.id
  /\ indexes_' = [indexes_ EXCEPT ![e.key] = e]
  /\ replaced' = replaced \cup ({indexes_[e.key]} \ {NoEvent})

\* add_event by a thread that pushes events through the streams.
AddEvent(a) ==
  /\ dtor = "run"
  /\ adding[a] = NoEvent
  /\ \E k \in Keys, ttl \in Ttls, t \in 0..clock :
       LET e == [id |-> added + 1, key |-> k, time |-> t, ttl |-> ttl, expired |-> FALSE]
       IN  Insert(e) /\ adding' = [adding EXCEPT ![a] = e]
  /\ UNCHANGED <<clock, expiring_, expirerVars, stopVars, returned, published>>

\* pub_sub::publish: the subscriber is called.
Publish(e) == published' = [published EXCEPT ![e.key] = e]

\* add_event, after the mutex is released.
PublishAdded(a) ==
  /\ adding[a] # NoEvent
  /\ Publish(adding[a])
  /\ adding' = [adding EXCEPT ![a] = NoEvent]
  /\ UNCHANGED <<indexVars, clock, expiring_, expirerVars, stopVars, returned>>

-----------------------------------------------------------------------------
(* Expiring events.                                                         *)

Goto(x, at) == expirer_pc' = [expirer_pc EXCEPT ![x] = at]

\* Mutant of TimerCb: expiring_ is set and not tested.
TimerCb_NoTest ==
  /\ dtor = "run"
  /\ expiring_' = TRUE
  /\ \E x \in Expirers : expirer_pc[x] = "idle" /\ Goto(x, "start")
  /\ UNCHANGED <<indexVars, clock, adding, time_read, at_shard, expired_events, event, stopVars,
                 returned, published>>

\* timer_cb: at most one thread at a time.
TimerCb ==
  /\ dtor = "run"
  /\ ~expiring_
  /\ expiring_' = TRUE
  /\ \E x \in Expirers : expirer_pc[x] = "idle" /\ Goto(x, "start")
  /\ UNCHANGED <<indexVars, clock, adding, time_read, at_shard, expired_events, event, stopVars,
                 returned, published>>

\* expire_events reads the time.
ExpireStart(x) ==
  /\ expirer_pc[x] = "start"
  /\ time_read' = [time_read EXCEPT ![x] = clock]
  /\ Goto(x, "scan")
  /\ UNCHANGED <<indexVars, clock, expiring_, adding, at_shard, expired_events, event, stopVars,
                 returned, published>>

PastTtl(e, time) == e.time + e.ttl < time

\* The keys of the shard under the mutex, and those among them that are due.
InShard(x) == {k \in Keys : ShardOf[k] = at_shard[x] /\ indexes_[k] # NoEvent}

DueIn(x) == {k \in InShard(x) : PastTtl(indexes_[k], time_read[x])}

\* Removes the keys due of the shard that expirer x has locked; the loop ends
\* at shard last.
RemoveDue(x, due, last) ==
  /\ expirer_pc[x] = "scan"
  /\ indexes_' = [k \in Keys |-> IF k \in due THEN NoEvent ELSE indexes_[k]]
  /\ expired_events' = [expired_events EXCEPT ![x] = @ \cup {indexes_[k] : k \in due}]
  /\ at_shard' = [at_shard EXCEPT ![x] = @ + 1]
  /\ Goto(x, IF at_shard[x] = last THEN "publish" ELSE "scan")
  /\ UNCHANGED <<clock, expiring_, adding, added, replaced, time_read, event, stopVars,
                 returned, published>>

\* Mutant of ExpireShard: i <= indexes_.size().
ExpireShard_TooFar(x) == RemoveDue(x, DueIn(x), NShards + 1)

\* Mutant of ExpireShard: expire <= now.
ExpireShard_Early(x) ==
  RemoveDue(x, {k \in InShard(x) : PastTtl(indexes_[k], time_read[x] + 1)}, NShards)

\* Mutant of ExpireShard: the events are copied and not erased.
ExpireShard_NoErase(x) ==
  /\ expirer_pc[x] = "scan"
  /\ expired_events' = [expired_events EXCEPT ![x] = @ \cup {indexes_[k] : k \in DueIn(x)}]
  /\ at_shard' = [at_shard EXCEPT ![x] = @ + 1]
  /\ Goto(x, IF at_shard[x] = NShards THEN "publish" ELSE "scan")
  /\ UNCHANGED <<indexVars, clock, expiring_, adding, time_read, event, stopVars, returned,
                 published>>

\* One turn of the loop over the shards, under the shard's mutex.
ExpireShard(x) == RemoveDue(x, DueIn(x), NShards)

\* The next expired event is marked and published.
ExpirePublish(x) ==
  /\ expirer_pc[x] = "publish"
  /\ \E e \in expired_events[x] :
       /\ Publish([e EXCEPT !.expired = TRUE])
       /\ event' = [event EXCEPT ![x] = e]
  /\ Goto(x, "push")
  /\ UNCHANGED <<indexVars, clock, expiring_, adding, time_read, at_shard,
                 expired_events, stopVars, returned>>

\* It is pushed to the streams, whose rules may index it.
ExpirePush(x) ==
  /\ expirer_pc[x] = "push"
  /\ returned' = returned \cup {event[x]}
  /\ expired_events' = [expired_events EXCEPT ![x] = @ \ {event[x]}]
  /\ \/ /\ Goto(x, "publish")
        /\ event' = [event EXCEPT ![x] = NoEvent]
        /\ UNCHANGED indexVars
     \/ /\ dtor = "run"
        /\ LET again == [event[x] EXCEPT !.id = added + 1, !.expired = TRUE]
           IN  Insert(again) /\ event' = [event EXCEPT ![x] = again]
        /\ Goto(x, "republish")
  /\ UNCHANGED <<clock, expiring_, adding, time_read, at_shard, stopVars, published>>

\* add_event called by the rules, after the mutex is released.
ExpireRepublish(x) ==
  /\ expirer_pc[x] = "republish"
  /\ Publish(event[x])
  /\ event' = [event EXCEPT ![x] = NoEvent]
  /\ Goto(x, "publish")
  /\ UNCHANGED <<indexVars, clock, expiring_, adding, time_read, at_shard, expired_events,
                 stopVars, returned>>

\* Mutant of ExpireEnd: expiring_ is not cleared.
ExpireEnd_KeepFlag(x) ==
  /\ expirer_pc[x] = "publish"
  /\ expired_events[x] = {}
  /\ Goto(x, "idle")
  /\ time_read' = [time_read EXCEPT ![x] = 0] /\ at_shard' = [at_shard EXCEPT ![x] = 1]
  /\ UNCHANGED <<expiring_, indexVars, clock, adding, expired_events, event, stopVars,
                 returned, published>>

\* All expired events have been pushed: the thread ends, and its locals with it.
ExpireEnd(x) ==
  /\ expirer_pc[x] = "publish"
  /\ expired_events[x] = {}
  /\ Goto(x, "idle")
  /\ time_read' = [time_read EXCEPT ![x] = 0] /\ at_shard' = [at_shard EXCEPT ![x] = 1]
  /\ expiring_' = FALSE
  /\ UNCHANGED <<indexVars, clock, adding, expired_events, event, stopVars, returned,
                 published>>

Expire(x) ==
  \/ ExpireStart(x) \/ ExpireShard(x) \/ ExpirePublish(x)
  \/ ExpirePush(x) \/ ExpireRepublish(x) \/ ExpireEnd(x)

-----------------------------------------------------------------------------
(* ~real_index, after the threads that add events have been joined and the  *)
(* scheduler has been stopped.                                              *)

\* Mutant of DtorBegin: a running expire_events is not waited for.
DtorBegin_NoWait ==
  /\ dtor = "run"
  /\ \A a \in Adders : adding[a] = NoEvent
  /\ dtor' = "gone"
  /\ expiring_' = TRUE
  /\ UNCHANGED <<indexVars, clock, adding, expirerVars, shard, attempts, cleared, returned,
                 published>>

\* The destructor claims expiring_; a thread that holds it is waited for.
DtorBegin ==
  /\ dtor = "run"
  /\ \A a \in Adders : adding[a] = NoEvent
  /\ dtor' = IF expiring_ THEN "clear" ELSE "gone"
  /\ expiring_' = TRUE
  /\ UNCHANGED <<indexVars, clock, adding, expirerVars, shard, attempts, cleared, returned,
                 published>>

\* A running expire_events is given less to do.
DtorClear ==
  /\ dtor = "clear"
  /\ LET gone == {k \in Keys : ShardOf[k] = shard}
     IN  /\ indexes_' = [k \in Keys |-> IF k \in gone THEN NoEvent ELSE indexes_[k]]
         /\ cleared' = cleared \cup ({indexes_[k] : k \in gone} \ {NoEvent})
  /\ shard' = shard + 1
  /\ dtor' = IF shard = NShards THEN "wait" ELSE "clear"
  /\ UNCHANGED <<clock, expiring_, adding, added, replaced, expirerVars, attempts, returned,
                 published>>

\* Up to k_stop_attempts looks at expiring_; then the index is destroyed
\* whether or not the thread has finished.
DtorWait ==
  /\ dtor = "wait"
  /\ dtor' = IF attempts = 0 THEN "abandoned" ELSE IF ~expiring_ THEN "gone" ELSE "wait"
  /\ attempts' = IF attempts > 0 /\ expiring_ THEN attempts - 1 ELSE attempts
  /\ expiring_' = (expiring_ \/ attempts > 0)
  /\ UNCHANGED <<indexVars, clock, adding, expirerVars, shard, cleared, returned, published>>

IndexNext ==
  \/ ClockTick \/ TimerCb \/ DtorBegin \/ DtorClear \/ DtorWait
  \/ \E a \in Adders : AddEvent(a) \/ PublishAdded(a)
  \/ \E x \in Expirers : Expire(x)

IndexSpec == IndexInit /\ [][IndexNext]_idxVars

\* The timer is periodic and threads that can run are scheduled.
Fairness ==
  /\ WF_idxVars(TimerCb)
  /\ \A x \in Expirers : WF_idxVars(Expire(x))

IndexFairSpec == IndexSpec /\ Fairness

-----------------------------------------------------------------------------
(* Properties.                                                              *)

Indexed == {indexes_[k] : k \in Keys} \ {NoEvent}
Unpushed == UNION {expired_events[x] : x \in Expirers}
Running == {x \in Expirers : expirer_pc[x] # "idle"}

\* The types of the shards, of expire_events' locals and of the destructor's;
\* the scan of expire_events never leaves the shards.
IndexTypeOK ==
  /\ indexes_ \in [Keys -> Event \cup {NoEvent}]
  /\ clock \in Nat /\ expiring_ \in BOOLEAN /\ added \in Nat
  /\ adding \in [Adders -> Event \cup {NoEvent}]
  /\ expirer_pc \in [Expirers -> {"idle", "start", "scan", "publish", "push", "republish"}]
  /\ time_read \in [Expirers -> Nat] /\ at_shard \in [Expirers -> 1..(NShards + 1)]
  /\ expired_events \in [Expirers -> SUBSET Event]
  /\ event \in [Expirers -> Event \cup {NoEvent}]
  /\ dtor \in {"run", "clear", "wait", "gone", "abandoned"}
  /\ shard \in 1..(NShards + 1) /\ attempts \in 0..StopAttempts
  /\ replaced \subseteq Event /\ cleared \subseteq Event /\ returned \subseteq Event
  /\ published \in [Keys -> Event \cup {NoEvent}]

\* However slow the streams are, timer_cb never runs two expire_events
\* threads at once.
OneExpirer == \A x, y \in Running : x = y

\* An event leaves the index in exactly one way, and none is lost: it is in
\* the index, was replaced, was cleared at shutdown, waits in expired_events,
\* or was pushed to the streams; in particular no event expires twice.
EachEventLeavesOnce ==
  /\ {e.id : e \in Indexed \cup replaced \cup cleared \cup Unpushed \cup returned} = 1..added
  /\ Indexed \cap (replaced \cup cleared \cup Unpushed \cup returned) = {}
  /\ replaced \cap (cleared \cup Unpushed \cup returned) = {}
  /\ cleared \cap (Unpushed \cup returned) = {}
  /\ Unpushed \cap returned = {}

\* expire_events removes no event before its time plus ttl is past, although
\* it compares with a time read before it took any lock.
OnlyDueExpire ==
  [][\A k \in Keys : indexes_[k] # NoEvent /\ indexes_'[k] = NoEvent /\ dtor = "run" =>
       PastTtl(indexes_[k], clock)]_idxVars

\* When ~real_index has seen expiring_ false, no thread uses the index.
DestroyedIsQuiet == dtor = "gone" => Running = {}

\* An event whose ttl has passed does not stay in the index.
DueLeaves ==
  \A n \in 1..MaxAdded :
    (\E e \in Indexed : e.id = n /\ PastTtl(e, clock)) ~>
      (dtor # "run" \/ \A e \in Indexed : e.id # n)

\* README.md on send_index: "Indexed events can be queried through the
\* websocket. This is usful to know the current state of an event from a
\* dashboard."  When nobody is at work, the last event a dashboard was sent
\* for a key is the one in the index.
DashboardShowsIndex ==
  dtor = "run" /\ Running = {} /\ (\A a \in Adders : adding[a] = NoEvent) =>
    \A k \in Keys : indexes_[k] # NoEvent => published[k] = indexes_[k]
=============================================================================
