------------------------------ MODULE LoopProofs ------------------------------
(***************************************************************************)
(* Proofs about an event loop, and about two parts that live on callbacks  *)
(* and timers: the index and the pool of transfers.                        *)
(*                                                                         *)
(* The index (Index), for any set of keys, adders and expirers, any number *)
(* of shards and any hash: one expire_events thread at a time, no event    *)
(* lost or expired twice or before its time, and a destructor that leaves  *)
(* no thread behind unless it gives up waiting.                            *)
(*                                                                         *)
(* The tasks of a loop (AsyncLoop), for any number of tasks, any delays    *)
(* and intervals, and a clock that is set once by any amount: a task runs  *)
(* only when it is due, one that is to run once runs once, and between     *)
(* callbacks the loop's timer is set for the next task.                    *)
(*                                                                         *)
(* curl_pool (CurlPool), for any number of events, queue sizes, limits and *)
(* descriptors, and whatever libcurl does that CurlPool lets it do.        *)
(***************************************************************************)
EXTENDS Index, AsyncLoop, CurlPool, FiniteSetTheorems, TLAPS

-----------------------------------------------------------------------------
(* The index.                                                               *)

\* A thread that runs expire_events holds expiring_.
FlagHeld == \A x \in Running : expiring_

Control == OneExpirer /\ FlagHeld /\ DestroyedIsQuiet

\* What the locals of expire_events and of the destructor are at each point.
Locals ==
  /\ \A x \in Expirers :
       /\ expirer_pc[x] \in {"idle", "start"} => at_shard[x] = 1
       /\ expirer_pc[x] = "scan" => at_shard[x] <= NShards
       /\ expirer_pc[x] = "idle" => expired_events[x] = {}
       /\ expirer_pc[x] = "push" => event[x] \in expired_events[x]
       /\ expirer_pc[x] = "republish" => event[x] \in Event
       /\ time_read[x] <= clock
  /\ dtor \in {"run", "clear"} => shard <= NShards

\* Every event is filed under its own key.
FiledByKey == \A k \in Keys : indexes_[k] # NoEvent => indexes_[k].key = k

IndexInv == IndexTypeOK /\ Locals /\ Control /\ FiledByKey /\ EachEventLeavesOnce

-----------------------------------------------------------------------------
\* expiring_ admits one expire_events thread, and the destructor waits for it.
LEMMA ControlStep == IndexTypeOK /\ Control /\ [IndexNext]_idxVars => Control'
<1> SUFFICES ASSUME IndexTypeOK, Control, [IndexNext]_idxVars PROVE Control'
  OBVIOUS
<1> USE DEF Control, OneExpirer, FlagHeld, DestroyedIsQuiet, Running, Goto
<1>0. expirer_pc \in [Expirers -> {"idle", "start", "scan", "publish", "push", "republish"}]
      /\ expiring_ \in BOOLEAN
  BY DEF IndexTypeOK
<1>1. CASE TimerCb
  BY <1>0, <1>1 DEF TimerCb, stopVars
<1>2. ASSUME NEW x \in Expirers, Expire(x), ~ExpireEnd(x) PROVE Control'
  <2>1. UNCHANGED <<dtor, expiring_>>
    BY <1>2 DEF Expire, ExpireStart, ExpireShard, RemoveDue, ExpirePublish, ExpirePush,
                ExpireRepublish, stopVars
  <2>2. /\ expirer_pc[x] # "idle" /\ expirer_pc'[x] # "idle"
        /\ \A y \in Expirers \ {x} : expirer_pc'[y] = expirer_pc[y]
    BY <1>0, <1>2 DEF Expire, ExpireStart, ExpireShard, RemoveDue, ExpirePublish,
                      ExpirePush, ExpireRepublish
  <2> QED
    BY <2>1, <2>2
<1>3. ASSUME NEW x \in Expirers, ExpireEnd(x) PROVE Control'
  BY <1>0, <1>3 DEF ExpireEnd, stopVars
<1>4. CASE DtorBegin \/ DtorClear \/ DtorWait
  <2>1. expirer_pc' = expirer_pc
    BY <1>4 DEF DtorBegin, DtorClear, DtorWait, expirerVars
  <2>2. expiring_ => expiring_'
    BY Zenon, <1>0, <1>4 DEF DtorBegin, DtorClear, DtorWait
  <2>3. dtor' = "gone" => ~expiring_ \/ dtor = "gone"
    BY <1>4 DEF DtorBegin, DtorClear, DtorWait
  <2> QED
    BY <2>1, <2>2, <2>3
<1>5. CASE UNCHANGED <<expirer_pc, expiring_, dtor>>
  BY <1>5
<1> QED
  BY <1>1, <1>2, <1>3, <1>4, <1>5
     DEF IndexNext, idxVars, ClockTick, AddEvent, PublishAdded, stopVars, expirerVars

-----------------------------------------------------------------------------
\* Insert keeps the types of what it changes.
LEMMA InsertTypes ==
  ASSUME IndexTypeOK, NEW e \in Event, Insert(e)
  PROVE  /\ indexes_' \in [Keys -> Event \cup {NoEvent}]
         /\ added' \in Nat /\ replaced' \subseteq Event
  BY DEF IndexTypeOK, Insert, Event

\* The types, and what an expirer's locals hold at each point of expire_events
\* and of the destructor, are kept by every step.
LEMMA LocalsStep == IndexTypeOK /\ Locals /\ [IndexNext]_idxVars => IndexTypeOK' /\ Locals'
<1> SUFFICES ASSUME IndexTypeOK, Locals, [IndexNext]_idxVars PROVE IndexTypeOK' /\ Locals'
  OBVIOUS
<1>0. NShards \in Nat \ {0} /\ StopAttempts \in Nat
  BY IndexAssumption
<1> USE <1>0 DEF indexVars, expirerVars, stopVars, Goto
<1>1. CASE ClockTick
  <2>1. Locals'
    BY <1>1 DEF ClockTick, IndexTypeOK, Locals
  <2> QED
    BY <1>1, <2>1 DEF ClockTick, IndexTypeOK
<1>2. ASSUME NEW a \in Adders, AddEvent(a) PROVE IndexTypeOK' /\ Locals'
  <2>1. PICK k \in Keys, ttl \in Ttls, t \in 0..clock :
          LET e == [id |-> added + 1, key |-> k, time |-> t, ttl |-> ttl, expired |-> FALSE]
          IN  Insert(e) /\ adding' = [adding EXCEPT ![a] = e]
    BY Zenon, <1>2 DEF AddEvent
  <2> DEFINE e == [id |-> added + 1, key |-> k, time |-> t, ttl |-> ttl, expired |-> FALSE]
  <2>2. e \in Event
    BY DEF IndexTypeOK, Event
  <2> HIDE DEF e
  <2>3. Insert(e) /\ adding' = [adding EXCEPT ![a] = e]
    BY <2>1 DEF e
  <2> QED
    BY Zenon, <1>2, <2>2, <2>3, InsertTypes DEF AddEvent, IndexTypeOK, Locals
<1>3. ASSUME NEW a \in Adders, PublishAdded(a) PROVE IndexTypeOK' /\ Locals'
  BY Zenon, <1>3 DEF PublishAdded, Publish, IndexTypeOK, Locals
<1>4. CASE TimerCb
  BY <1>4 DEF TimerCb, IndexTypeOK, Locals
<1>5. ASSUME NEW x \in Expirers, ExpireStart(x) PROVE IndexTypeOK' /\ Locals'
  BY <1>5 DEF ExpireStart, IndexTypeOK, Locals
<1>6. ASSUME NEW x \in Expirers, ExpireShard(x) PROVE IndexTypeOK' /\ Locals'
  <2>1. {indexes_[k] : k \in DueIn(x)} \subseteq Event
    BY DEF DueIn, InShard, IndexTypeOK
  <2>2. indexes_' \in [Keys -> Event \cup {NoEvent}]
    BY <1>6 DEF ExpireShard, RemoveDue, IndexTypeOK
  <2>3. expired_events' \in [Expirers -> SUBSET Event]
    BY <1>6, <2>1 DEF ExpireShard, RemoveDue, IndexTypeOK
  <2>4. at_shard[x] \in 1..NShards
    BY <1>6 DEF ExpireShard, RemoveDue, IndexTypeOK, Locals
  <2>5. at_shard' \in [Expirers -> 1..(NShards + 1)]
        /\ expirer_pc' \in [Expirers -> {"idle", "start", "scan", "publish", "push", "republish"}]
    BY <1>6, <2>4 DEF ExpireShard, RemoveDue, IndexTypeOK
  <2>6. Locals'
    BY <1>6, <2>4 DEF ExpireShard, RemoveDue, IndexTypeOK, Locals
  <2> QED
    BY <1>6, <2>2, <2>3, <2>5, <2>6 DEF ExpireShard, RemoveDue, IndexTypeOK
<1>7. ASSUME NEW x \in Expirers, ExpirePublish(x) PROVE IndexTypeOK' /\ Locals'
  <2>1. PICK e \in expired_events[x] : /\ Publish([e EXCEPT !.expired = TRUE])
                                       /\ event' = [event EXCEPT ![x] = e]
    BY Zenon, <1>7 DEF ExpirePublish
  <2>2. e \in Event
    BY DEF IndexTypeOK
  <2>3. [e EXCEPT !.expired = TRUE] \in Event /\ [e EXCEPT !.expired = TRUE].key \in Keys
    BY Zenon, <2>2 DEF Event
  <2>4. published' \in [Keys -> Event \cup {NoEvent}]
    BY <2>1, <2>3 DEF Publish, IndexTypeOK
  <2> QED
    BY <1>7, <2>1, <2>2, <2>4 DEF ExpirePublish, IndexTypeOK, Locals
<1>8. ASSUME NEW x \in Expirers, ExpirePush(x) PROVE IndexTypeOK' /\ Locals'
  <2> DEFINE again == [event[x] EXCEPT !.id = added + 1, !.expired = TRUE]
  <2>1. event[x] \in Event
    BY <1>8 DEF ExpirePush, IndexTypeOK, Locals
  <2>2. again \in Event
    <3>1. added + 1 \in Nat
      BY DEF IndexTypeOK
    <3> HIDE DEF indexVars, expirerVars, stopVars
    <3> QED
      BY Zenon, <2>1, <3>1 DEF Event
  <2>3. \/ event' = [event EXCEPT ![x] = NoEvent] /\ UNCHANGED indexVars /\ Goto(x, "publish")
        \/ event' = [event EXCEPT ![x] = again] /\ Insert(again) /\ Goto(x, "republish")
    BY <1>8 DEF ExpirePush
  <2> HIDE DEF again
  <2>4. /\ indexes_' \in [Keys -> Event \cup {NoEvent}]
        /\ added' \in Nat /\ replaced' \subseteq Event
    BY <2>2, <2>3, InsertTypes DEF IndexTypeOK
  <2>5. /\ event' \in [Expirers -> Event \cup {NoEvent}]
        /\ expired_events' \in [Expirers -> SUBSET Event]
    BY <1>8, <2>2, <2>3 DEF ExpirePush, IndexTypeOK
  <2>6. Locals'
    BY <1>8, <2>2, <2>3 DEF ExpirePush, IndexTypeOK, Locals
  <2> QED
    BY <1>8, <2>1, <2>3, <2>4, <2>5, <2>6 DEF ExpirePush, IndexTypeOK
<1>9. ASSUME NEW x \in Expirers, ExpireRepublish(x) PROVE IndexTypeOK' /\ Locals'
  <2>1. event[x] \in Event /\ event[x].key \in Keys
    BY <1>9 DEF ExpireRepublish, Locals, Event
  <2> QED
    BY <1>9, <2>1 DEF ExpireRepublish, Publish, IndexTypeOK, Locals
<1>10. ASSUME NEW x \in Expirers, ExpireEnd(x) PROVE IndexTypeOK' /\ Locals'
  <2>1. time_read' \in [Expirers -> Nat] /\ at_shard' \in [Expirers -> 1..(NShards + 1)]
    BY <1>10 DEF ExpireEnd, IndexTypeOK
  <2>2. Locals'
    BY <1>10 DEF ExpireEnd, IndexTypeOK, Locals
  <2> QED
    BY Zenon, <1>10, <2>1, <2>2 DEF ExpireEnd, IndexTypeOK
<1>11. CASE DtorBegin
  BY <1>11 DEF DtorBegin, IndexTypeOK, Locals
<1>12. CASE DtorClear
  BY <1>12 DEF DtorClear, IndexTypeOK, Locals
<1>13. CASE DtorWait
  BY <1>13 DEF DtorWait, IndexTypeOK, Locals
<1>14. CASE UNCHANGED idxVars
  BY <1>14 DEF idxVars, IndexTypeOK, Locals
<1> QED
  BY <1>1, <1>2, <1>3, <1>4, <1>5, <1>6, <1>7, <1>8, <1>9, <1>10, <1>11, <1>12, <1>13,
     <1>14 DEF IndexNext, Expire

-----------------------------------------------------------------------------
(* No event is lost or leaves twice.                                        *)

\* Everything add_event was given so far.
All == Indexed \cup replaced \cup cleared \cup Unpushed \cup returned

\* Inserting an event with a new number keeps the books.
LEMMA InsertKeeps ==
  ASSUME IndexTypeOK, FiledByKey, EachEventLeavesOnce, NEW e \in Event, e.id = added + 1,
         Insert(e), UNCHANGED cleared, Unpushed' \cup returned' = Unpushed \cup returned,
         Unpushed' \cap returned' = {}
  PROVE  FiledByKey' /\ EachEventLeavesOnce'
<1> DEFINE old == {indexes_[e.key]} \ {NoEvent}
<1>1. e.key \in Keys /\ added \in Nat /\ e # NoEvent
  BY NoEventAssumption DEF Event, IndexTypeOK
<1>2. FiledByKey'
  BY <1>1 DEF FiledByKey, Insert, IndexTypeOK
<1>3. /\ Indexed' = (Indexed \ old) \cup {e} /\ replaced' = replaced \cup old
      /\ old \subseteq Indexed
  <2>1. \A k \in Keys \ {e.key} : indexes_[k] # NoEvent => indexes_[k] \notin old
    BY <1>1 DEF FiledByKey
  <2>2. \A k \in Keys : indexes_'[k] = IF k = e.key THEN e ELSE indexes_[k]
    BY <1>1 DEF Insert, IndexTypeOK
  <2> QED
    BY <1>1, <2>1, <2>2 DEF Indexed, Insert
<1>4. \A f \in All : f.id \in 1..added
  BY DEF EachEventLeavesOnce, All
<1>5. e \notin All
  BY <1>1, <1>4
<1>6. All' = All \cup {e}
  BY <1>3 DEF All
<1>7. {f.id : f \in All'} = 1..added'
  <2>1. {f.id : f \in All} = 1..added
    BY DEF EachEventLeavesOnce, All
  <2>2. {f.id : f \in All'} = (1..added) \cup {added + 1}
    BY <1>6, <2>1
  <2>3. added' = added + 1
    BY DEF Insert
  <2> QED
    BY <1>1, <2>2, <2>3
<1> QED
  BY <1>2, <1>3, <1>5, <1>7 DEF EachEventLeavesOnce, All

\* Steps that move events between the places they can be.
LEMMA BooksStep == IndexInv /\ [IndexNext]_idxVars => FiledByKey' /\ EachEventLeavesOnce'
<1> SUFFICES ASSUME IndexInv, [IndexNext]_idxVars PROVE FiledByKey' /\ EachEventLeavesOnce'
  OBVIOUS
<1> USE DEF IndexInv
<1>1. ASSUME UNCHANGED <<indexVars, cleared, returned, expired_events>>
      PROVE  FiledByKey' /\ EachEventLeavesOnce'
  BY <1>1 DEF indexVars, FiledByKey, EachEventLeavesOnce, Indexed, Unpushed
<1>2. ASSUME NEW a \in Adders, AddEvent(a) PROVE FiledByKey' /\ EachEventLeavesOnce'
  <2>1. PICK k \in Keys, ttl \in Ttls, t \in 0..clock :
          Insert([id |-> added + 1, key |-> k, time |-> t, ttl |-> ttl, expired |-> FALSE])
    BY Zenon, <1>2 DEF AddEvent
  <2> DEFINE e == [id |-> added + 1, key |-> k, time |-> t, ttl |-> ttl, expired |-> FALSE]
  <2>2. e \in Event /\ e.id = added + 1
    BY DEF IndexTypeOK, Event
  <2>3. UNCHANGED cleared /\ Unpushed' = Unpushed /\ returned' = returned
    BY <1>2 DEF AddEvent, stopVars, expirerVars, Unpushed
  <2>4. Unpushed \cap returned = {}
    BY DEF EachEventLeavesOnce
  <2>5. Insert(e)
    BY <2>1
  <2> HIDE DEF e
  <2> QED
    BY <2>2, <2>3, <2>4, <2>5, InsertKeeps
<1>3. ASSUME NEW x \in Expirers, ExpireShard(x) PROVE FiledByKey' /\ EachEventLeavesOnce'
  <2> DEFINE gone == {indexes_[k] : k \in DueIn(x)}
  <2>1. \A k \in Keys : indexes_'[k] = IF k \in DueIn(x) THEN NoEvent ELSE indexes_[k]
    BY <1>3 DEF ExpireShard, RemoveDue
  <2>2. DueIn(x) \subseteq Keys /\ \A k \in DueIn(x) : indexes_[k] # NoEvent
    BY DEF DueIn, InShard
  <2>3. gone \subseteq Indexed
    BY <2>2 DEF Indexed
  <2>4. \A k \in Keys \ DueIn(x) : indexes_[k] # NoEvent => indexes_[k] \notin gone
    BY <2>2 DEF FiledByKey
  <2>5. Indexed' = Indexed \ gone
    BY <2>1, <2>2, <2>4 DEF Indexed
  <2>6. Unpushed' = Unpushed \cup gone
    <3>1. \A y \in Expirers : expired_events'[y] =
            IF y = x THEN expired_events[x] \cup gone ELSE expired_events[y]
      BY <1>3 DEF ExpireShard, RemoveDue, IndexTypeOK
    <3> QED
      BY Zenon, <3>1 DEF Unpushed
  <2>7. UNCHANGED <<replaced, cleared, returned, added>>
    BY <1>3 DEF ExpireShard, RemoveDue, stopVars
  <2>8. FiledByKey'
    BY <2>1 DEF FiledByKey
  <2> HIDE DEF gone
  <2>9. All' = All
    BY <2>3, <2>5, <2>6, <2>7 DEF All
  <2> QED
    BY <2>3, <2>5, <2>6, <2>7, <2>8, <2>9 DEF EachEventLeavesOnce, All
<1>4. ASSUME NEW x \in Expirers, ExpirePush(x) PROVE FiledByKey' /\ EachEventLeavesOnce'
  <2>1. event[x] \in expired_events[x] /\ event[x] \in Unpushed /\ event[x] \in Event
    BY <1>4 DEF ExpirePush, Locals, Unpushed, IndexTypeOK
  <2>2. \A y \in Expirers \ {x} : expired_events[y] = {}
    <3>1. expirer_pc[x] # "idle"
      BY <1>4 DEF ExpirePush
    <3> QED
      BY <3>1 DEF Control, OneExpirer, Running, Locals
  <2>3. Unpushed' = Unpushed \ {event[x]} /\ returned' = returned \cup {event[x]}
    <3>1. \A y \in Expirers : expired_events'[y] =
            IF y = x THEN expired_events[x] \ {event[x]} ELSE expired_events[y]
      BY <1>4 DEF ExpirePush, IndexTypeOK
    <3> QED
      BY <1>4, <2>2, <3>1 DEF ExpirePush, Unpushed
  <2>4. Unpushed' \cup returned' = Unpushed \cup returned /\ Unpushed' \cap returned' = {}
    BY <2>1, <2>3 DEF EachEventLeavesOnce
  <2>5. UNCHANGED cleared
    BY <1>4 DEF ExpirePush, stopVars
  <2>6. CASE UNCHANGED indexVars
    <3>1. FiledByKey' /\ UNCHANGED <<Indexed, replaced, added>>
      BY <2>6 DEF indexVars, FiledByKey, Indexed
    <3> QED
      BY <2>4, <2>5, <3>1 DEF EachEventLeavesOnce
  <2>7. ASSUME Insert([event[x] EXCEPT !.id = added + 1, !.expired = TRUE])
        PROVE  FiledByKey' /\ EachEventLeavesOnce'
    <3> DEFINE again == [event[x] EXCEPT !.id = added + 1, !.expired = TRUE]
    <3>1. added + 1 \in Nat
      BY DEF IndexTypeOK
    <3>2. again \in Event /\ again.id = added + 1
      BY Zenon, <2>1, <3>1 DEF Event
    <3>3. Insert(again)
      BY <2>7
    <3> HIDE DEF again
    <3> QED
      BY <2>4, <2>5, <3>2, <3>3, InsertKeeps
  <2> QED
    BY <1>4, <2>6, <2>7 DEF ExpirePush
<1>5. CASE DtorClear
  <2> DEFINE K == {k \in Keys : ShardOf[k] = shard}
             gone == {indexes_[k] : k \in K} \ {NoEvent}
  <2>1. \A k \in Keys : indexes_'[k] = IF k \in K THEN NoEvent ELSE indexes_[k]
    BY <1>5 DEF DtorClear
  <2>2. gone \subseteq Indexed
    BY DEF Indexed
  <2>3. \A k \in Keys \ K : indexes_[k] # NoEvent => indexes_[k] \notin gone
    BY DEF FiledByKey
  <2>4. Indexed' = Indexed \ gone
    BY <2>1, <2>3 DEF Indexed
  <2>5. cleared' = cleared \cup gone /\ UNCHANGED <<replaced, returned, added, Unpushed>>
    BY <1>5 DEF DtorClear, expirerVars, Unpushed
  <2>6. FiledByKey'
    BY <2>1 DEF FiledByKey
  <2> HIDE DEF gone
  <2>7. All' = All
    BY <2>2, <2>4, <2>5 DEF All
  <2> QED
    BY <2>2, <2>4, <2>5, <2>6, <2>7 DEF EachEventLeavesOnce, All
<1> QED
  <2> USE DEF stopVars, expirerVars
  <2>1. CASE ClockTick \/ TimerCb \/ DtorBegin \/ DtorWait \/ UNCHANGED idxVars
    BY <1>1, <2>1 DEF ClockTick, TimerCb, DtorBegin, DtorWait, idxVars
  <2>2. ASSUME NEW a \in Adders, PublishAdded(a) PROVE FiledByKey' /\ EachEventLeavesOnce'
    BY <1>1, <2>2 DEF PublishAdded
  <2>3. ASSUME NEW x \in Expirers,
               ExpireStart(x) \/ ExpirePublish(x) \/ ExpireRepublish(x) \/ ExpireEnd(x)
        PROVE  FiledByKey' /\ EachEventLeavesOnce'
    BY <1>1, <2>3 DEF ExpireStart, ExpirePublish, ExpireRepublish, ExpireEnd
  <2> QED
    BY <1>2, <1>3, <1>4, <1>5, <2>1, <2>2, <2>3 DEF IndexNext, Expire

\* An index that was just constructed is empty, and nothing has left it.
LEMMA IndexInvInit == IndexInit => IndexInv
<1> SUFFICES ASSUME IndexInit PROVE IndexInv
  OBVIOUS
<1> USE DEF IndexInit
<1>0. NShards \in Nat \ {0} /\ StopAttempts \in Nat
  BY IndexAssumption
<1>1. IndexTypeOK
  <2>1. /\ time_read \in [Expirers -> Nat] /\ at_shard \in [Expirers -> 1..(NShards + 1)]
        /\ shard \in 1..(NShards + 1) /\ attempts \in 0..StopAttempts
        /\ clock \in Nat /\ added \in Nat
    BY <1>0
  <2> QED
    BY Zenon, <2>1 DEF IndexTypeOK
<1>2. Locals
  BY <1>0 DEF Locals
<1>3. Control
  BY DEF Control, OneExpirer, FlagHeld, DestroyedIsQuiet, Running
<1>4. Indexed = {} /\ Unpushed = {}
  BY DEF Indexed, Unpushed
<1>5. FiledByKey /\ EachEventLeavesOnce
  BY <1>4 DEF FiledByKey, EachEventLeavesOnce
<1> QED
  BY <1>1, <1>2, <1>3, <1>5 DEF IndexInv

\* The inductive invariant holds in every reachable state of the index.
THEOREM InvHolds == IndexSpec => []IndexInv
<1>1. IndexInv /\ [IndexNext]_idxVars => IndexInv'
  BY ControlStep, LocalsStep, BooksStep DEF IndexInv
<1> QED
  BY <1>1, IndexInvInit, PTL DEF IndexSpec

\* Type correctness of the index.
THEOREM IndexTypeCorrect == IndexSpec => []IndexTypeOK
  BY InvHolds, PTL DEF IndexInv

\* timer_cb never runs two expire_events threads at once.
THEOREM AtMostOneExpirer == IndexSpec => []OneExpirer
  BY InvHolds, PTL DEF IndexInv, Control

\* An event leaves the index in exactly one way; none is lost or expired twice
\* by add_event and expire_events, whatever their interleaving.
THEOREM EventsLeaveOnce == IndexSpec => []EachEventLeavesOnce
  BY InvHolds, PTL DEF IndexInv

\* No thread uses the index after a destructor that has seen expiring_ false.
THEOREM QuietAfterDestruction == IndexSpec => []DestroyedIsQuiet
  BY InvHolds, PTL DEF IndexInv, Control

\* expire_events removes no event before its time plus ttl is past.
THEOREM ExpiresOnlyDue == IndexSpec => OnlyDueExpire
<1>1. ASSUME IndexInv, [IndexNext]_idxVars, NEW k \in Keys, indexes_[k] # NoEvent,
             indexes_'[k] = NoEvent, dtor = "run"
      PROVE  PastTtl(indexes_[k], clock)
  <2>1. ASSUME NEW e \in Event, Insert(e) PROVE FALSE
    BY <1>1, <2>1, NoEventAssumption DEF Insert, IndexInv, IndexTypeOK
  <2>2. ASSUME NEW a \in Adders, AddEvent(a) PROVE FALSE
    <3>1. PICK j \in Keys, ttl \in Ttls, t \in 0..clock :
            Insert([id |-> added + 1, key |-> j, time |-> t, ttl |-> ttl, expired |-> FALSE])
      BY Zenon, <2>2 DEF AddEvent
    <3>2. [id |-> added + 1, key |-> j, time |-> t, ttl |-> ttl, expired |-> FALSE] \in Event
      BY <1>1 DEF IndexInv, IndexTypeOK, Event
    <3> QED
      BY <2>1, <3>1, <3>2
  <2>3. ASSUME NEW x \in Expirers, ExpirePush(x) PROVE FALSE
    <3>1. event[x] \in Event /\ added + 1 \in Nat
      BY <1>1, <2>3 DEF ExpirePush, IndexInv, Locals, IndexTypeOK
    <3>2. [event[x] EXCEPT !.id = added + 1, !.expired = TRUE] \in Event
      BY Zenon, <3>1 DEF Event
    <3> QED
      BY <1>1, <2>1, <2>3, <3>2 DEF ExpirePush, indexVars
  <2>4. ASSUME NEW x \in Expirers, ExpireShard(x) PROVE PastTtl(indexes_[k], clock)
    <3>1. k \in DueIn(x)
      BY <1>1, <2>4 DEF ExpireShard, RemoveDue
    <3>2. /\ PastTtl(indexes_[k], time_read[x])
          /\ time_read[x] <= clock /\ time_read[x] \in Nat /\ clock \in Nat
      BY <1>1, <3>1 DEF DueIn, InShard, IndexInv, Locals, IndexTypeOK
    <3>3. indexes_[k] \in Event
      BY <1>1 DEF IndexInv, IndexTypeOK
    <3>4. indexes_[k].time \in Nat /\ indexes_[k].ttl \in Nat
      BY Zenon, <3>3, IndexAssumption DEF Event
    <3> QED
      BY <3>2, <3>4 DEF PastTtl
  <2>5. CASE UNCHANGED indexes_
    BY <1>1, <2>5
  <2> QED
    BY <1>1, <2>2, <2>3, <2>4, <2>5
       DEF IndexNext, Expire, idxVars, indexVars, ClockTick, TimerCb, DtorBegin, DtorClear,
           DtorWait, PublishAdded, ExpireStart, ExpirePublish, ExpireRepublish, ExpireEnd
<1>2. IndexInv /\ [IndexNext]_idxVars =>
        [\A k \in Keys : indexes_[k] # NoEvent /\ indexes_'[k] = NoEvent /\ dtor = "run" =>
           PastTtl(indexes_[k], clock)]_idxVars
  BY <1>1
<1> QED
  BY <1>2, InvHolds, PTL DEF IndexSpec, OnlyDueExpire

-----------------------------------------------------------------------------
(* The tasks of an event loop.                                              *)

Task == [id : Ids, ns : Namespaces, interval : Nat, time : Int]
Places == {"new", "idle", "check", "run", "after", "ended"}

Types ==
  /\ elapsed \in 0..MaxTime /\ offset \in {-Jump, 0, Jump}
  /\ next_id \in 1..(MaxTasks + 1)
  /\ tasks \subseteq Task
  /\ timer \in Nat \cup {Off}
  /\ pc \in [at : Places, task : Task \cup {None}]
  /\ stop \in BOOLEAN /\ sent \in BOOLEAN
  /\ ran \in [Ids -> Nat]

\* The queue holds one task per id, and on top of it is one of the earliest.
Queue ==
  /\ \A t \in tasks : t.id < next_id
  /\ \A t, u \in tasks : t.id = u.id => t = u
  /\ top \in Earliest(tasks)

\* What timer_callback knows of the task it runs.  If the clock was not set
\* back, a task that is still there after it ran is still on top.
Current ==
  /\ pc.at = "run" => /\ top \in tasks /\ pc.task = top
                      /\ offset >= 0 => top.time <= now
  /\ pc.at = "after" => /\ pc.task \in Task /\ pc.task.id < next_id
                        /\ \A t \in tasks : t.id = pc.task.id => t = pc.task
                        /\ offset >= 0 /\ pc.task \in tasks => top = pc.task

\* A task that is to run once is gone when it has run, and no task has run
\* that was not added.
Once ==
  /\ \A i \in Ids : i >= next_id => ran[i] = 0
  /\ \A t \in tasks : t.interval = 0 /\ ran[t.id] > 0 /\ offset >= 0
                        => pc.at = "after" /\ pc.task.id = t.id

\* The timer is set for the task on top.
Armed ==
  tasks # {} => timer # Off /\ (offset = 0 => timer <= elapsed \/ timer <= top.time)

IInv == Types /\ Queue /\ Current /\ Once /\ TimerArmed

-----------------------------------------------------------------------------
\* The top of the priority queue (sched_task_cmp) is one of its tasks, and none
\* is earlier.
LEMMA TopOfEarliest ==
  ASSUME NEW ts, NEW tp \in Earliest(ts)
  PROVE  /\ ts = {} => tp = None
         /\ ts # {} => tp \in ts /\ \A u \in ts : tp.time <= u.time
  BY DEF Earliest

\* A push puts the new task on top only if it is earlier than all others.
LEMMA PushTop ==
  ASSUME NEW ts \in SUBSET Task, NEW tp \in Earliest(ts), NEW t \in Task
  PROVE  /\ Push(ts, tp, t).tasks = ts \cup {t}
         /\ Push(ts, tp, t).top \in Earliest(ts \cup {t})
         /\ ts # {} /\ tp.time <= t.time => Push(ts, tp, t).top = tp
<1>1. CASE ts = {}
  <2>1. Push(ts, tp, t) = [tasks |-> {t}, top |-> t]
    BY <1>1 DEF Push
  <2>2. t.time \in Int
    BY DEF Task
  <2> QED
    BY <1>1, <2>1, <2>2 DEF Earliest
<1>2. CASE ts # {}
  <2>1. /\ tp \in ts /\ \A u \in ts : tp.time <= u.time /\ u.time \in Int
        /\ tp.time \in Int /\ t.time \in Int
    BY <1>2, TopOfEarliest DEF Task
  <2>2. CASE t.time < tp.time
    <3>1. Push(ts, tp, t) = [tasks |-> ts \cup {t}, top |-> t]
      BY <2>2 DEF Push
    <3>2. \A u \in ts \cup {t} : t.time <= u.time
      BY <2>1, <2>2
    <3> QED
      BY <2>1, <2>2, <3>1, <3>2 DEF Earliest
  <2>3. CASE ~(t.time < tp.time)
    <3>1. Push(ts, tp, t) = [tasks |-> ts \cup {t}, top |-> tp]
      BY <1>2, <2>3 DEF Push
    <3>2. \A u \in ts \cup {t} : tp.time <= u.time
      BY <2>1, <2>3
    <3> QED
      BY <2>1, <2>3, <3>1, <3>2 DEF Earliest
  <2> QED
    BY <2>2, <2>3
<1> QED
  BY <1>1, <1>2

\* sched_next_task sets the timer for the top of the queue, now if it is due.
LEMMA SchedTop ==
  ASSUME Types, NEW ts \in SUBSET Task, NEW tp \in Earliest(ts)
  PROVE  /\ SchedNextTask(ts, tp) \in Nat \cup {Off}
         /\ ts # {} => /\ SchedNextTask(ts, tp) # Off
                       /\ offset = 0 => \/ SchedNextTask(ts, tp) <= elapsed
                                        \/ SchedNextTask(ts, tp) <= tp.time
<1>1. elapsed \in Nat /\ now \in Int
  BY LoopBounds DEF Types, now
<1>2. ts # {} => tp.time \in Int
  BY TopOfEarliest DEF Task
<1>3. offset = 0 => now = elapsed
  BY <1>1 DEF now
<1> QED
  BY <1>1, <1>2, <1>3 DEF SchedNextTask, Off

-----------------------------------------------------------------------------
\* What the code that a callback runs may do to the queue.
CodeKeeps ==
  /\ tasks' \subseteq Task /\ next_id' \in 1..(MaxTasks + 1) /\ timer' \in Nat \cup {Off}
  /\ Queue'
  /\ next_id <= next_id'
  /\ \A t \in tasks' : t \in tasks \/ t.id = next_id
  /\ top \in tasks /\ top \in tasks' /\ top.time <= now => top' = top
  /\ Armed /\ UNCHANGED time_vars => Armed'

\* add_once_task and add_periodic_task: the new task has an id of its own, and is
\* not earlier than a task that is due.
LEMMA AddKeeps ==
  ASSUME Types, Queue,
         NEW ns \in Namespaces, NEW once \in BOOLEAN, NEW t \in Delays, AddTask(ns, once, t)
  PROVE  CodeKeeps
<1> DEFINE task == [id |-> next_id, ns |-> ns, interval |-> IF once THEN 0 ELSE t, time |-> now + t]
           q == Push(tasks, top, task)
<1>1. /\ next_id <= MaxTasks /\ next_id' = next_id + 1
      /\ tasks' = q.tasks /\ top' = q.top /\ timer' = SchedNextTask(q.tasks, q.top)
  BY DEF AddTask
<1>2. t \in Nat /\ now \in Int /\ next_id \in Nat /\ next_id >= 1 /\ MaxTasks \in Nat
  BY LoopBounds DEF Types, now
<1>3. task \in Task /\ task.id = next_id /\ task.time = now + t
  BY <1>1, <1>2 DEF Task, Ids
<1>4. tasks \in SUBSET Task /\ top \in Earliest(tasks)
  BY DEF Types, Queue
<1> HIDE DEF task
<1>5. /\ tasks' = tasks \cup {task} /\ top' \in Earliest(tasks')
      /\ tasks # {} /\ top.time <= task.time => top' = top
  <2>1. /\ q.tasks = tasks \cup {task} /\ q.top \in Earliest(tasks \cup {task})
        /\ tasks # {} /\ top.time <= task.time => q.top = top
    BY ZenonT(30), <1>3, <1>4, PushTop
  <2> HIDE DEF q
  <2> QED
    BY <1>1, <2>1
<1>6. tasks' \subseteq Task
  BY <1>3, <1>4, <1>5
<1> HIDE DEF q
<1>7. /\ timer' \in Nat \cup {Off}
      /\ timer' # Off
      /\ offset = 0 => timer' <= elapsed \/ timer' <= top'.time
  BY Zenon, <1>1, <1>5, <1>6, SchedTop
<1>8. \A u \in tasks : u.id \in Nat /\ u.id < next_id
  BY <1>2, <1>4 DEF Queue, Task, Ids
<1>9. Queue'
  <2>1. \A u \in tasks' : u.id < next_id'
    BY <1>1, <1>2, <1>3, <1>5, <1>8
  <2>2. \A u, v \in tasks' : u.id = v.id => u = v
    BY <1>2, <1>3, <1>5, <1>8 DEF Queue
  <2> QED
    BY <1>5, <2>1, <2>2 DEF Queue
<1>10. top \in tasks /\ top.time <= now => top' = top
  <2>1. top \in tasks => top.time \in Int
    BY <1>4 DEF Task
  <2> QED
    BY <1>2, <1>3, <1>5, <2>1
<1>11. UNCHANGED time_vars => Armed'
  BY <1>7 DEF Armed, time_vars, Off
<1>12. next_id' \in 1..(MaxTasks + 1) /\ next_id <= next_id'
  BY <1>1, <1>2
<1> QED
  BY <1>3, <1>5, <1>6, <1>7, <1>9, <1>10, <1>11, <1>12 DEF CodeKeeps

\* remove_task and remove_task_lib_namespace: the rest of the queue is as it was,
\* and the timer, which is not set again, is early at worst.
LEMMA RemoveKeeps ==
  ASSUME Types, Queue, NEW gone, RemoveTasks(gone)
  PROVE  CodeKeeps
<1>1. /\ tasks' = tasks \ gone /\ next_id' = next_id /\ timer' = timer
      /\ IF top \in gone THEN top' \in Earliest(tasks \ gone) ELSE top' = top
  BY DEF RemoveTasks
<1>2. /\ tasks \in SUBSET Task /\ top \in Earliest(tasks) /\ timer \in Nat \cup {Off}
      /\ next_id \in 1..(MaxTasks + 1) /\ next_id \in Int /\ elapsed \in Int
  BY LoopBounds DEF Types, Queue
<1>3. \A u \in tasks : u.time \in Int
  BY <1>2 DEF Task
<1>4. /\ tasks = {} => top = None
      /\ tasks # {} => top \in tasks /\ \A u \in tasks : top.time <= u.time
  BY <1>2, TopOfEarliest
<1>5. top' \in Earliest(tasks')
  <2>1. CASE top \in gone
    BY <1>1, <2>1
  <2>2. CASE top \notin gone /\ tasks = {}
    BY <1>1, <1>2, <2>2
  <2>3. CASE top \notin gone /\ tasks # {}
    BY <1>1, <1>4, <2>3 DEF Earliest
  <2> QED
    BY <2>1, <2>2, <2>3
<1>6. Queue'
  BY <1>1, <1>5 DEF Queue
<1>7. top \in tasks' => top' = top
  BY <1>1
<1>8. Armed /\ UNCHANGED time_vars => Armed'
  <2> SUFFICES ASSUME Armed, UNCHANGED time_vars, tasks' # {}
               PROVE  timer' # Off /\ (offset' = 0 => timer' <= elapsed' \/ timer' <= top'.time)
    BY DEF Armed
  <2>1. /\ timer # Off /\ (offset = 0 => timer <= elapsed \/ timer <= top.time)
        /\ tasks # {}
    BY <1>1 DEF Armed
  <2>2. top' \in tasks /\ top.time <= top'.time /\ top'.time \in Int /\ top.time \in Int
    BY <1>1, <1>3, <1>4, <1>5, <2>1, TopOfEarliest
  <2>3. timer \in Int
    BY <1>2 DEF Off
  <2> QED
    BY <1>1, <1>2, <2>1, <2>2, <2>3 DEF time_vars
<1> QED
  BY <1>1, <1>2, <1>6, <1>7, <1>8 DEF CodeKeeps

\* Whatever a task or an async callback does to the queue.
LEMMA CodeIsSafe ==
  ASSUME Types, Queue, Code \/ RemoveTaskLibNamespace("lib")
  PROVE  CodeKeeps
<1>1. CASE UNCHANGED task_vars
  <2>1. tasks' = tasks /\ top' = top /\ next_id' = next_id /\ timer' = timer
    BY <1>1 DEF task_vars
  <2>2. next_id \in Int
    BY DEF Types
  <2> QED
    BY <2>1, <2>2 DEF CodeKeeps, Types, Queue, Armed, time_vars
<1>2. CASE \E ns \in Namespaces, once \in BOOLEAN, t \in Delays : AddTask(ns, once, t)
  BY <1>2, AddKeeps
<1>3. CASE \E t \in tasks : RemoveTask(t.id)
  BY <1>3, RemoveKeeps DEF RemoveTask
<1>4. CASE RemoveTaskLibNamespace("lib")
  BY <1>4, RemoveKeeps DEF RemoveTaskLibNamespace
<1> QED
  BY <1>1, <1>2, <1>3, <1>4 DEF Code

-----------------------------------------------------------------------------
\* Code that runs outside timer_callback, before the loop starts or in the async
\* callback, keeps the invariant.
LEMMA OutsideStep ==
  ASSUME IInv, CodeKeeps, pc.at \in {"new", "idle"}, pc' = pc,
         UNCHANGED <<time_vars, ran>>, stop' \in BOOLEAN, sent' \in BOOLEAN
  PROVE  IInv'
<1>1. /\ elapsed' = elapsed /\ offset' = offset /\ ran' = ran
      /\ UNCHANGED time_vars
  BY DEF time_vars
<1>2. Types'
  BY <1>1 DEF IInv, Types, CodeKeeps
<1>3. Queue'
  BY DEF CodeKeeps
<1>4. Current'
  BY DEF Current
<1>5. Once'
  <2>1. next_id \in Nat /\ next_id' \in Nat /\ next_id <= next_id' /\ Ids \subseteq Nat
    BY LoopBounds DEF IInv, Types, CodeKeeps, Ids
  <2>2. \A i \in Ids : i >= next_id' => ran'[i] = 0
    BY <1>1, <2>1 DEF IInv, Once
  <2>3. \A t \in tasks' : ~(t.interval = 0 /\ ran'[t.id] > 0 /\ offset' >= 0)
    <3> TAKE t \in tasks'
    <3>1. CASE t \in tasks
      BY <1>1, <3>1 DEF IInv, Once
    <3>2. CASE t.id = next_id
      <4>1. t.id \in Ids /\ t.id >= next_id
        BY <2>1, <3>2 DEF CodeKeeps, Task
      <4>2. ran[t.id] = 0
        BY <4>1 DEF IInv, Once
      <4> QED
        BY <1>1, <4>2
    <3> QED
      BY <3>1, <3>2 DEF CodeKeeps
  <2> QED
    BY <2>2, <2>3 DEF Once
<1>6. TimerArmed'
  <2>1. Armed
    BY DEF IInv, TimerArmed, Armed
  <2>2. Armed'
    BY <1>1, <2>1 DEF CodeKeeps
  <2> QED
    BY <2>2 DEF Armed, TimerArmed
<1> QED
  BY <1>2, <1>3, <1>4, <1>5, <1>6 DEF IInv

\* A task runs: whatever it does to the queue, it is on top afterwards or has
\* removed itself, if it was due.
LEMMA RunTaskStep == IInv /\ RunTask => IInv'
<1> SUFFICES ASSUME IInv, RunTask PROVE IInv'
  OBVIOUS
<1>1. /\ pc.at = "run" /\ pc' = [pc EXCEPT !.at = "after"]
      /\ ran' = [ran EXCEPT ![pc.task.id] = @ + 1]
      /\ UNCHANGED time_vars /\ elapsed' = elapsed /\ offset' = offset
      /\ stop' = stop /\ sent' = sent /\ Code
  BY DEF RunTask, time_vars
<1>2. CodeKeeps
  BY <1>1, CodeIsSafe DEF IInv
<1>3. /\ top \in tasks /\ pc.task = top /\ (offset >= 0 => top.time <= now)
      /\ top \in Task /\ top.id \in Ids /\ top.id < next_id
  BY <1>1 DEF IInv, Types, Current, Queue, Task
<1>4. pc'.at = "after" /\ pc'.task = top /\ pc' \in [at : Places, task : Task \cup {None}]
  BY <1>1, <1>3 DEF IInv, Types, Places
<1>5. /\ next_id \in Nat /\ next_id' \in Nat /\ next_id <= next_id' /\ Ids \subseteq Nat
      /\ ran \in [Ids -> Nat] /\ ran' \in [Ids -> Nat]
  BY <1>1, <1>2, <1>3, LoopBounds DEF IInv, Types, CodeKeeps, Ids
<1>6. Types'
  BY <1>1, <1>2, <1>4, <1>5 DEF IInv, Types, CodeKeeps
<1>7. Queue'
  BY <1>2 DEF CodeKeeps
<1>8. Current'
  <2>1. top.id < next_id'
    <3>1. top.id \in Nat
      BY <1>3, <1>5
    <3> QED
      BY <1>3, <1>5, <3>1
  <2>2. ASSUME NEW t \in tasks', t.id = top.id PROVE t = top
    BY <1>2, <1>3, <1>5, <2>2 DEF CodeKeeps, IInv, Queue
  <2>3. offset' >= 0 /\ top \in tasks' => top' = top
    BY <1>1, <1>2, <1>3 DEF CodeKeeps
  <2> QED
    BY <1>3, <1>4, <2>1, <2>2, <2>3 DEF Current
<1>9. Once'
  <2>1. \A i \in Ids : i # top.id => ran'[i] = ran[i]
    BY <1>1, <1>3, <1>5
  <2>2. \A i \in Ids : i >= next_id => ran[i] = 0
    BY DEF IInv, Once
  <2>3. \A i \in Ids : i >= next_id' => ran'[i] = 0
    BY <1>3, <1>5, <2>1, <2>2
  <2>4. ASSUME NEW t \in tasks', t.interval = 0, ran'[t.id] > 0, offset' >= 0, t.id # top.id
        PROVE  FALSE
    <3>1. t.id \in Ids /\ ran[t.id] > 0
      BY <1>2, <2>1, <2>4 DEF CodeKeeps, Task
    <3>2. CASE t \in tasks
      BY <1>1, <2>4, <3>1, <3>2 DEF IInv, Once
    <3>3. CASE t.id = next_id
      BY <1>5, <2>2, <3>1, <3>3
    <3> QED
      BY <1>2, <3>2, <3>3 DEF CodeKeeps
  <2> QED
    BY <1>4, <2>3, <2>4 DEF Once
<1>10. TimerArmed'
  BY <1>4 DEF TimerArmed
<1> QED
  BY <1>6, <1>7, <1>8, <1>9, <1>10 DEF IInv

\* After a task has run: one that runs once is taken off the queue, a periodic one
\* is put back with its next time, and if neither is on top nothing is done.
LEMMA AfterTaskStep == IInv /\ AfterTask => IInv'
<1> SUFFICES ASSUME IInv, AfterTask PROVE IInv'
  OBVIOUS
<1> DEFINE again == [pc.task EXCEPT !.time = now + pc.task.interval]
           rest == tasks \ {top}
<1>1. /\ pc.at = "after" /\ pc' = At("check") /\ pc'.at = "check"
      /\ UNCHANGED <<elapsed, offset, next_id, timer, stop, sent, ran>>
  BY DEF AfterTask, At, time_vars
<1>2. /\ pc.task \in Task /\ pc.task.id < next_id
      /\ \A t \in tasks : t.id = pc.task.id => t = pc.task
      /\ offset >= 0 /\ pc.task \in tasks => top = pc.task
      /\ tasks \in SUBSET Task /\ top \in Earliest(tasks) /\ now \in Int
  BY <1>1, LoopBounds DEF IInv, Current, Types, Queue, now
<1>3. again \in Task /\ again.id = pc.task.id /\ again.interval = pc.task.interval
  BY <1>2 DEF Task
<1>4. \/ Again(pc.task) /\ tasks' = tasks /\ top' = top
      \/ /\ ~Again(pc.task) /\ pc.task.interval = 0
         /\ tasks' = rest /\ top' \in Earliest(tasks')
      \/ /\ ~Again(pc.task) /\ pc.task.interval > 0
         /\ tasks' = rest \cup {again} /\ top' \in Earliest(tasks')
  <2>1. \A tp \in Earliest(rest) : /\ Push(rest, tp, again).tasks = rest \cup {again}
                                   /\ Push(rest, tp, again).top \in Earliest(rest \cup {again})
    <3>1. rest \in SUBSET Task /\ again \in Task
      BY <1>2, <1>3
    <3> HIDE DEF again, rest
    <3> TAKE tp \in Earliest(rest)
    <3> QED
      BY Zenon, <3>1, PushTop
  <2>2. \/ Again(pc.task) /\ tasks' = tasks /\ top' = top
        \/ /\ ~Again(pc.task) /\ pc.task.interval = 0
           /\ tasks' = rest /\ top' \in Earliest(tasks')
        \/ /\ ~Again(pc.task) /\ pc.task.interval > 0
           /\ \E tp \in Earliest(rest) : /\ tasks' = Push(rest, tp, again).tasks
                                         /\ top' = Push(rest, tp, again).top
    BY DEF AfterTask
  <2> HIDE DEF again, rest
  <2> QED
    BY Zenon, <2>1, <2>2
<1>5. ~Again(pc.task) => top \in tasks /\ top = pc.task
  BY <1>2, TopOfEarliest DEF Again
<1>6. /\ tasks' \subseteq Task /\ top' \in Earliest(tasks')
      /\ \A t \in tasks' : t \in tasks \/ (t = again /\ ~Again(pc.task) /\ pc.task.interval > 0)
  BY <1>2, <1>3, <1>4
<1> HIDE DEF again
<1>7. Queue'
  <2>1. \A t \in tasks' : t.id < next_id'
    BY <1>1, <1>2, <1>3, <1>6 DEF IInv, Queue
  <2>2. ASSUME NEW t \in tasks', NEW u \in tasks', t.id = u.id PROVE t = u
    BY <1>2, <1>3, <1>4, <1>5, <2>2 DEF IInv, Queue
  <2> QED
    BY <1>6, <2>1, <2>2 DEF Queue
<1>8. Types'
  BY <1>1, <1>6 DEF IInv, Types, At, Places
<1>9. Current'
  BY <1>1 DEF Current
<1>10. Once'
  <2>1. \A i \in Ids : i >= next_id' => ran'[i] = 0
    BY <1>1 DEF IInv, Once
  <2>2. ASSUME NEW t \in tasks', t.interval = 0, ran'[t.id] > 0, offset' >= 0
        PROVE  FALSE
    <3>0. ~(0 > 0)
      OBVIOUS
    <3>1. t \in tasks /\ t.id = pc.task.id
      <4>1. t \in tasks
        BY Zenon, <1>3, <1>6, <2>2, <3>0
      <4> QED
        BY Zenon, <1>1, <2>2, <4>1 DEF IInv, Once
    <3>2. t = pc.task /\ top = pc.task /\ tasks # {}
      BY Zenon, <1>1, <1>2, <2>2, <3>1
    <3>3. ~Again(pc.task)
      BY <3>2 DEF Again
    <3>4. tasks' = rest
      BY Zenon, <1>4, <2>2, <3>0, <3>2, <3>3
    <3> QED
      BY <3>2, <3>4
  <2> QED
    BY <2>1, <2>2 DEF Once
<1>11. TimerArmed'
  BY <1>1 DEF TimerArmed
<1> QED
  BY <1>7, <1>8, <1>9, <1>10, <1>11 DEF IInv

\* A clock that is set forth, or not at all, does not go back.
LEMMA ClockForward ==
  \A time, shift \in Int : /\ shift >= 0 => time + shift >= time
                           /\ shift = 0 => time + shift = time
  OBVIOUS

\* Every step of the loop and of its surroundings keeps the invariant.
LEMMA IInvStep == IInv /\ [LoopNext]_loopVars => IInv'
<1> SUFFICES ASSUME IInv, [LoopNext]_loopVars PROVE IInv'
  OBVIOUS
<1> USE DEF time_vars, task_vars
<1>1. CASE Prepare
  <2>1. CodeKeeps
    BY <1>1, AddKeeps DEF Prepare, IInv, Namespaces
  <2> QED
    BY <1>1, <2>1, OutsideStep DEF Prepare, IInv, Types
<1>2. CASE Start
  <2>1. /\ pc.at = "new" /\ pc' = At("idle") /\ pc'.at = "idle" /\ sent' = FALSE
        /\ UNCHANGED <<elapsed, offset, next_id, tasks, top, timer, stop, ran>>
    BY <1>2 DEF Start, At
  <2>2. Types'
    BY <2>1 DEF IInv, Types, At, Places
  <2>3. Queue' /\ Current'
    BY Zenon, <2>1 DEF IInv, Queue, Current
  <2>4. Once'
    BY Zenon, <2>1 DEF IInv, Once
  <2>5. TimerArmed'
    BY <2>1 DEF IInv, TimerArmed
  <2> QED
    BY <2>2, <2>3, <2>4, <2>5 DEF IInv
<1>3. CASE Signal \/ StopLoop
  <2>1. /\ stop' \in BOOLEAN /\ sent' \in BOOLEAN
        /\ UNCHANGED <<elapsed, offset, next_id, tasks, top, timer, pc, ran>>
    BY <1>3 DEF Signal, StopLoop, IInv, Types
  <2>2. Types' /\ Queue'
    BY <2>1 DEF IInv, Types, Queue
  <2>3. Current' /\ Once' /\ TimerArmed'
    BY Zenon, <2>1 DEF IInv, Current, Once, TimerArmed, now
  <2> QED
    BY <2>2, <2>3 DEF IInv
<1>4. CASE AsyncCallback /\ stop
  <2>1. /\ pc' = At("ended") /\ pc.at = "idle" /\ pc'.at = "ended" /\ sent' = FALSE
        /\ UNCHANGED <<elapsed, offset, next_id, tasks, top, timer, stop, ran>>
    BY <1>4 DEF AsyncCallback, At
  <2>2. Types'
    BY <2>1 DEF IInv, Types, At, Places
  <2>3. Queue' /\ Current' /\ TimerArmed'
    BY Zenon, <2>1 DEF IInv, Queue, Current, TimerArmed
  <2>4. Once'
    BY <2>1 DEF IInv, Once
  <2> QED
    BY <2>2, <2>3, <2>4 DEF IInv
<1>5. CASE AsyncCallback /\ ~stop
  <2>1. CodeKeeps
    BY <1>5, CodeIsSafe DEF AsyncCallback, IInv
  <2> QED
    BY <1>5, <2>1, OutsideStep DEF AsyncCallback, IInv, Types
<1>6. CASE TimerFires
  <2>1. /\ pc.at = "idle" /\ pc' = At("check") /\ pc'.at = "check" /\ timer' = Off
        /\ UNCHANGED <<elapsed, offset, next_id, tasks, top, stop, sent, ran>>
    BY <1>6 DEF TimerFires, At
  <2>2. Types'
    BY <2>1 DEF IInv, Types, At, Places
  <2>3. Queue' /\ Current' /\ TimerArmed'
    BY Zenon, <2>1 DEF IInv, Queue, Current, TimerArmed
  <2>4. Once'
    BY Zenon, <2>1 DEF IInv, Once
  <2> QED
    BY <2>2, <2>3, <2>4 DEF IInv
<1>7. CASE CheckTop
  <2>1. /\ pc.at = "check" /\ tasks # {} /\ top.time <= now
        /\ pc' = [at |-> "run", task |-> top] /\ pc'.at = "run" /\ pc'.task = top
        /\ UNCHANGED <<elapsed, offset, next_id, tasks, top, timer, stop, sent, ran>>
    BY <1>7 DEF CheckTop, Due
  <2>2. top \in tasks
    BY <2>1, TopOfEarliest DEF IInv, Queue
  <2>3. Types'
    BY <2>1, <2>2 DEF IInv, Types, Places
  <2>4. Queue' /\ TimerArmed'
    BY <2>1 DEF IInv, Queue, TimerArmed
  <2>5. Current'
    BY <2>1, <2>2 DEF Current, now
  <2>6. Once'
    BY <2>1 DEF IInv, Once
  <2> QED
    BY <2>3, <2>4, <2>5, <2>6 DEF IInv
<1>8. CASE RunTask \/ AfterTask
  BY <1>8, RunTaskStep, AfterTaskStep
<1>9. CASE TimerEnds
  <2>1. /\ pc.at = "check" /\ pc' = At("idle") /\ pc'.at = "idle"
        /\ timer' = SchedNextTask(tasks, top)
        /\ UNCHANGED <<elapsed, offset, next_id, tasks, top, stop, sent, ran>>
    BY <1>9 DEF TimerEnds, At
  <2>2. Types /\ tasks \in SUBSET Task /\ top \in Earliest(tasks)
    BY DEF IInv, Types, Queue
  <2>3. /\ timer' \in Nat \cup {Off}
        /\ tasks # {} => timer' # Off /\ (offset = 0 => timer' <= elapsed \/ timer' <= top.time)
    BY <2>1, <2>2, SchedTop
  <2>4. Types'
    BY <2>1, <2>3 DEF IInv, Types, At, Places
  <2>5. Queue' /\ Current'
    BY Zenon, <2>1 DEF IInv, Queue, Current
  <2>6. Once'
    BY Zenon, <2>1 DEF IInv, Once
  <2>7. TimerArmed'
    BY <2>1, <2>3 DEF TimerArmed, Off
  <2> QED
    BY <2>4, <2>5, <2>6, <2>7 DEF IInv
<1>10. CASE Tick
  <2>1. /\ elapsed < MaxTime /\ elapsed' = elapsed + 1
        /\ UNCHANGED <<offset, next_id, tasks, top, timer, pc, stop, sent, ran>>
    BY <1>10 DEF Tick
  <2>2. elapsed \in Nat /\ elapsed' \in 0..MaxTime /\ offset \in Int /\ now \in Int /\ now' = now + 1
    BY <2>1, LoopBounds DEF IInv, Types, now
  <2>3. Types' /\ Queue' /\ Once'
    BY <2>1, <2>2 DEF IInv, Types, Queue, Once
  <2>4. Current'
    <3>1. top \in tasks => top.time \in Int
      BY DEF IInv, Types, Task
    <3>2. top \in tasks /\ top.time <= now => top.time <= now'
      BY <2>2, <3>1
    <3> QED
      BY Zenon, <2>1, <3>2 DEF IInv, Current
  <2>5. TimerArmed'
    <3>1. timer \in Int
      BY DEF IInv, Types, Off
    <3> QED
      BY <2>1, <2>2, <3>1 DEF IInv, TimerArmed
  <2> QED
    BY <2>3, <2>4, <2>5 DEF IInv
<1>11. CASE ClockSet
  <2>1. /\ offset = 0 /\ offset' \in {-Jump, Jump}
        /\ UNCHANGED <<elapsed, next_id, tasks, top, timer, pc, stop, sent, ran>>
    BY <1>11 DEF ClockSet
  <2>2. /\ Jump \in Nat /\ offset' \in Int /\ elapsed \in Int /\ now = elapsed
        /\ now' = elapsed + offset' /\ (offset' >= 0 => now' >= now)
        /\ (offset' = 0 => now' = now)
    <3>1. Jump \in Nat /\ offset' \in Int /\ elapsed \in Int
      BY <2>1, LoopBounds DEF IInv, Types
    <3>2. now = elapsed /\ now' = elapsed + offset'
      BY <2>1, <3>1 DEF now
    <3>3. /\ offset' >= 0 => elapsed + offset' >= elapsed
          /\ offset' = 0 => elapsed + offset' = elapsed
      BY Zenon, <3>1, ClockForward
    <3> QED
      BY Zenon, <3>1, <3>2, <3>3
  <2>3. offset >= 0
    BY <2>1
  <2>4. Types' /\ Queue'
    BY <2>1, <2>2 DEF IInv, Types, Queue
  <2>5. Current'
    <3>1. top \in tasks => top.time \in Int
      BY DEF IInv, Types, Task
    <3>2. top \in tasks /\ top.time <= now /\ offset' >= 0 => top.time <= now'
      BY <2>2, <3>1
    <3> QED
      BY Zenon, <2>1, <2>3, <3>2 DEF IInv, Current
  <2>6. Once'
    BY Zenon, <2>1, <2>3 DEF IInv, Once
  <2>7. TimerArmed'
    BY <2>1 DEF IInv, TimerArmed
  <2> QED
    BY <2>4, <2>5, <2>6, <2>7 DEF IInv
<1>12. CASE UNCHANGED loopVars
  <2>1. UNCHANGED <<elapsed, offset, next_id, tasks, top, timer, pc, stop, sent, ran>>
    BY <1>12 DEF loopVars
  <2>2. Types' /\ Queue'
    BY <2>1 DEF IInv, Types, Queue
  <2>3. Current' /\ Once' /\ TimerArmed'
    BY Zenon, <2>1 DEF IInv, Current, Once, TimerArmed, now
  <2> QED
    BY <2>2, <2>3 DEF IInv
<1> QED
  BY <1>1, <1>2, <1>3, <1>4, <1>5, <1>6, <1>7, <1>8, <1>9, <1>10, <1>11, <1>12 DEF LoopNext

-----------------------------------------------------------------------------
\* The queue is empty and the thread has not started when a loop is made.
LEMMA IInvInit == LoopInit => IInv
<1> SUFFICES ASSUME LoopInit PROVE IInv
  OBVIOUS
<1>1. Types
  <2>1. /\ elapsed \in 0..MaxTime /\ offset \in {-Jump, 0, Jump} /\ next_id \in 1..(MaxTasks + 1)
        /\ tasks \subseteq Task /\ timer \in Nat \cup {Off}
    BY LoopBounds DEF LoopInit
  <2>2. pc \in [at : Places, task : Task \cup {None}]
    BY DEF LoopInit, At, Places
  <2>3. stop \in BOOLEAN /\ sent \in BOOLEAN /\ ran \in [Ids -> Nat]
    BY DEF LoopInit
  <2> QED
    BY <2>1, <2>2, <2>3 DEF Types
<1>2. Queue /\ TimerArmed
  BY DEF LoopInit, Queue, Earliest, TimerArmed
<1>3. Current /\ Once
  BY DEF LoopInit, Current, Once, At
<1> QED
  BY <1>1, <1>2, <1>3 DEF IInv

\* For any number of tasks, any delays and any setting of the clock,
\* real_async_loop runs tasks on time: none before it is due, one of
\* add_once_task once, unless the clock was set back, and with the timer set for
\* the next task whenever the thread waits.
THEOREM LoopIsOnTime == LoopSpec => []TasksOnTime
<1>1. IInv => TasksOnTime
  <2> SUFFICES ASSUME IInv PROVE TasksOnTime
    OBVIOUS
  <2>1. \A t \in tasks : t.id \in 1..(next_id - 1) /\ t.ns \in Namespaces /\ t.interval \in Nat
    BY DEF IInv, Types, Queue, Task, Ids
  <2>2. TypeOK
    BY <2>1 DEF IInv, Types, Queue, TypeOK
  <2>3. RunsOnceWhenDue
    BY DEF IInv, Current, Once, RunsOnceWhenDue
  <2> QED
    BY <2>2, <2>3 DEF IInv, TasksOnTime
<1> QED
  BY <1>1, IInvInit, IInvStep, PTL DEF LoopSpec

-----------------------------------------------------------------------------
(* curl_pool: the state of a loop's maps.                                   *)

\* The sockets are watched and belong to the transfers, each to one.
Owned(C, K, F) ==
  /\ \A fd \in DOMAIN K : K[fd] \in DOMAIN C /\ fd \in C[K[fd]]
  /\ \A fd \in DOMAIN F : \E e \in DOMAIN C : fd \in C[e]
  /\ \A e \in DOMAIN C : C[e] \subseteq DOMAIN F
  /\ \A e, d \in DOMAIN C : \A fd : fd \in C[e] /\ fd \in C[d] => e = d

\* The transfers that wait to be freed are those reported done, each once.
Listed(N, M) ==
  /\ N \in Seq(Easies)
  /\ \A i, j \in DOMAIN N : N[i] = N[j] => i = j
  /\ \A e \in Easies : (\E i \in DOMAIN N : N[i] = e) <=> (e \in DOMAIN M /\ M[e] = "told")

\* An event is freed once, and when its transfer is gone.
Freed(C, L) ==
  /\ L \in [Easies -> Nat] /\ \A e \in Easies : L[e] <= 1
  /\ \A e \in DOMAIN C : L[e] = 0

Pool(C, N, M, K, F, L, z) ==
  [conns |-> C, finished |-> N, multi |-> M, socks |-> K, fds |-> F, cleaned |-> L, crashed |-> z]

\* The handles that libcurl has are of transfers, and its sockets of handles.
Handled(C, M, K) == DOMAIN M \subseteq DOMAIN C /\ \A fd \in DOMAIN K : K[fd] \in DOMAIN M

Sound(C, N, M, K, F, L) ==
  /\ DOMAIN C \subseteq Easies /\ Handled(C, M, K)
  /\ Owned(C, K, F) /\ Listed(N, M) /\ Freed(C, L)

Good(s) == /\ s = Pool(s.conns, s.finished, s.multi, s.socks, s.fds, s.cleaned, s.crashed) /\ s.crashed = FALSE
           /\ Sound(s.conns, s.finished, s.multi, s.socks, s.fds, s.cleaned)

\* The events that have become a transfer.
Known(s) == {e \in Easies : e \in DOMAIN s.conns \/ s.cleaned[e] # 0}

\* An element of a list is one of those it is made of.
LEMMA ElementIn ==
  ASSUME NEW S, NEW q \in Seq(S)
  PROVE  \A i \in DOMAIN q : q[i] \in S
  OBVIOUS

\* A state with these fields.
LEMMA GoodPool ==
  ASSUME NEW C, NEW N, NEW M, NEW K, NEW F, NEW L, NEW z, z = FALSE, Sound(C, N, M, K, F, L)
  PROVE  /\ Good(Pool(C, N, M, K, F, L, z))
         /\ \A e : e \in Known(Pool(C, N, M, K, F, L, z)) <=> e \in Easies /\ (e \in DOMAIN C \/ L[e] # 0)
<1> DEFINE p == Pool(C, N, M, K, F, L, z)
<1>1. p.conns = C /\ p.finished = N /\ p.multi = M /\ p.socks = K /\ p.fds = F /\ p.cleaned = L /\ p.crashed = z
  BY DEF Pool
<1> HIDE DEF p
<1>2. p = Pool(C, N, M, K, F, L, z)
  BY Zenon DEF p
<1> QED
  BY Zenon, <1>1, <1>2 DEF Good, Known

-----------------------------------------------------------------------------
(* What libcurl does to a state.                                            *)

\* A step of libcurl: the state stays good, and no transfer begins or is freed.
Kept(s, t) ==
  /\ Good(t) /\ Known(t) = Known(s)
  /\ DOMAIN t.multi = DOMAIN s.multi /\ DOMAIN t.conns = DOMAIN s.conns
  /\ \A n \in Nat : n <= Len(s.finished) => n <= Len(t.finished)

\* The fields of such a step.
LEMMA KeptPool ==
  ASSUME NEW s, Good(s), NEW C, NEW N, NEW M, NEW K, NEW F, NEW z, z = FALSE,
         Owned(C, K, F), Listed(N, M), DOMAIN C = DOMAIN s.conns, DOMAIN M = DOMAIN s.multi,
         \A fd \in DOMAIN K : K[fd] \in DOMAIN M,
         \A n \in Nat : n <= Len(s.finished) => n <= Len(N)
  PROVE  Kept(s, Pool(C, N, M, K, F, s.cleaned, z))
<1>1. Freed(C, s.cleaned) /\ DOMAIN C \subseteq Easies /\ Handled(C, M, K)
  BY Zenon DEF Good, Sound, Freed, Handled
<1>2. Sound(C, N, M, K, F, s.cleaned)
  BY Zenon, <1>1 DEF Sound
<1>3. /\ Pool(C, N, M, K, F, s.cleaned, z).multi = M /\ Pool(C, N, M, K, F, s.cleaned, z).conns = C
      /\ Pool(C, N, M, K, F, s.cleaned, z).finished = N
  BY Zenon DEF Pool
<1>4. Known(Pool(C, N, M, K, F, s.cleaned, z)) = Known(s)
  <2>1. \A e : e \in Known(Pool(C, N, M, K, F, s.cleaned, z))
               <=> e \in Easies /\ (e \in DOMAIN C \/ s.cleaned[e] # 0)
    BY Zenon, <1>2, GoodPool
  <2>2. \A e : e \in Known(s) <=> e \in Easies /\ (e \in DOMAIN C \/ s.cleaned[e] # 0)
    BY Zenon DEF Known
  <2> QED
    BY Zenon, <2>1, <2>2
<1> QED
  BY Zenon, <1>2, <1>3, <1>4, GoodPool DEF Kept

\* set_fd changes how a descriptor is watched.
LEMMA KeptMode ==
  ASSUME NEW s, Good(s), NEW fd \in DOMAIN s.socks, NEW mode
  PROVE  Kept(s, MultiSocket(s, fd, mode))
<1> DEFINE C == s.conns N == s.finished M == s.multi K == s.socks F == s.fds L == s.cleaned
           z == s.crashed
<1>1. /\ Owned(C, K, F) /\ Listed(N, M) /\ s = Pool(C, N, M, K, F, L, z) /\ z = FALSE
      /\ \A k \in DOMAIN K : K[k] \in DOMAIN M
  BY Zenon DEF Good, Sound, Handled
<1>2. fd \in DOMAIN F
  BY Zenon, <1>1 DEF Owned
<1>3. CASE mode = "remove"
  BY Zenon, <1>3 DEF MultiSocket, Kept
<1>4. CASE mode # "remove"
  <2> DEFINE G == [F EXCEPT ![fd] = mode]
  <2>1. MultiSocket(s, fd, mode) = [s EXCEPT !.fds = G]
    BY Zenon, <1>2, <1>4 DEF MultiSocket, SetFdMode
  <2> HIDE DEF C, N, M, K, F, L, z
  <2>2. DOMAIN G = DOMAIN F
    BY Zenon
  <2> HIDE DEF G
  <2>3. [s EXCEPT !.fds = G] = Pool(C, N, M, K, G, L, z)
    BY <1>1 DEF Pool
  <2>4. Owned(C, K, G)
    BY Zenon, <1>1, <2>2 DEF Owned
  <2>5. Kept(s, Pool(C, N, M, K, G, L, z))
    BY Zenon, <1>1, <2>4, KeptPool DEF C, N, M, L
  <2> QED
    BY Zenon, <2>1, <2>3, <2>5
<1> QED
  BY Zenon, <1>3, <1>4

\* close_sock_cb has some sockets watched for nothing.
LEMMA KeptClose ==
  ASSUME NEW s, Good(s), NEW S, S \subseteq DOMAIN s.socks
  PROVE  Kept(s, CloseSocks(s, S)) /\ CloseSocks(s, S).multi = s.multi
<1> DEFINE C == s.conns N == s.finished M == s.multi K == s.socks F == s.fds L == s.cleaned
           z == s.crashed
<1>0. s = Pool(C, N, M, K, F, L, z) /\ z = FALSE /\ Sound(C, N, M, K, F, L)
  BY Zenon DEF Good
<1>1. /\ Owned(C, K, F) /\ Listed(N, M) /\ s = Pool(C, N, M, K, F, L, z) /\ z = FALSE
      /\ DOMAIN C \subseteq Easies /\ \A k \in DOMAIN K : K[k] \in DOMAIN M
  BY Zenon, <1>0 DEF Sound, Handled
<1>2. S \subseteq DOMAIN F
  <2>1. S \subseteq DOMAIN K
    BY Zenon
  <2> HIDE DEF C, N, M, K, F, L, z
  <2> QED
    BY Zenon, <1>1, <2>1 DEF Owned
<1> DEFINE H == Without(K, S)
           G == [fd \in DOMAIN F |-> IF fd \in S THEN "none" ELSE F[fd]]
<1>3. CloseSocks(s, S) = [s EXCEPT !.socks = H, !.fds = G]
  BY Zenon, <1>2 DEF CloseSocks
<1> HIDE DEF C, N, M, K, F, L, z
<1>4. DOMAIN G = DOMAIN F /\ DOMAIN H \subseteq DOMAIN K /\ \A fd \in DOMAIN H : H[fd] = K[fd]
  BY Zenon DEF Without
<1> HIDE DEF G, H
<1>5. [s EXCEPT !.socks = H, !.fds = G] = Pool(C, N, M, H, G, L, z)
  <2> DEFINE t == [s EXCEPT !.socks = H]
  <2>1. t = Pool(C, N, M, H, F, L, z)
    BY <1>1 DEF Pool
  <2>2. [s EXCEPT !.socks = H, !.fds = G] = [t EXCEPT !.fds = G]
    BY Zenon
  <2> HIDE DEF t
  <2>3. [t EXCEPT !.fds = G] = Pool(C, N, M, H, G, L, z)
    BY <2>1 DEF Pool
  <2> QED
    BY Zenon, <2>2, <2>3
<1>6. Owned(C, H, G)
  BY Zenon, <1>1, <1>4 DEF Owned
<1>a. \A k \in DOMAIN H : H[k] \in DOMAIN M
  BY Zenon, <1>1, <1>4
<1>7. Kept(s, Pool(C, N, M, H, G, L, z))
  BY Zenon, <1>1, <1>6, <1>a, KeptPool DEF C, N, M, L
<1>8. Pool(C, N, M, H, G, L, z).multi = M
  BY DEF Pool
<1> QED
  BY Zenon, <1>3, <1>5, <1>7, <1>8 DEF M

\* A transfer ends.
LEMMA KeptDone ==
  ASSUME NEW s, Good(s), NEW e \in DOMAIN s.multi, s.multi[e] = "active"
  PROVE  Kept(s, Ended(s, e))
<1> DEFINE C == s.conns N == s.finished M == s.multi K == s.socks F == s.fds L == s.cleaned
           z == s.crashed
<1>1. /\ Owned(C, K, F) /\ Listed(N, M) /\ s = Pool(C, N, M, K, F, L, z) /\ z = FALSE
      /\ DOMAIN C \subseteq Easies /\ DOMAIN M \subseteq DOMAIN C /\ \A k \in DOMAIN K : K[k] \in DOMAIN M
  BY Zenon DEF Good, Sound, Handled
<1> DEFINE O == [M EXCEPT ![e] = "done"]
<1>2. Ended(s, e) = [s EXCEPT !.multi = O]
  BY Zenon DEF Ended
<1>a. e \in DOMAIN M /\ M[e] = "active"
  BY Zenon
<1> HIDE DEF C, N, M, K, F, L, z
<1>3. DOMAIN O = DOMAIN M /\ O[e] = "done" /\ \A d \in DOMAIN M : d # e => O[d] = M[d]
  BY Zenon, <1>a
<1> HIDE DEF O
<1>4. [s EXCEPT !.multi = O] = Pool(C, N, O, K, F, L, z)
  BY <1>1 DEF Pool
<1>5. \A d \in DOMAIN M : O[d] = "told" <=> M[d] = "told"
  BY <1>3, <1>a
<1>6. Listed(N, O)
  BY Zenon, <1>1, <1>3, <1>5 DEF Listed
<1>7. Kept(s, Pool(C, N, O, K, F, L, z))
  BY Zenon, <1>1, <1>3, <1>6, KeptPool DEF C, N, M, L
<1> QED
  BY Zenon, <1>2, <1>4, <1>7

\* A set of natural numbers that is not empty has a least element.
LEMMA Least ==
  ASSUME NEW T, T \subseteq Nat, T # {}
  PROVE  \E x \in T : \A y \in T : x <= y
<1> DEFINE R == {ss \in Nat \X Nat : ss[1] < ss[2]}
<1>1. R = OpToRel(<, Nat)
  BY Zenon DEF OpToRel
<1>2. IsWellFoundedOn(R, Nat)
  BY Zenon, <1>1, NatLessThanWellFounded
<1> HIDE DEF R
<1>3. PICK x \in T : \A y \in T : ~ (<<y, x>> \in R)
  BY Zenon, <1>2, WFMin
<1>4. ASSUME NEW y \in T PROVE x <= y
  <2>1. <<y, x>> \in Nat \X Nat /\ <<y, x>>[1] = y /\ <<y, x>>[2] = x
    BY Zenon
  <2>2. y < x => <<y, x>> \in R
    BY Zenon, <2>1 DEF R
  <2> QED
    BY <1>3, <2>2
<1> QED
  BY Zenon, <1>4

\* sock_cb opens a socket that no transfer has, or the transfer ends.
LEMMA KeptOpen ==
  ASSUME NEW s, Good(s), NEW e \in DOMAIN s.multi, s.multi[e] = "active"
  PROVE  Kept(s, SockCb(s, e))
<1> DEFINE C == s.conns N == s.finished M == s.multi K == s.socks F == s.fds L == s.cleaned
           z == s.crashed
<1>1. /\ Owned(C, K, F) /\ Listed(N, M) /\ s = Pool(C, N, M, K, F, L, z) /\ z = FALSE
      /\ DOMAIN C \subseteq Easies /\ DOMAIN M \subseteq DOMAIN C /\ \A k \in DOMAIN K : K[k] \in DOMAIN M
  BY Zenon DEF Good, Sound, Handled
<1> DEFINE free == Fds \ DOMAIN F
           fd == CHOOSE x \in free : \A y \in free : x <= y
<1>2. CASE free = {}
  BY Zenon, <1>2, KeptDone DEF SockCb
<1>3. CASE free # {}
  <2>1. fd \in free
    <3>1. \E x \in free : \A y \in free : x <= y
      BY Zenon, <1>3, Bounds, Least
    <3> QED
      BY Zenon, <3>1
  <2> DEFINE H == With(K, fd, e)
             D == [C EXCEPT ![e] = C[e] \cup {fd}]
             G == With(F, fd, "read")
             t == [s EXCEPT !.socks = H]
  <2>2. SockCb(s, e) = AddFd(t, e, fd)
    BY Zenon, <1>3 DEF SockCb
  <2>a. e \in DOMAIN C
    BY Zenon, <1>1
  <2> HIDE DEF fd, free, H
  <2>3. t.conns = C /\ t.fds = F /\ t = Pool(C, N, M, H, F, L, z)
    <3> HIDE DEF C, N, M, K, F, L, z
    <3> QED
      BY <1>1 DEF Pool
  <2> HIDE DEF t, C, N, M, K, F, L, z
  <2>4. AddFd(t, e, fd) = [t EXCEPT !.conns = D, !.fds = G]
    BY Zenon, <2>a, <2>3 DEF AddFd
  <2>b. DOMAIN D = DOMAIN C /\ D[e] = C[e] \cup {fd} /\ \A d \in DOMAIN C : d # e => D[d] = C[d]
    BY Zenon, <2>a
  <2>c. DOMAIN G = DOMAIN F \cup {fd} /\ DOMAIN H = DOMAIN K \cup {fd} /\ H[fd] = e
        /\ \A k \in DOMAIN K : k # fd => H[k] = K[k]
    BY Zenon DEF With, H, G
  <2> HIDE DEF D, G
  <2>5. [t EXCEPT !.conns = D, !.fds = G] = Pool(D, N, M, H, G, L, z)
    <3> DEFINE u == [t EXCEPT !.conns = D]
    <3>1. u = Pool(D, N, M, H, F, L, z)
      BY <2>3 DEF Pool
    <3>2. [t EXCEPT !.conns = D, !.fds = G] = [u EXCEPT !.fds = G]
      BY Zenon
    <3> HIDE DEF u
    <3>3. [u EXCEPT !.fds = G] = Pool(D, N, M, H, G, L, z)
      BY <3>1 DEF Pool
    <3> QED
      BY Zenon, <3>2, <3>3
  <2>6. fd \notin DOMAIN F
    BY Zenon, <2>1 DEF free
  <2>7. Owned(D, H, G)
    <3>0. \A d \in DOMAIN C : C[d] \subseteq D[d]
      BY Zenon, <2>a, <2>b
    <3>1. ASSUME NEW k \in DOMAIN H PROVE H[k] \in DOMAIN D /\ k \in D[H[k]]
      <4>1. CASE k = fd
        BY Zenon, <2>a, <2>b, <2>c, <4>1
      <4>2. CASE k # fd
        <5>1. H[k] = K[k] /\ K[k] \in DOMAIN C /\ k \in C[K[k]]
          BY Zenon, <1>1, <2>c, <4>2 DEF Owned
        <5> QED
          BY Zenon, <2>b, <3>0, <5>1
      <4> QED
        BY Zenon, <4>1, <4>2
    <3>2. \A k \in DOMAIN G : \E d \in DOMAIN D : k \in D[d]
      BY Zenon, <1>1, <2>a, <2>b, <2>c DEF Owned
    <3>3. \A d \in DOMAIN D : D[d] \subseteq DOMAIN G
      BY Zenon, <1>1, <2>a, <2>b, <2>c DEF Owned
    <3>4. ASSUME NEW c \in DOMAIN D, NEW d \in DOMAIN D, NEW k, k \in D[c], k \in D[d] PROVE c = d
      <4>1. CASE k = fd
        <5>1. \A b \in DOMAIN C : fd \notin C[b]
          BY Zenon, <1>1, <2>6 DEF Owned
        <5> QED
          BY Zenon, <2>b, <3>4, <4>1, <5>1
      <4>2. CASE k # fd
        <5>0. ASSUME NEW b \in DOMAIN C, k \in D[b] PROVE k \in C[b]
          <6>1. CASE b = e
            BY Zenon, <2>b, <4>2, <5>0, <6>1
          <6>2. CASE b # e
            BY Zenon, <2>b, <5>0, <6>2
          <6> QED
            BY Zenon, <6>1, <6>2
        <5>1. k \in C[c] /\ k \in C[d]
          BY Zenon, <2>b, <3>4, <5>0
        <5> QED
          BY Zenon, <1>1, <2>b, <5>1 DEF Owned
      <4> QED
        BY Zenon, <4>1, <4>2
    <3> QED
      BY Zenon, <3>1, <3>2, <3>3, <3>4 DEF Owned
  <2>d. e \in DOMAIN M
    BY Zenon DEF M
  <2>e. \A k \in DOMAIN H : H[k] \in DOMAIN M
    BY Zenon, <1>1, <2>c, <2>d
  <2>8. Kept(s, Pool(D, N, M, H, G, L, z))
    BY Zenon, <1>1, <2>7, <2>b, <2>e, KeptPool DEF C, N, M, L
  <2> QED
    BY Zenon, <2>2, <2>4, <2>5, <2>8
<1> QED
  BY Zenon, <1>2, <1>3

\* Whatever libcurl does for an active transfer.
LEMMA KeptAdvance ==
  ASSUME NEW s, Good(s), NEW e \in DOMAIN s.multi, s.multi[e] = "active", NEW t \in Advance(s, e)
  PROVE  Kept(s, t)
<1>1. SocksOf(s, {e}) \subseteq DOMAIN s.socks
  BY Zenon DEF SocksOf
<1>2. \/ t = SockCb(s, e)
      \/ \E fd \in SocksOf(s, {e}), m \in {"read", "write", "remove"} : t = MultiSocket(s, fd, m)
      \/ \E fd \in SocksOf(s, {e}) : t = CloseSocks(s, {fd})
      \/ \E u \in {s, CloseSocks(s, SocksOf(s, {e}))} : t = Ended(u, e)
  <2> DEFINE Modes == {MultiSocket(s, fd, m) : fd \in SocksOf(s, {e}), m \in {"read", "write", "remove"}}
             Closes == {CloseSocks(s, {fd}) : fd \in SocksOf(s, {e})}
             Endings == {Ended(u, e) : u \in {s, CloseSocks(s, SocksOf(s, {e}))}}
  <2>1. Advance(s, e) = {SockCb(s, e)} \cup Modes \cup Closes \cup Endings
    BY DEF Advance
  <2>2. ASSUME t \in Modes
        PROVE  \E fd \in SocksOf(s, {e}), m \in {"read", "write", "remove"} : t = MultiSocket(s, fd, m)
    BY ONLY <2>2
  <2>3. ASSUME t \in Closes PROVE \E fd \in SocksOf(s, {e}) : t = CloseSocks(s, {fd})
    BY Zenon, <2>3
  <2>4. ASSUME t \in Endings
        PROVE  \E u \in {s, CloseSocks(s, SocksOf(s, {e}))} : t = Ended(u, e)
    BY Zenon, <2>4
  <2> HIDE DEF Modes, Closes, Endings
  <2> QED
    BY Zenon, <2>1, <2>2, <2>3, <2>4
<1>3. ASSUME NEW u \in {s, CloseSocks(s, SocksOf(s, {e}))} PROVE Kept(s, Ended(u, e))
  <2>1. Kept(s, u) /\ u.multi = s.multi
    BY Zenon, <1>1, KeptClose DEF Kept
  <2>2. Kept(u, Ended(u, e))
    BY Zenon, <2>1, KeptDone DEF Kept
  <2> QED
    BY Zenon, <2>1, <2>2 DEF Kept
<1>4. ASSUME NEW fd \in SocksOf(s, {e}) PROVE Kept(s, CloseSocks(s, {fd}))
  BY Zenon, <1>1, KeptClose
<1> QED
  BY Zenon, <1>1, <1>2, <1>3, <1>4, KeptOpen, KeptMode

\* Whatever libcurl does when it is called.
LEMMA KeptLibrary ==
  ASSUME NEW s, Good(s), NEW t \in Library(s)
  PROVE  Kept(s, t)
<1>1. t = s \/ \E e \in DOMAIN s.multi : s.multi[e] = "active" /\ t \in Advance(s, e)
  BY Zenon DEF Library
<1> QED
  BY Zenon, <1>1, KeptAdvance DEF Kept

\* A finite set as a sequence.
LEMMA SetAsSeq ==
  ASSUME NEW S, IsFiniteSet(S)
  PROVE  /\ InOrder(S) \in Seq(S)
         /\ \A i, j \in DOMAIN InOrder(S) : InOrder(S)[i] = InOrder(S)[j] => i = j
         /\ \A x : (\E i \in DOMAIN InOrder(S) : InOrder(S)[i] = x) <=> x \in S
<1> DEFINE n == Cardinality(S)
           P(f) == f \in [1..n -> S] /\ IsInjective(f)
           q == InOrder(S)
<1>1. n \in Nat /\ ExistsBijection(1..n, S)
  BY Zenon, FS_CardinalityType
<1>2. PICK b : b \in [1..n -> S] /\ IsInjective(b)
  BY Zenon, <1>1 DEF ExistsBijection, Bijection, Injection
<1>3. q \in [1..n -> S] /\ IsInjective(q)
  BY Zenon, <1>2 DEF InOrder, Injection
<1> HIDE DEF q
<1>4. DOMAIN q = 1..n /\ q \in Seq(S)
  BY <1>1, <1>3
<1>5. \A i, j \in DOMAIN q : q[i] = q[j] => i = j
  BY Zenon, <1>3 DEF IsInjective
<1>6. ASSUME NEW x \in S PROVE \E i \in 1..n : q[i] = x
  <2>1. IsFiniteSet(1..n) /\ Cardinality(1..n) = n
    BY <1>1, FS_Interval
  <2>2. q \in Injection(1..n, S)
    BY Zenon, <1>3 DEF Injection
  <2> HIDE DEF n
  <2>3. Cardinality(1..n) = Cardinality(S)
    BY Zenon, <2>1 DEF n
  <2>4. q \in Surjection(1..n, S)
    BY Zenon, <2>1, <2>2, <2>3, FS_Injection
  <2> QED
    BY Zenon, <2>4 DEF Surjection
<1>7. \A x : (\E i \in DOMAIN q : q[i] = x) <=> x \in S
  <2>1. \A i \in DOMAIN q : q[i] \in S
    BY Zenon, <1>3
  <2> QED
    BY Zenon, <1>4, <1>6, <2>1
<1> QED
  BY Zenon, <1>4, <1>5, <1>7 DEF q

\* Appending to a list does not make it shorter.
LEMMA ConcatLonger ==
  ASSUME NEW S, NEW a \in Seq(S), NEW b \in Seq(S)
  PROVE  \A n \in Nat : n <= Len(a) => n <= Len(a \o b)
<1>1. Len(a \o b) = Len(a) + Len(b) /\ Len(a) \in Nat /\ Len(b) \in Nat
  OBVIOUS
<1> QED
  BY ONLY <1>1

\* check_multi_info puts every transfer that is done on the list, once.
LEMMA KeptCheck ==
  ASSUME NEW s, Good(s)
  PROVE  Kept(s, CheckMultiInfo(s))
<1> DEFINE C == s.conns N == s.finished M == s.multi K == s.socks F == s.fds L == s.cleaned
           z == s.crashed
<1>1. /\ Owned(C, K, F) /\ Listed(N, M) /\ s = Pool(C, N, M, K, F, L, z) /\ z = FALSE
      /\ DOMAIN C \subseteq Easies /\ DOMAIN M \subseteq DOMAIN C /\ \A k \in DOMAIN K : K[k] \in DOMAIN M
  BY Zenon DEF Good, Sound, Handled
<1> DEFINE done == {e \in DOMAIN M : M[e] = "done"}
           O == [e \in DOMAIN M |-> IF e \in done THEN "told" ELSE M[e]]
           q == InOrder(done)
           P == N \o q
           t == [s EXCEPT !.multi = O]
<1>2. CheckMultiInfo(s) = [t EXCEPT !.finished = P]
  BY Zenon DEF CheckMultiInfo
<1>3. done \subseteq Easies /\ \A e : e \in done <=> e \in DOMAIN M /\ M[e] = "done"
  BY Zenon, <1>1
<1>4. IsFiniteSet(done)
  <2>1. IsFiniteSet(Easies)
    BY Bounds, FS_Interval DEF Easies
  <2> QED
    BY Zenon, <1>3, <2>1, FS_Subset
<1> HIDE DEF done, C, N, M, K, F, L, z
<1>5. /\ q \in Seq(done) /\ \A i, j \in DOMAIN q : q[i] = q[j] => i = j
      /\ \A x : (\E i \in DOMAIN q : q[i] = x) <=> x \in done
  BY Zenon, <1>4, SetAsSeq
<1>6. t = Pool(C, N, O, K, F, L, z)
  <2> HIDE DEF O
  <2> QED
    BY <1>1 DEF Pool
<1>7. DOMAIN O = DOMAIN M /\ \A e \in DOMAIN M : O[e] = IF e \in done THEN "told" ELSE M[e]
  BY Zenon
<1> HIDE DEF O, t, q, P
<1>8. [t EXCEPT !.finished = P] = Pool(C, P, O, K, F, L, z)
  BY <1>6 DEF Pool
<1>9. Listed(P, O)
  <2>0. /\ N \in Seq(Easies) /\ \A i, j \in DOMAIN N : N[i] = N[j] => i = j
        /\ \A e \in Easies : (\E i \in DOMAIN N : N[i] = e) <=> (e \in DOMAIN M /\ M[e] = "told")
    BY Zenon, <1>1 DEF Listed
  <2>1. q \in Seq(Easies)
    BY <1>3, <1>5
  <2>2. /\ P \in Seq(Easies)
        /\ \A i \in DOMAIN N : i \in DOMAIN P /\ P[i] = N[i]
        /\ \A j \in DOMAIN q : Len(N) + j \in DOMAIN P /\ P[Len(N) + j] = q[j]
        /\ \A i \in DOMAIN P : i \in DOMAIN N \/ (i - Len(N) \in DOMAIN q /\ Len(N) + (i - Len(N)) = i)
    BY <2>0, <2>1 DEF P
  <2>3. \A i \in DOMAIN P : \/ i \in DOMAIN N /\ P[i] = N[i] /\ M[P[i]] = "told" /\ P[i] \in DOMAIN M
                            \/ i - Len(N) \in DOMAIN q /\ P[i] = q[i - Len(N)] /\ P[i] \in done
    <3>1. ASSUME NEW i \in DOMAIN N PROVE P[i] = N[i] /\ M[P[i]] = "told" /\ P[i] \in DOMAIN M
      <4>1. N[i] \in Easies
        BY <2>0
      <4> QED
        BY Zenon, <2>0, <2>2, <4>1
    <3>2. ASSUME NEW i \in DOMAIN P, i - Len(N) \in DOMAIN q, Len(N) + (i - Len(N)) = i
          PROVE  P[i] = q[i - Len(N)] /\ P[i] \in done
      <4>1. P[Len(N) + (i - Len(N))] = q[i - Len(N)]
        BY Zenon, <2>2, <3>2
      <4> QED
        BY Zenon, <1>5, <3>2, <4>1
    <3> QED
      BY Zenon, <2>2, <3>1, <3>2
  <2>4. ASSUME NEW i \in DOMAIN P, NEW j \in DOMAIN P, P[i] = P[j] PROVE i = j
    <3>0. i \in Int /\ j \in Int /\ Len(N) \in Int
      BY <2>0, <2>2
    <3>1. \A e \in done : M[e] # "told"
      BY <1>3
    <3>2. i \in DOMAIN N /\ j \in DOMAIN N => N[i] = N[j]
      BY Zenon, <2>2, <2>4
    <3>3. i - Len(N) \in DOMAIN q /\ P[i] = q[i - Len(N)] /\ j - Len(N) \in DOMAIN q /\ P[j] = q[j - Len(N)]
          => i - Len(N) = j - Len(N)
      BY Zenon, <1>5, <2>4
    <3>4. \/ i \in DOMAIN N /\ j \in DOMAIN N
          \/ /\ i - Len(N) \in DOMAIN q /\ P[i] = q[i - Len(N)]
             /\ j - Len(N) \in DOMAIN q /\ P[j] = q[j - Len(N)]
      BY Zenon, <2>3, <2>4, <3>1
    <3> QED
      BY <2>0, <3>0, <3>2, <3>3, <3>4
  <2>5. ASSUME NEW e \in Easies
        PROVE  (\E i \in DOMAIN P : P[i] = e) <=> (e \in DOMAIN O /\ O[e] = "told")
    <3>1. ASSUME NEW i \in DOMAIN P, P[i] = e PROVE e \in DOMAIN O /\ O[e] = "told"
      BY Zenon, <1>3, <1>7, <2>3, <3>1
    <3>2. ASSUME e \in DOMAIN O, O[e] = "told" PROVE \E i \in DOMAIN P : P[i] = e
      <4>1. CASE e \in done
        <5>1. PICK j \in DOMAIN q : q[j] = e
          BY Zenon, <1>5, <4>1
        <5>2. Len(N) + j \in DOMAIN P /\ P[Len(N) + j] = e
          BY Zenon, <2>2, <5>1
        <5> QED
          BY Zenon, <5>2
      <4>2. CASE e \notin done
        <5>1. M[e] = "told" /\ e \in DOMAIN M
          BY Zenon, <1>7, <3>2, <4>2
        <5> QED
          BY Zenon, <2>0, <2>2, <5>1
      <4> QED
        BY Zenon, <4>1, <4>2
    <3> QED
      BY Zenon, <3>1, <3>2
  <2> QED
    BY Zenon, <2>2, <2>4, <2>5 DEF Listed
<1>a. \A n \in Nat : n <= Len(N) => n <= Len(P)
  <2>1. N \in Seq(Easies)
    BY Zenon, <1>1 DEF Listed
  <2>2. q \in Seq(Easies)
    BY <1>3, <1>5
  <2> QED
    BY Zenon, <2>1, <2>2, ConcatLonger DEF P
<1>10. Kept(s, Pool(C, P, O, K, F, L, z))
  BY Zenon, <1>1, <1>7, <1>9, <1>a, KeptPool DEF C, N, M, L
<1> QED
  BY Zenon, <1>2, <1>8, <1>10

\* socket_action: libcurl is called, and then the transfers that are done read.
LEMMA KeptAction ==
  ASSUME NEW s, Good(s), NEW t \in MultiSocketAction(s)
  PROVE  Kept(s, t)
<1>1. PICK u \in Library(s) : t = u \/ t = CheckMultiInfo(u)
  BY Zenon DEF MultiSocketAction
<1>2. Kept(s, u)
  BY Zenon, KeptLibrary
<1>3. Kept(u, t)
  BY Zenon, <1>1, <1>2, KeptCheck DEF Kept
<1> QED
  BY Zenon, <1>2, <1>3 DEF Kept

-----------------------------------------------------------------------------
(* The transfers' beginning and end.                                        *)

\* No transfer is without its handle.
AllHandled(s) == DOMAIN s.multi = DOMAIN s.conns

\* A transfer begins for event e, or has failed to.
Began(s, e, t) ==
  /\ Good(t)
  /\ AllHandled(s) => AllHandled(t)
  /\ \A d : d \in Known(t) <=> d \in Known(s) \/ d = e

\* curl_multi_add_handle takes the transfer.
LEMMA BeganActive ==
  ASSUME NEW s, Good(s), NEW e \in Easies, e \notin Known(s)
  PROVE  Began(s, e, [[s EXCEPT !.conns = With(s.conns, e, {})] EXCEPT !.multi = With(s.multi, e, "active")])
<1> DEFINE C == s.conns N == s.finished M == s.multi K == s.socks F == s.fds L == s.cleaned
           z == s.crashed
<1>1. /\ Owned(C, K, F) /\ Listed(N, M) /\ s = Pool(C, N, M, K, F, L, z) /\ z = FALSE
      /\ DOMAIN C \subseteq Easies /\ Handled(C, M, K) /\ Freed(C, L)
  BY Zenon DEF Good, Sound
<1>b. AllHandled(s) => DOMAIN M = DOMAIN C
  BY Zenon DEF AllHandled
<1>2. e \notin DOMAIN C /\ L[e] = 0
  BY Zenon DEF Known
<1>a. \A d : d \in Known(s) <=> d \in Easies /\ (d \in DOMAIN C \/ L[d] # 0)
  BY Zenon DEF Known
<1> HIDE DEF C, N, M, K, F, L, z
<1> DEFINE D == With(C, e, {})
           O == With(M, e, "active")
           u == [s EXCEPT !.conns = D]
<1>3. DOMAIN D = DOMAIN C \cup {e} /\ D[e] = {} /\ \A d \in DOMAIN C : D[d] = C[d]
  BY Zenon, <1>2 DEF With
<1>4. DOMAIN O = DOMAIN M \cup {e} /\ O[e] = "active" /\ \A d \in DOMAIN M : O[d] = M[d]
  BY Zenon, <1>1, <1>2 DEF With, Handled
<1> HIDE DEF D, O
<1>5. u = Pool(D, N, M, K, F, L, z)
  BY <1>1 DEF Pool
<1> HIDE DEF u
<1>6. [u EXCEPT !.multi = O] = Pool(D, N, O, K, F, L, z)
  BY <1>5 DEF Pool
<1>7. Owned(D, K, F)
  <2>1. \A fd \in DOMAIN K : K[fd] \in DOMAIN D /\ fd \in D[K[fd]]
    BY Zenon, <1>1, <1>3 DEF Owned
  <2>2. \A fd \in DOMAIN F : \E d \in DOMAIN D : fd \in D[d]
    BY Zenon, <1>1, <1>3 DEF Owned
  <2>3. \A d \in DOMAIN D : D[d] \subseteq DOMAIN F
    BY Zenon, <1>1, <1>3 DEF Owned
  <2>4. ASSUME NEW c \in DOMAIN D, NEW d \in DOMAIN D, NEW fd, fd \in D[c], fd \in D[d] PROVE c = d
    <3>1. c \in DOMAIN C /\ d \in DOMAIN C
      BY Zenon, <1>3, <2>4
    <3> QED
      BY Zenon, <1>1, <1>3, <2>4, <3>1 DEF Owned
  <2> QED
    BY Zenon, <2>1, <2>2, <2>3, <2>4 DEF Owned
<1>8. Listed(N, O)
  <2>1. \A d \in Easies : (d \in DOMAIN O /\ O[d] = "told") <=> (d \in DOMAIN M /\ M[d] = "told")
    BY Zenon, <1>1, <1>2, <1>4 DEF Handled
  <2> QED
    BY Zenon, <1>1, <2>1 DEF Listed
<1>9. Freed(D, L)
  BY Zenon, <1>1, <1>2, <1>3 DEF Freed
<1>c. Handled(D, O, K)
  BY Zenon, <1>1, <1>3, <1>4 DEF Handled
<1>10. Sound(D, N, O, K, F, L)
  BY Zenon, <1>1, <1>3, <1>7, <1>8, <1>9, <1>c DEF Sound
<1>11. Began(s, e, Pool(D, N, O, K, F, L, z))
  <2>1. \A d : d \in Known(Pool(D, N, O, K, F, L, z)) <=> d \in Easies /\ (d \in DOMAIN D \/ L[d] # 0)
    BY Zenon, <1>1, <1>10, GoodPool
  <2>2. Pool(D, N, O, K, F, L, z).conns = D /\ Pool(D, N, O, K, F, L, z).multi = O
    BY Zenon DEF Pool
  <2>3. AllHandled(s) => AllHandled(Pool(D, N, O, K, F, L, z))
    BY Zenon, <1>3, <1>4, <1>b, <2>2 DEF AllHandled
  <2> QED
    BY Zenon, <1>1, <1>3, <1>10, <1>a, <2>1, <2>3, GoodPool DEF Began
<1> QED
  BY Zenon, <1>6, <1>11 DEF D, O, u, C, M

\* clean_fn is called for some events that are not freed yet.
LEMMA CleanedIs ==
  ASSUME NEW L \in [Easies -> Nat], NEW S, S \subseteq Easies,
         \A d \in Easies : L[d] <= 1, \A d \in S : L[d] = 0
  PROVE  LET P == [d \in Easies |-> IF d \in S THEN L[d] + 1 ELSE L[d]]
         IN  /\ P \in [Easies -> Nat] /\ \A d \in Easies : P[d] <= 1
             /\ \A d \in S : P[d] # 0
             /\ \A d \in Easies : d \notin S => P[d] = L[d]
OBVIOUS

\* curl_multi_add_handle fails, and what was entered is taken back.
LEMMA BeganFailed ==
  ASSUME NEW s, Good(s), NEW e \in Easies, e \notin Known(s)
  PROVE  Began(s, e, [CallCleanFn([s EXCEPT !.conns = With(s.conns, e, {})], {e})
                        EXCEPT !.conns = Without(With(s.conns, e, {}), {e})])
<1> DEFINE C == s.conns N == s.finished M == s.multi K == s.socks F == s.fds L == s.cleaned
           z == s.crashed
<1>1. /\ Owned(C, K, F) /\ Listed(N, M) /\ s = Pool(C, N, M, K, F, L, z) /\ z = FALSE
      /\ DOMAIN C \subseteq Easies /\ Handled(C, M, K) /\ Freed(C, L)
  BY Zenon DEF Good, Sound
<1>b. AllHandled(s) => DOMAIN M = DOMAIN C
  BY Zenon DEF AllHandled
<1>2. e \notin DOMAIN C /\ L[e] = 0
  BY Zenon DEF Known
<1>a. \A d : d \in Known(s) <=> d \in Easies /\ (d \in DOMAIN C \/ L[d] # 0)
  BY Zenon DEF Known
<1> HIDE DEF C, N, M, K, F, L, z
<1> DEFINE B == With(C, e, {})
           D == Without(B, {e})
           P == [d \in Easies |-> IF d \in {e} THEN L[d] + 1 ELSE L[d]]
           u == [s EXCEPT !.conns = B]
           v == [u EXCEPT !.cleaned = P]
<1>3. DOMAIN D = DOMAIN C /\ \A d \in DOMAIN C : D[d] = C[d]
  BY Zenon, <1>2 DEF With, Without
<1>4. /\ P \in [Easies -> Nat] /\ \A d \in Easies : P[d] <= 1 /\ (d # e => P[d] = L[d])
      /\ P[e] # 0
  <2>1. L \in [Easies -> Nat] /\ {e} \subseteq Easies /\ (\A d \in Easies : L[d] <= 1) /\ (\A d \in {e} : L[d] = 0)
    BY Zenon, <1>1, <1>2 DEF Freed
  <2>2. /\ P \in [Easies -> Nat] /\ \A d \in Easies : P[d] <= 1
        /\ \A d \in {e} : P[d] # 0
        /\ \A d \in Easies : d \notin {e} => P[d] = L[d]
    BY Zenon, <2>1, CleanedIs
  <2> QED
    BY Zenon, <2>2
<1>5. u = Pool(B, N, M, K, F, L, z)
  <2> HIDE DEF B
  <2> QED
    BY <1>1 DEF Pool
<1>6. CallCleanFn(u, {e}) = v
  <2>1. u.cleaned = L
    BY <1>5 DEF Pool
  <2> QED
    BY Zenon, <2>1 DEF CallCleanFn
<1> HIDE DEF B, D, P, u
<1>7. v = Pool(B, N, M, K, F, P, z)
  BY <1>5 DEF Pool
<1> HIDE DEF v
<1>8. [v EXCEPT !.conns = D] = Pool(D, N, M, K, F, P, z)
  BY <1>7 DEF Pool
<1>9. Owned(D, K, F)
  BY Zenon, <1>1, <1>3 DEF Owned
<1>10. Freed(D, P)
  BY Zenon, <1>1, <1>2, <1>3, <1>4 DEF Freed
<1>11. Sound(D, N, M, K, F, P)
  BY Zenon, <1>1, <1>3, <1>9, <1>10 DEF Sound, Handled
<1>12. Began(s, e, Pool(D, N, M, K, F, P, z))
  <2>1. \A d : d \in Known(Pool(D, N, M, K, F, P, z)) <=> d \in Easies /\ (d \in DOMAIN D \/ P[d] # 0)
    BY Zenon, <1>1, <1>11, GoodPool
  <2>2. Pool(D, N, M, K, F, P, z).conns = D /\ Pool(D, N, M, K, F, P, z).multi = M
    BY Zenon DEF Pool
  <2>3. AllHandled(s) => AllHandled(Pool(D, N, M, K, F, P, z))
    BY Zenon, <1>3, <1>b, <2>2 DEF AllHandled
  <2> QED
    BY Zenon, <1>1, <1>3, <1>4, <1>11, <1>a, <2>1, <2>3, GoodPool DEF Began
<1> QED
  BY Zenon, <1>6, <1>8, <1>12 DEF D, B, u, C

\* One event of the queue.
LEMMA BeganStart ==
  ASSUME NEW s, Good(s), NEW e \in Easies, e \notin Known(s), NEW t \in StartTransfer(s, e)
  PROVE  Began(s, e, t)
<1> DEFINE entered == [s EXCEPT !.conns = With(s.conns, e, {})]
           u == [entered EXCEPT !.multi = With(s.multi, e, "active")]
           f == [CallCleanFn(entered, {e}) EXCEPT !.conns = Without(With(s.conns, e, {}), {e})]
<1>1. entered.multi = s.multi /\ CallCleanFn(entered, {e}).conns = With(s.conns, e, {})
  <2> DEFINE B == With(s.conns, e, {}) C == s.conns N == s.finished M == s.multi K == s.socks F == s.fds
             L == s.cleaned z == s.crashed
  <2>1. s = Pool(C, N, M, K, F, L, z)
    BY Zenon DEF Good
  <2> HIDE DEF B, C, N, M, K, F, L, z
  <2>2. entered = Pool(B, N, M, K, F, L, z)
    <3>1. entered = [s EXCEPT !.conns = B]
      BY Zenon DEF B
    <3> QED
      BY <2>1, <3>1 DEF Pool
  <2> HIDE DEF entered
  <2>3. entered.multi = M
    BY <2>2 DEF Pool
  <2> DEFINE P == [d \in Easies |-> IF d \in {e} THEN entered.cleaned[d] + 1 ELSE entered.cleaned[d]]
  <2>4. CallCleanFn(entered, {e}) = [entered EXCEPT !.cleaned = P]
    BY Zenon DEF CallCleanFn
  <2> HIDE DEF P
  <2>5. [entered EXCEPT !.cleaned = P].conns = B
    BY <2>2 DEF Pool
  <2> QED
    BY Zenon, <2>3, <2>4, <2>5 DEF M, B
<1>2. t \in MultiTimer(u) \/ t = f
  BY Zenon, <1>1 DEF StartTransfer
<1>3. Began(s, e, u) /\ Began(s, e, f)
  BY Zenon, BeganActive, BeganFailed
<1> HIDE DEF u, f
<1>4. CASE t \in MultiSocketAction(u)
  <2>1. Kept(u, t)
    BY Zenon, <1>3, <1>4, KeptAction DEF Began
  <2> QED
    BY Zenon, <1>3, <2>1 DEF Began, Kept, AllHandled
<1> QED
  BY Zenon, <1>2, <1>3, <1>4 DEF MultiTimer

\* Induction over the natural numbers, for a set: the statement is that every
\* number is in the set.
LEMMA SetInduction ==
  ASSUME NEW T, 0 \in T, \A n \in Nat : n \in T => n + 1 \in T
  PROVE  Nat \subseteq T
<1> SUFFICES ASSUME Nat \ T # {} PROVE FALSE
  BY Zenon
<1>1. PICK x \in Nat \ T : \A y \in Nat \ T : x <= y
  BY Zenon, Least
<1>2. x # 0 /\ x - 1 \in Nat /\ x - 1 \notin Nat \ T
  BY <1>1
<1>3. (x - 1) + 1 \in T
  BY Zenon, <1>2
<1> QED
  BY <1>1, <1>3

\* What may be left of the states S after another event.
Grown(S, e) == UNION {StartTransfer(t, e) : t \in S}

\* The loop of async over the queue, event by event.
LEMMA StartAllIs ==
  ASSUME NEW s, NEW q, Len(q) \in Nat
  PROVE  \E f : /\ f[0] = {s} /\ \A k \in 1..Len(q) : f[k] = Grown(f[k - 1], q[k])
               /\ StartAll(s, q) = f[Len(q)]
<1> DEFINE n == Len(q)
           P(f) == f = [k \in 0..n |-> IF k = 0 THEN {s} ELSE UNION {StartTransfer(t, q[k]) : t \in f[k - 1]}]
           R(f) == f = [k \in 0..n |-> IF k = 0 THEN {s} ELSE Grown(f[k - 1], q[k])]
           A == CHOOSE f : P(f)
<1>1. StartAll(s, q) = A[n]
  BY Zenon DEF StartAll
<1>2. \A f : P(f) <=> R(f)
  BY Zenon DEF Grown
<1> DEFINE Ok(m) == \E f : DOMAIN f = 0..m /\ f[0] = {s} /\ \A k \in 1..m : f[k] = Grown(f[k - 1], q[k])
           T == {m \in Nat : Ok(m)}
<1> HIDE DEF A, n, P, R, Ok
<1>3. 0 \in T
  <2> DEFINE f == [k \in 0..0 |-> {s}]
  <2>1. DOMAIN f = 0..0 /\ f[0] = {s} /\ \A k \in 1..0 : FALSE
    OBVIOUS
  <2> HIDE DEF f
  <2>2. Ok(0)
    BY Zenon, <2>1 DEF Ok
  <2> QED
    BY Zenon, <2>2
<1>4. ASSUME NEW m \in Nat, m \in T PROVE m + 1 \in T
  <2>1. PICK f : DOMAIN f = 0..m /\ f[0] = {s} /\ \A k \in 1..m : f[k] = Grown(f[k - 1], q[k])
    BY Zenon, <1>4 DEF Ok
  <2> DEFINE x == Grown(f[m], q[m + 1])
             g == [k \in 0..(m + 1) |-> IF k = m + 1 THEN x ELSE f[k]]
  <2>2. DOMAIN g = 0..(m + 1)
    BY Zenon
  <2>a. 0 \in 0..(m + 1) /\ 0 # m + 1 /\ m + 1 \in 0..(m + 1) /\ m \in 0..(m + 1) /\ m # m + 1 /\ (m + 1) - 1 = m
    OBVIOUS
  <2>b. \A k \in 1..(m + 1) : k # m + 1 => k \in 1..m /\ k \in 0..(m + 1) /\ k - 1 \in 0..(m + 1) /\ k - 1 # m + 1
    OBVIOUS
  <2>3. g[0] = {s}
    BY Zenon, <2>1, <2>a
  <2>4. ASSUME NEW k \in 1..(m + 1) PROVE g[k] = Grown(g[k - 1], q[k])
    <3> HIDE DEF x
    <3>1. CASE k = m + 1
      <4>1. g[k] = x /\ g[k - 1] = f[m]
        BY Zenon, <2>a, <3>1
      <4> QED
        BY Zenon, <3>1, <4>1 DEF x
    <3>2. CASE k # m + 1
      <4>1. g[k] = f[k] /\ g[k - 1] = f[k - 1]
        BY Zenon, <2>b, <3>2
      <4> QED
        BY Zenon, <2>1, <2>b, <3>2, <4>1
    <3> QED
      BY Zenon, <3>1, <3>2
  <2> HIDE DEF g
  <2>5. Ok(m + 1)
    BY Zenon, <2>2, <2>3, <2>4 DEF Ok
  <2> QED
    BY <2>5
<1>5. \A m \in Nat : m \in T => m + 1 \in T
  BY Zenon, <1>4
<1>6. n \in T
  <2> HIDE DEF T
  <2> QED
    BY Zenon, <1>3, <1>5, SetInduction DEF n
<1>7. PICK f : DOMAIN f = 0..n /\ f[0] = {s} /\ \A k \in 1..n : f[k] = Grown(f[k - 1], q[k])
  BY Zenon, <1>6 DEF Ok
<1>8. \E h : R(h)
  <2> DEFINE h == [k \in 0..n |-> f[k]]
  <2>0. n \in Nat
    BY Zenon DEF n
  <2>a. \A k \in 0..n : k # 0 => k \in 1..n /\ k - 1 \in 0..n
    BY <2>0
  <2>1. \A k \in 0..n : h[k] = IF k = 0 THEN {s} ELSE Grown(h[k - 1], q[k])
    BY Zenon, <1>7, <2>a
  <2>2. h = [k \in 0..n |-> h[k]]
    BY Zenon
  <2> HIDE DEF h
  <2>3. R(h)
    BY Zenon, <2>1, <2>2 DEF R
  <2> QED
    BY Zenon, <2>3
<1>9. R(A)
  BY Zenon, <1>2, <1>8 DEF A
<1>10. A[0] = {s} /\ \A k \in 1..n : A[k] = Grown(A[k - 1], q[k])
  <2>1. n \in Nat /\ 0 \in 0..n /\ \A k \in 1..n : k \in 0..n /\ k # 0
    BY DEF n
  <2> QED
    BY Zenon, <1>9, <2>1 DEF R
<1> QED
  BY Zenon, <1>1, <1>10 DEF n

\* async, for the events of a queue that are new and differ from each other.
LEMMA BeganAll ==
  ASSUME NEW s, Good(s), AllHandled(s), NEW q \in Seq(Easies),
         \A i, j \in DOMAIN q : q[i] = q[j] => i = j,
         \A i \in DOMAIN q : q[i] \notin Known(s), NEW t \in StartAll(s, q)
  PROVE  Good(t) /\ AllHandled(t) /\ \A d \in Known(t) : d \in Known(s) \/ \E i \in DOMAIN q : d = q[i]
<1> DEFINE n == Len(q)
<1>1. n \in Nat /\ DOMAIN q = 1..n /\ \A i \in 1..n : q[i] \in Easies
  OBVIOUS
<1>2. PICK f : f[0] = {s} /\ (\A k \in 1..n : f[k] = Grown(f[k - 1], q[k])) /\ StartAll(s, q) = f[n]
  BY Zenon, <1>1, StartAllIs
<1> DEFINE So(m) == \A u \in f[m] : /\ Good(u) /\ AllHandled(u)
                                 /\ \A d \in Known(u) : d \in Known(s) \/ \E i \in 1..m : d = q[i]
           T == {m \in Nat : m <= n => So(m)}
<1> HIDE DEF n, So
<1>3. 0 \in T
  <2>1. So(0)
    BY Zenon, <1>2 DEF So
  <2> QED
    BY Zenon, <2>1
<1>4. ASSUME NEW m \in Nat, m \in T PROVE m + 1 \in T
  <2>0. CASE ~(m + 1 <= n)
    BY <2>0
  <2>a. CASE m + 1 <= n
    <3>1. So(m) /\ m + 1 \in 1..n /\ (m + 1) - 1 = m
      BY <1>1, <1>4, <2>a
    <3>b. (\A i \in 1..m : i \in 1..(m + 1) /\ i \in 1..n /\ i # m + 1) /\ m + 1 \in 1..(m + 1)
      BY <1>1, <2>a
    <3>2. f[m + 1] = Grown(f[m], q[m + 1])
      BY Zenon, <1>2, <3>1
    <3>3. ASSUME NEW v \in f[m + 1]
          PROVE  /\ Good(v) /\ AllHandled(v)
                 /\ \A d \in Known(v) : d \in Known(s) \/ \E i \in 1..(m + 1) : d = q[i]
      <4>1. PICK u \in f[m] : v \in StartTransfer(u, q[m + 1])
        BY Zenon, <3>2, <3>3 DEF Grown
      <4>2. Good(u) /\ AllHandled(u) /\ \A d \in Known(u) : d \in Known(s) \/ \E i \in 1..m : d = q[i]
        BY Zenon, <3>1 DEF So
      <4>3. q[m + 1] \in Easies /\ q[m + 1] \notin Known(u)
        BY Zenon, <1>1, <3>1, <3>b, <4>2
      <4>4. Began(u, q[m + 1], v)
        BY Zenon, <4>1, <4>2, <4>3, BeganStart
      <4> QED
        BY Zenon, <3>b, <4>2, <4>4 DEF Began
    <3>4. So(m + 1)
      BY Zenon, <3>3 DEF So
    <3> QED
      BY <3>4
  <2> QED
    BY Zenon, <2>0, <2>a
<1>5. \A m \in Nat : m \in T => m + 1 \in T
  BY Zenon, <1>4
<1>6. n \in T
  <2> HIDE DEF T
  <2> QED
    BY Zenon, <1>1, <1>3, <1>5, SetInduction
<1>7. So(n)
  BY <1>1, <1>6
<1> QED
  BY ZenonT(40), <1>1, <1>2, <1>7 DEF So

-----------------------------------------------------------------------------
(* cleanup_conns frees the transfers that are done, one by one.             *)

\* Without its first transfer e, the list is of the others.
LEMMA ListedTail ==
  ASSUME NEW N, NEW M, Listed(N, M), N # <<>>, DOMAIN M \subseteq Easies
  PROVE  Head(N) \in DOMAIN M /\ Listed(Tail(N), Without(M, {Head(N)}))
<1> DEFINE e == Head(N)
           T == Tail(N)
           P == Without(M, {e})
<1>1. /\ N \in Seq(Easies) /\ \A i, j \in DOMAIN N : N[i] = N[j] => i = j
      /\ \A d \in Easies : (\E i \in DOMAIN N : N[i] = d) <=> (d \in DOMAIN M /\ M[d] = "told")
  BY Zenon DEF Listed
<1>2. /\ e \in Easies /\ 1 \in DOMAIN N /\ N[1] = e /\ T \in Seq(Easies)
      /\ \A i \in DOMAIN T : i + 1 \in DOMAIN N /\ i + 1 # 1 /\ T[i] = N[i + 1]
      /\ \A i \in DOMAIN N : i # 1 => i - 1 \in DOMAIN T /\ T[i - 1] = N[i]
      /\ \A i, j \in DOMAIN T : i + 1 = j + 1 => i = j
  BY <1>1
<1>3. /\ \A d : d \in DOMAIN P <=> d \in DOMAIN M /\ d # e
      /\ \A d \in DOMAIN P : P[d] = M[d]
  BY Zenon DEF Without
<1> HIDE DEF e, T, P
<1>4. ASSUME NEW i \in DOMAIN T, NEW j \in DOMAIN T, T[i] = T[j] PROVE i = j
  <2>1. i + 1 \in DOMAIN N /\ j + 1 \in DOMAIN N /\ N[i + 1] = N[j + 1]
    BY Zenon, <1>2, <1>4
  <2> QED
    BY Zenon, <1>1, <1>2, <2>1
<1>5. ASSUME NEW d \in Easies
      PROVE  (\E i \in DOMAIN T : T[i] = d) <=> (d \in DOMAIN P /\ P[d] = "told")
  <2>1. ASSUME NEW i \in DOMAIN T, T[i] = d PROVE d \in DOMAIN P /\ P[d] = "told"
    <3>1. i + 1 \in DOMAIN N /\ N[i + 1] = d /\ i + 1 # 1
      BY Zenon, <1>2, <2>1
    <3>2. d # e
      BY Zenon, <1>1, <1>2, <3>1
    <3> QED
      BY Zenon, <1>1, <1>3, <3>1, <3>2
  <2>2. ASSUME d \in DOMAIN P, P[d] = "told" PROVE \E i \in DOMAIN T : T[i] = d
    <3>1. PICK i \in DOMAIN N : N[i] = d
      BY Zenon, <1>1, <1>3, <2>2
    <3>2. i # 1
      BY Zenon, <1>2, <1>3, <2>2, <3>1
    <3> QED
      BY Zenon, <1>2, <3>1, <3>2
  <2> QED
    BY Zenon, <2>1, <2>2
<1>6. Listed(T, P)
  BY Zenon, <1>2, <1>4, <1>5 DEF Listed
<1>7. e \in DOMAIN M
  BY Zenon, <1>1, <1>2
<1> QED
  BY Zenon, <1>6, <1>7 DEF e, T, P

\* curl_multi_remove_handle: the transfer is known, and its handle and its
\* sockets are gone.
LEMMA HandleRemoved ==
  ASSUME NEW s, Good(s), AllHandled(s), s.finished # <<>>
  PROVE  LET e == Head(s.finished)
             t == RemoveHandle(s, e)
         IN  /\ Good(t) /\ Known(t) = Known(s) /\ e \in DOMAIN t.conns
             /\ DOMAIN t.multi = DOMAIN t.conns \ {e} /\ t.finished = Tail(s.finished)
<1> DEFINE C == s.conns N == s.finished M == s.multi K == s.socks F == s.fds L == s.cleaned
           z == s.crashed
           e == Head(N)
           S == SocksOf(s, {e})
           u == CloseSocks(s, S)
           P == Without(M, {e})
           T == Tail(N)
<1>1. /\ Listed(N, M) /\ DOMAIN C \subseteq Easies /\ DOMAIN M = DOMAIN C
  BY Zenon DEF Good, Sound, AllHandled
<1>2. e \in DOMAIN M /\ Listed(T, P)
  BY Zenon, <1>1, ListedTail
<1>3. S \subseteq DOMAIN K /\ \A fd \in DOMAIN K : K[fd] = e => fd \in S
  BY Zenon DEF SocksOf
<1>4. RemoveHandle(s, e) = [u EXCEPT !.multi = Without(u.multi, {e}), !.finished = Tail(u.finished)]
  BY Zenon, <1>1, <1>2 DEF RemoveHandle
<1>5. \E G : DOMAIN G = DOMAIN F /\ u = Pool(C, N, M, Without(K, S), G, L, z)
  <2>0. Owned(C, K, F) /\ s = Pool(C, N, M, K, F, L, z)
    BY Zenon DEF Good, Sound
  <2>1. S \subseteq DOMAIN F
    BY Zenon, <1>3, <2>0 DEF Owned
  <2> DEFINE H == Without(K, S)
             G == [fd \in DOMAIN F |-> IF fd \in S THEN "none" ELSE F[fd]]
             t == [s EXCEPT !.socks = H]
  <2>2. u = [s EXCEPT !.socks = H, !.fds = G]
    BY Zenon, <2>1 DEF CloseSocks
  <2>a. DOMAIN G = DOMAIN F
    BY Zenon
  <2> HIDE DEF C, N, M, K, F, L, z, e, S, H, G, u
  <2>3. t = Pool(C, N, M, H, F, L, z)
    BY <2>0 DEF Pool
  <2>4. [s EXCEPT !.socks = H, !.fds = G] = [t EXCEPT !.fds = G]
    BY Zenon
  <2> HIDE DEF t
  <2>5. [t EXCEPT !.fds = G] = Pool(C, N, M, H, G, L, z)
    BY <2>3 DEF Pool
  <2> QED
    BY Zenon, <2>2, <2>4, <2>5, <2>a DEF H
<1>6. PICK G : DOMAIN G = DOMAIN F /\ u = Pool(C, N, M, Without(K, S), G, L, z)
  BY Zenon, <1>5
<1> DEFINE H == Without(K, S)
           v == [u EXCEPT !.multi = P]
<1>7. RemoveHandle(s, e) = [v EXCEPT !.finished = T]
  <2>1. u.multi = M /\ u.finished = N
    <3> HIDE DEF C, N, M, K, F, L, z, S, u
    <3> QED
      BY Zenon, <1>6 DEF Pool
  <2> QED
    BY Zenon, <1>4, <2>1
<1>8. /\ Good(s) /\ Owned(C, K, F) /\ Handled(C, M, K) /\ Freed(C, L) /\ z = FALSE
      /\ \A d : d \in Known(s) <=> d \in Easies /\ (d \in DOMAIN C \/ L[d] # 0)
  BY Zenon DEF Good, Sound, Known
<1> HIDE DEF C, N, M, K, F, L, z, S, u, P, T
<1>9. /\ \A fd : fd \in DOMAIN H <=> fd \in DOMAIN K /\ fd \notin S
      /\ \A fd \in DOMAIN H : H[fd] = K[fd]
      /\ \A d : d \in DOMAIN P <=> d \in DOMAIN M /\ d # e
  BY Zenon DEF Without, P
<1> HIDE DEF e, H
<1>10. v = Pool(C, N, P, H, G, L, z)
  BY <1>6 DEF Pool, H
<1> HIDE DEF v
<1>11. [v EXCEPT !.finished = T] = Pool(C, T, P, H, G, L, z)
  BY <1>10 DEF Pool
<1>12. Owned(C, H, G)
  BY Zenon, <1>6, <1>8, <1>9 DEF Owned
<1>13. Handled(C, P, H)
  BY Zenon, <1>1, <1>3, <1>8, <1>9 DEF Handled
<1>14. Sound(C, T, P, H, G, L)
  BY Zenon, <1>1, <1>2, <1>8, <1>12, <1>13 DEF Sound
<1>15. LET t == Pool(C, T, P, H, G, L, z)
       IN  Good(t) /\ Known(t) = Known(s) /\ t.conns = C /\ t.multi = P /\ t.finished = T
  <2> DEFINE t == Pool(C, T, P, H, G, L, z)
  <2>1. t.conns = C /\ t.multi = P /\ t.finished = T
    BY Zenon DEF Pool
  <2>2. Good(t) /\ \A d : d \in Known(t) <=> d \in Easies /\ (d \in DOMAIN C \/ L[d] # 0)
    BY Zenon, <1>8, <1>14, GoodPool
  <2> HIDE DEF t
  <2>3. Known(t) = Known(s)
    BY Zenon, <1>8, <2>2
  <2> QED
    BY Zenon, <2>1, <2>2, <2>3 DEF t
<1>16. DOMAIN P = DOMAIN C \ {e}
  BY Zenon, <1>1, <1>9
<1>17. LET t == RemoveHandle(s, e)
       IN  /\ Good(t) /\ Known(t) = Known(s) /\ e \in DOMAIN t.conns
           /\ DOMAIN t.multi = DOMAIN t.conns \ {e} /\ t.finished = T
  BY Zenon, <1>1, <1>2, <1>7, <1>11, <1>15, <1>16
<1> QED
  BY Zenon, <1>17 DEF e, T, N

\* The rest of the loop's body: the transfer, which has no handle any more, and
\* its fds are gone, and its clean_fn is called.
LEMMA ConnFreed ==
  ASSUME NEW s, Good(s), NEW e \in DOMAIN s.conns, DOMAIN s.multi = DOMAIN s.conns \ {e}
  PROVE  LET t == [RemoveFds(CallCleanFn(s, {e}), e) EXCEPT !.conns = Without(@, {e})]
         IN  Good(t) /\ Known(t) = Known(s) /\ AllHandled(t) /\ t.finished = s.finished
<1> DEFINE C == s.conns N == s.finished M == s.multi K == s.socks F == s.fds L == s.cleaned
           z == s.crashed
           A == [d \in Easies |-> IF d \in {e} THEN L[d] + 1 ELSE L[d]]
           I == Without(F, C[e])
           D == Without(C, {e})
           u1 == CallCleanFn(s, {e})
           u2 == RemoveFds(u1, e)
           u3 == [u2 EXCEPT !.conns = Without(u2.conns, {e})]
<1>1. /\ Owned(C, K, F) /\ Listed(N, M) /\ Handled(C, M, K) /\ Freed(C, L) /\ DOMAIN C \subseteq Easies
      /\ s = Pool(C, N, M, K, F, L, z) /\ z = FALSE
      /\ e \in DOMAIN C /\ DOMAIN M = DOMAIN C \ {e}
      /\ \A d : d \in Known(s) <=> d \in Easies /\ (d \in DOMAIN C \/ L[d] # 0)
  BY Zenon DEF Good, Sound, Known
<1>2. u1 = [s EXCEPT !.cleaned = A]
  BY Zenon DEF CallCleanFn
<1> HIDE DEF u1
<1>a. [u2 EXCEPT !.conns = Without(@, {e})] = u3
  BY Zenon
<1>b. u2 = [u1 EXCEPT !.fds = Without(u1.fds, u1.conns[e])]
  BY Zenon DEF RemoveFds
<1> HIDE DEF u2
<1>3. u1 = Pool(C, N, M, K, F, A, z)
  <2> HIDE DEF C, N, M, K, F, L, z, A
  <2> QED
    BY <1>1, <1>2 DEF Pool
<1>4. u2 = Pool(C, N, M, K, I, A, z)
  <2>1. u1.fds = F /\ u1.conns = C
    BY Zenon, <1>3 DEF Pool
  <2>2. u2 = [u1 EXCEPT !.fds = I]
    BY Zenon, <1>b, <2>1
  <2> HIDE DEF C, N, M, K, F, L, z, A, I
  <2> QED
    BY <1>3, <2>2 DEF Pool
<1>5. u3 = Pool(D, N, M, K, I, A, z)
  <2>1. u2.conns = C
    BY Zenon, <1>4 DEF Pool
  <2>2. u3 = [u2 EXCEPT !.conns = D]
    BY Zenon, <2>1
  <2> HIDE DEF C, N, M, K, F, L, z, A, I, D, u3
  <2> QED
    BY <1>4, <2>2 DEF Pool
<1> HIDE DEF u3
<1>6. /\ \A d : d \in DOMAIN D <=> d \in DOMAIN C /\ d # e
      /\ \A d \in DOMAIN D : D[d] = C[d]
      /\ \A fd : fd \in DOMAIN I <=> fd \in DOMAIN F /\ fd \notin C[e]
  BY Zenon DEF Without
<1>7. /\ A \in [Easies -> Nat] /\ \A d \in Easies : A[d] <= 1
      /\ A[e] # 0 /\ \A d \in Easies : d # e => A[d] = L[d]
  <2>1. /\ L \in [Easies -> Nat] /\ {e} \subseteq Easies /\ \A d \in Easies : L[d] <= 1
        /\ \A d \in {e} : L[d] = 0
    BY Zenon, <1>1 DEF Freed
  <2>2. /\ A \in [Easies -> Nat] /\ \A d \in Easies : A[d] <= 1
        /\ \A d \in {e} : A[d] # 0
        /\ \A d \in Easies : d \notin {e} => A[d] = L[d]
    BY Zenon, <2>1, CleanedIs
  <2> QED
    BY Zenon, <2>2
<1> HIDE DEF C, N, M, K, F, L, z, A, I, D
<1>8. Owned(D, K, I)
  <2>1. \A fd \in DOMAIN K : K[fd] \in DOMAIN D /\ fd \in D[K[fd]]
    BY Zenon, <1>1, <1>6 DEF Owned, Handled
  <2>2. \A fd \in DOMAIN I : \E d \in DOMAIN D : fd \in D[d]
    BY Zenon, <1>1, <1>6 DEF Owned
  <2>3. ASSUME NEW d \in DOMAIN D, NEW fd \in D[d] PROVE fd \in DOMAIN I
    <3>1. d \in DOMAIN C /\ d # e /\ fd \in C[d]
      BY Zenon, <1>6, <2>3
    <3>2. fd \in DOMAIN F /\ fd \notin C[e]
      BY Zenon, <1>1, <3>1 DEF Owned
    <3> QED
      BY Zenon, <1>6, <3>2
  <2>4. \A c, d \in DOMAIN D : \A fd : fd \in D[c] /\ fd \in D[d] => c = d
    BY Zenon, <1>1, <1>6 DEF Owned
  <2> QED
    BY Zenon, <2>1, <2>2, <2>3, <2>4 DEF Owned
<1>9. DOMAIN M = DOMAIN D /\ Handled(D, M, K)
  BY Zenon, <1>1, <1>6 DEF Handled
<1>10. Freed(D, A)
  BY Zenon, <1>1, <1>6, <1>7 DEF Freed
<1>11. Sound(D, N, M, K, I, A)
  BY Zenon, <1>1, <1>6, <1>8, <1>9, <1>10 DEF Sound
<1>12. u3.conns = D /\ u3.multi = M /\ u3.finished = N
  BY Zenon, <1>5 DEF Pool
<1>13. Good(u3) /\ \A d : d \in Known(u3) <=> d \in Easies /\ (d \in DOMAIN D \/ A[d] # 0)
  BY Zenon, <1>1, <1>5, <1>11, GoodPool
<1>14. Known(u3) = Known(s)
  <2>1. e \in Easies /\ e \in Known(u3) /\ e \in Known(s)
    BY Zenon, <1>1, <1>7, <1>13
  <2>2. ASSUME NEW d, d # e PROVE d \in Known(u3) <=> d \in Known(s)
    <3>1. d \in Known(u3) <=> d \in Easies /\ (d \in DOMAIN D \/ A[d] # 0)
      BY Zenon, <1>13
    <3>2. d \in Easies => A[d] = L[d]
      BY Zenon, <1>7, <2>2
    <3>3. d \in DOMAIN D <=> d \in DOMAIN C
      BY Zenon, <1>6, <2>2
    <3>4. d \in Known(s) <=> d \in Easies /\ (d \in DOMAIN C \/ L[d] # 0)
      BY Zenon, <1>1
    <3> QED
      BY Zenon, <3>1, <3>2, <3>3, <3>4
  <2>3. \A d : d \in Known(u3) <=> d \in Known(s)
    BY Zenon, <2>1, <2>2
  <2> QED
    BY Zenon, <2>3
<1>15. AllHandled(u3)
  BY Zenon, <1>9, <1>12 DEF AllHandled
<1> QED
  BY Zenon, <1>a, <1>12, <1>13, <1>14, <1>15 DEF u2, u1, N

\* clear(): the transfers that were reported meanwhile are not in the list, and
\* stay.
LEMMA FinishedCleared ==
  ASSUME NEW s, Good(s), AllHandled(s)
  PROVE  LET t == ClearFinished(s)
         IN  Good(t) /\ Known(t) = Known(s) /\ AllHandled(t)
<1> DEFINE C == s.conns N == s.finished M == s.multi K == s.socks F == s.fds L == s.cleaned
           z == s.crashed
           O == [e \in DOMAIN M |-> IF M[e] = "told" THEN "lost" ELSE M[e]]
           u == [s EXCEPT !.multi = O]
<1>1. /\ Owned(C, K, F) /\ Handled(C, M, K) /\ Freed(C, L) /\ DOMAIN C \subseteq Easies
      /\ s = Pool(C, N, M, K, F, L, z) /\ z = FALSE /\ DOMAIN M = DOMAIN C
      /\ \A d : d \in Known(s) <=> d \in Easies /\ (d \in DOMAIN C \/ L[d] # 0)
  BY Zenon DEF Good, Sound, Known, AllHandled
<1>2. ClearFinished(s) = [u EXCEPT !.finished = <<>>]
  BY Zenon DEF ClearFinished
<1> HIDE DEF C, N, M, K, F, L, z
<1>3. DOMAIN O = DOMAIN M
  BY Zenon
<1>4. \A e \in DOMAIN O : O[e] # "told"
  OBVIOUS
<1> HIDE DEF O
<1>5. u = Pool(C, N, O, K, F, L, z)
  BY <1>1 DEF Pool
<1> HIDE DEF u
<1>6. [u EXCEPT !.finished = <<>>] = Pool(C, <<>>, O, K, F, L, z)
  BY <1>5 DEF Pool
<1>7. Listed(<<>>, O)
  <2>1. <<>> \in Seq(Easies) /\ DOMAIN <<>> = 1..0 /\ \A i : i \notin 1..0
    OBVIOUS
  <2>2. \A i : i \notin DOMAIN <<>>
    BY Zenon, <2>1
  <2> QED
    BY Zenon, <1>4, <2>1, <2>2 DEF Listed
<1>8. Sound(C, <<>>, O, K, F, L)
  BY Zenon, <1>1, <1>3, <1>7 DEF Sound, Handled
<1> DEFINE t == Pool(C, <<>>, O, K, F, L, z)
<1>9. t.conns = C /\ t.multi = O
  BY Zenon DEF Pool
<1>10. Good(t) /\ \A d : d \in Known(t) <=> d \in Easies /\ (d \in DOMAIN C \/ L[d] # 0)
  BY Zenon, <1>1, <1>8, GoodPool
<1> HIDE DEF t
<1>11. Known(t) = Known(s)
  BY Zenon, <1>1, <1>10
<1>12. AllHandled(t)
  BY Zenon, <1>1, <1>3, <1>9 DEF AllHandled
<1> QED
  BY Zenon, <1>2, <1>6, <1>10, <1>11, <1>12 DEF t

-----------------------------------------------------------------------------
(* The invariant.                                                           *)

\* The queued events are among those pushed, differ, and are no transfer yet.
Queued(q, n, K) ==
  /\ n \in 0..MaxEvents /\ q \in Seq(Easies)
  /\ \A i \in DOMAIN q : q[i] \in 1..n /\ q[i] \notin K
  /\ \A i, j \in DOMAIN q : q[i] = q[j] => i = j
  /\ K \subseteq 1..n

\* Every transfer has its handle, but for the one that cleanup_conns is about to
\* free; the list is at least as long as what its loop has still to visit.
Cleaning(c, s) ==
  /\ c = [at |-> c.at, left |-> c.left, easy |-> c.easy] /\ c.left \in Nat
  /\ c.at \in {"next", "removed"} => c.left <= Len(s.finished)
  /\ c.at # "removed" => AllHandled(s)
  /\ c.at = "removed" => c.easy \in DOMAIN s.conns /\ DOMAIN s.multi = DOMAIN s.conns \ {c.easy}

Inv == Good(pool) /\ Queued(queue, pushed, Known(pool)) /\ Cleaning(cleanup, pool)

LEMMA InvInit == Init => Inv
<1> SUFFICES ASSUME Init PROVE Inv
  BY Zenon
<1> DEFINE L == [e \in Easies |-> 0]
<1>1. pool = Pool(Empty, <<>>, Empty, Empty, Empty, L, FALSE) /\ pushed = 0 /\ queue = <<>>
  BY Zenon DEF Init, Pool
<1>2. DOMAIN Empty = {}
  BY Zenon DEF Empty
<1>3. Owned(Empty, Empty, Empty)
  BY Zenon, <1>2 DEF Owned
<1>a. <<>> \in Seq(Easies) /\ \A i : i \notin DOMAIN <<>>
  <2>1. <<>> \in Seq(Easies) /\ DOMAIN <<>> = 1..0 /\ \A i : i \notin 1..0
    OBVIOUS
  <2> QED
    BY Zenon, <2>1
<1>4. Listed(<<>>, Empty)
  BY Zenon, <1>2, <1>a DEF Listed
<1>5. L \in [Easies -> Nat] /\ (\A e \in Easies : L[e] <= 1) /\ \A e \in Easies : L[e] = 0
  OBVIOUS
<1> HIDE DEF L
<1>6. Freed(Empty, L)
  BY Zenon, <1>2, <1>5 DEF Freed
<1>7. Sound(Empty, <<>>, Empty, Empty, Empty, L)
  BY Zenon, <1>2, <1>3, <1>4, <1>6 DEF Sound, Handled
<1>8. Good(pool) /\ \A e : e \in Known(pool) <=> e \in Easies /\ (e \in DOMAIN Empty \/ L[e] # 0)
  BY Zenon, <1>1, <1>7, GoodPool
<1>9. \A e : e \notin Known(pool)
  BY Zenon, <1>2, <1>5, <1>8
<1>10. 0 \in 0..MaxEvents
  BY Bounds
<1>11. Cleaning(cleanup, pool)
  <2>1. cleanup = [at |-> "none", left |-> 0, easy |-> 0]
    BY Zenon DEF Init, NoCleanup
  <2>2. pool.conns = Empty /\ pool.multi = Empty
    BY Zenon, <1>1 DEF Pool
  <2>3. AllHandled(pool)
    BY Zenon, <2>2 DEF AllHandled
  <2> QED
    BY <2>1, <2>3 DEF Cleaning
<1> QED
  BY Zenon, <1>1, <1>8, <1>9, <1>10, <1>11, <1>a DEF Inv, Queued

\* push_event: the event is new.
LEMMA InvPush ==
  ASSUME Inv, PushEvent
  PROVE  Inv'
<1> DEFINE n == pushed
           q == queue
           K == Known(pool)
           r == Append(q, n + 1)
<1>1. Queued(q, n, K) /\ Good(pool) /\ n < MaxEvents
  BY Zenon DEF Inv, PushEvent
<1>2. pushed' = n + 1 /\ pool' = pool /\ cleanup' = cleanup /\ (queue' = r \/ queue' = q)
  BY Zenon DEF PushEvent
<1>3. Good(pool)' /\ Known(pool)' = K /\ Cleaning(cleanup, pool)'
  BY Zenon, <1>1, <1>2 DEF Inv
<1> HIDE DEF n, q, K
<1>4. n \in Nat /\ n + 1 \in 0..MaxEvents /\ n + 1 \in Easies /\ n + 1 \notin 1..n /\ \A i \in 1..n : i \in 1..(n + 1)
  BY <1>1, Bounds DEF Queued, Easies
<1>b. n + 1 \in 1..(n + 1)
  BY <1>4
<1>5. Queued(q, n + 1, K)
  BY Zenon, <1>1, <1>4 DEF Queued
<1>6. Queued(r, n + 1, K)
  <2>1. q \in Seq(Easies)
    BY Zenon, <1>1 DEF Queued
  <2>2. /\ r \in Seq(Easies)
        /\ Len(q) \in Nat /\ DOMAIN r = 1..(Len(q) + 1) /\ DOMAIN q = 1..Len(q)
        /\ \A i \in 1..Len(q) : r[i] = q[i]
        /\ r[Len(q) + 1] = n + 1
    BY <1>4, <2>1
  <2>a. \A i \in 1..(Len(q) + 1) : i \in 1..Len(q) \/ i = Len(q) + 1
    BY <2>2
  <2>b. ASSUME NEW i \in DOMAIN r
        PROVE  (i \in DOMAIN q /\ r[i] = q[i] /\ r[i] # n + 1) \/ (i = Len(q) + 1 /\ r[i] = n + 1)
    <3> HIDE DEF r
    <3>1. CASE i \in 1..Len(q)
      <4>1. i \in DOMAIN q /\ r[i] = q[i] /\ q[i] \in 1..n
        BY Zenon, <1>1, <2>2, <3>1 DEF Queued
      <4> QED
        BY Zenon, <1>4, <4>1
    <3>2. CASE i = Len(q) + 1
      BY Zenon, <2>2, <3>2
    <3> QED
      BY Zenon, <2>2, <2>a, <3>1, <3>2
  <2> HIDE DEF r
  <2>3. \A i \in DOMAIN r : r[i] \in 1..(n + 1) /\ r[i] \notin K
    BY Zenon, <1>1, <1>4, <1>b, <2>b DEF Queued
  <2>4. \A i, j \in DOMAIN r : r[i] = r[j] => i = j
    BY Zenon, <1>1, <2>b DEF Queued
  <2>5. K \subseteq 1..(n + 1)
    BY Zenon, <1>1, <1>4 DEF Queued
  <2> QED
    BY Zenon, <1>4, <2>2, <2>3, <2>4, <2>5 DEF Queued
<1>7. Queued(queue', pushed', K)
  BY Zenon, <1>2, <1>5, <1>6 DEF q
<1> QED
  BY Zenon, <1>3, <1>7 DEF Inv

\* async: the limit leaves everything as it is, or all events become transfers.
LEMMA InvAsync ==
  ASSUME Inv, Async
  PROVE  Inv'
<1>0. cleanup' = cleanup /\ cleanup = [at |-> "none", left |-> 0, easy |-> 0]
  BY Zenon DEF Async, Between, NoCleanup
<1>1. pushed' = pushed /\ ((queue' = queue /\ pool' = pool) \/ (queue' = <<>> /\ pool' \in StartAll(pool, queue)))
  <2>0. pushed' = pushed
    BY Zenon DEF Async
  <2>1. CASE Cardinality(DOMAIN pool.conns) > Limit /\ skipped' = (queue # <<>>) /\ UNCHANGED <<queue, pool>>
    <3>1. UNCHANGED <<queue, pool>>
      BY Zenon, <2>1
    <3>2. queue' = queue /\ pool' = pool
      BY <3>1
    <3> QED
      BY Zenon, <2>0, <3>2
  <2>2. CASE Cardinality(DOMAIN pool.conns) <= Limit /\ pool' \in StartAll(pool, queue) /\ queue' = <<>> /\ skipped' = FALSE
    BY Zenon, <2>2 DEF Async
  <2> QED
    BY <2>1, <2>2 DEF Async
<1>2. Good(pool) /\ Queued(queue, pushed, Known(pool)) /\ Cleaning(cleanup, pool)
  BY Zenon DEF Inv
<1>a. cleanup.at = "none" /\ cleanup.left \in Nat
  BY <1>0
<1>b. AllHandled(pool)
  BY <1>2, <1>a DEF Cleaning
<1>3. CASE queue' = queue /\ pool' = pool
  BY Zenon, <1>0, <1>1, <1>2, <1>3 DEF Inv
<1>4. CASE queue' = <<>> /\ pool' \in StartAll(pool, queue)
  <2> DEFINE t == pool'
  <2>0. /\ queue \in Seq(Easies) /\ \A i, j \in DOMAIN queue : queue[i] = queue[j] => i = j
        /\ \A i \in DOMAIN queue : queue[i] \notin Known(pool)
    BY Zenon, <1>2 DEF Queued
  <2>1. /\ Good(t) /\ AllHandled(t)
        /\ \A d \in Known(t) : d \in Known(pool) \/ \E i \in DOMAIN queue : d = queue[i]
    BY ZenonT(40), <1>2, <1>4, <1>b, <2>0, BeganAll
  <2>2. Known(t) \subseteq 1..pushed
    <3>1. Known(pool) \subseteq 1..pushed /\ \A i \in DOMAIN queue : queue[i] \in 1..pushed
      BY Zenon, <1>2 DEF Queued
    <3> QED
      BY Zenon, <2>1, <3>1
  <2>a. <<>> \in Seq(Easies) /\ \A i : i \notin DOMAIN <<>>
    <3>1. <<>> \in Seq(Easies) /\ DOMAIN <<>> = 1..0 /\ \A i : i \notin 1..0
      OBVIOUS
    <3> QED
      BY Zenon, <3>1
  <2>3. Queued(<<>>, pushed, Known(t))
    BY Zenon, <1>2, <2>2, <2>a DEF Queued
  <2>4. Cleaning(cleanup, t)
    <3>1. AllHandled(t)
      BY Zenon, <2>1
    <3> HIDE DEF t
    <3> QED
      BY <1>0, <3>1 DEF Cleaning
  <2> QED
    BY Zenon, <1>0, <1>1, <1>4, <2>1, <2>3, <2>4 DEF Inv
<1> QED
  BY Zenon, <1>1, <1>3, <1>4

\* The other steps leave the queue alone, and the events that have become transfers.
LEMMA InvKept ==
  ASSUME Inv, pushed' = pushed, queue' = queue, Good(pool'), Known(pool') = Known(pool),
         Cleaning(cleanup', pool')
  PROVE  Inv'
BY Zenon DEF Inv

\* libcurl keeps what cleanup_conns needs.
LEMMA KeptCleaning ==
  ASSUME NEW c, NEW s, NEW t, Cleaning(c, s), Kept(s, t)
  PROVE  Cleaning(c, t)
<1>1. AllHandled(s) => AllHandled(t)
  BY Zenon DEF Kept, AllHandled
<1>2. c.left <= Len(s.finished) => c.left <= Len(t.finished)
  BY Zenon DEF Kept, Cleaning
<1> QED
  BY Zenon, <1>1, <1>2 DEF Kept, Cleaning

LEMMA InvOnReady ==
  ASSUME Inv, NEW fd, OnReady(fd)
  PROVE  Inv'
<1>1. /\ pushed' = pushed /\ queue' = queue /\ cleanup' = cleanup
      /\ fd \in DOMAIN pool.socks /\ pool.multi[pool.socks[fd]] = "active"
      /\ \E t \in Advance(pool, pool.socks[fd]) : pool' = CheckMultiInfo(t)
  BY Zenon DEF OnReady
<1>2. Good(pool) /\ Cleaning(cleanup, pool)
  BY Zenon DEF Inv
<1>3. pool.socks[fd] \in DOMAIN pool.multi
  BY Zenon, <1>1, <1>2 DEF Good, Sound, Handled
<1>4. PICK t \in Advance(pool, pool.socks[fd]) : pool' = CheckMultiInfo(t)
  BY Zenon, <1>1
<1>5. Kept(pool, t)
  BY Zenon, <1>1, <1>2, <1>3, KeptAdvance
<1>6. Kept(t, CheckMultiInfo(t))
  BY Zenon, <1>5, KeptCheck DEF Kept
<1>7. Kept(pool, pool')
  BY Zenon, <1>4, <1>5, <1>6 DEF Kept
<1>8. Cleaning(cleanup', pool')
  BY Zenon, <1>1, <1>2, <1>7, KeptCleaning
<1> QED
  BY Zenon, <1>1, <1>7, <1>8, InvKept DEF Kept

\* The timer and stop begin the loop over the whole list.
LEMMA InvStart ==
  ASSUME Inv, Timer \/ Stop
  PROVE  Inv'
<1>1. /\ pushed' = pushed /\ queue' = queue /\ pool' = pool
      /\ cleanup = [at |-> "none", left |-> 0, easy |-> 0]
      /\ cleanup' = [at |-> "next", left |-> Len(pool.finished), easy |-> 0]
  BY Zenon DEF Timer, Stop, StartCleanup, Between, NoCleanup
<1>2. Good(pool) /\ Cleaning(cleanup, pool)
  BY Zenon DEF Inv
<1>3. AllHandled(pool)
  BY <1>1, <1>2 DEF Cleaning
<1>4. pool.finished \in Seq(Easies)
  BY Zenon, <1>2 DEF Good, Sound, Listed
<1>5. Cleaning(cleanup', pool)
  <2>1. Len(pool.finished) \in Nat /\ Len(pool.finished) <= Len(pool.finished)
    BY <1>4
  <2>2. cleanup'.at = "next" /\ cleanup'.left = Len(pool.finished) /\ cleanup'.easy = 0
    BY Zenon, <1>1
  <2>3. cleanup' = [at |-> cleanup'.at, left |-> cleanup'.left, easy |-> cleanup'.easy]
    BY Zenon, <1>1, <2>2
  <2>4. cleanup'.at # "removed"
    BY <2>2
  <2> QED
    BY Zenon, <1>3, <2>1, <2>2, <2>3, <2>4 DEF Cleaning
<1> QED
  BY Zenon, <1>1, <1>2, <1>5, InvKept

\* A turn of the loop, up to curl_multi_remove_handle: the transfer is there.
LEMMA InvNext ==
  ASSUME Inv, CleanupNext
  PROVE  Inv'
<1> DEFINE c == cleanup
           e == Head(pool.finished)
           t == RemoveHandle(pool, e)
<1>1. /\ pushed' = pushed /\ queue' = queue /\ c.at = "next" /\ c.left > 0
      /\ \/ pool' = t /\ cleanup' = [at |-> "removed", left |-> c.left - 1, easy |-> e]
         \/ pool' = pool /\ cleanup' = [c EXCEPT !.at = "aborted"]
  BY Zenon DEF CleanupNext
<1>2. Good(pool) /\ Cleaning(c, pool)
  BY Zenon DEF Inv
<1>3. AllHandled(pool) /\ c.left \in Nat /\ c.left <= Len(pool.finished)
      /\ c = [at |-> c.at, left |-> c.left, easy |-> c.easy]
  BY <1>1, <1>2 DEF Cleaning
<1>4. pool.finished \in Seq(Easies)
  BY Zenon, <1>2 DEF Good, Sound, Listed
<1>5. pool.finished # <<>>
  BY <1>1, <1>3, <1>4
<1>6. /\ Good(t) /\ Known(t) = Known(pool) /\ e \in DOMAIN t.conns
      /\ DOMAIN t.multi = DOMAIN t.conns \ {e} /\ t.finished = Tail(pool.finished)
  BY Zenon, <1>2, <1>3, <1>5, HandleRemoved
<1> HIDE DEF t, e
<1>7. CASE pool' = t /\ cleanup' = [at |-> "removed", left |-> c.left - 1, easy |-> e]
  <2> DEFINE d == [at |-> "removed", left |-> c.left - 1, easy |-> e]
  <2>1. d.left \in Nat /\ d.left <= Len(t.finished) /\ d.at = "removed" /\ d.easy = e
        /\ d = [at |-> d.at, left |-> d.left, easy |-> d.easy]
    BY <1>1, <1>3, <1>4, <1>5, <1>6
  <2> HIDE DEF d
  <2>2. Cleaning(d, t)
    BY Zenon, <1>6, <2>1 DEF Cleaning
  <2>3. Cleaning(cleanup', pool')
    BY Zenon, <1>7, <2>2 DEF d
  <2> QED
    BY Zenon, <1>1, <1>6, <1>7, <2>3, InvKept
<1>8. CASE pool' = pool /\ cleanup' = [c EXCEPT !.at = "aborted"]
  <2>1. cleanup' = [at |-> "aborted", left |-> c.left, easy |-> c.easy]
    BY <1>3, <1>8
  <2>2. Cleaning(cleanup', pool)
    BY <1>3, <2>1 DEF Cleaning
  <2> QED
    BY Zenon, <1>1, <1>2, <1>8, <2>2, InvKept
<1> QED
  BY Zenon, <1>1, <1>7, <1>8

\* A callback of libcurl in the middle of the loop.
LEMMA InvTimer ==
  ASSUME Inv, CleanupTimer
  PROVE  Inv'
<1>1. pushed' = pushed /\ queue' = queue /\ cleanup' = cleanup /\ pool' \in MultiTimer(pool)
  BY Zenon DEF CleanupTimer
<1>2. Good(pool) /\ Cleaning(cleanup, pool)
  BY Zenon DEF Inv
<1>3. Kept(pool, pool')
  <2>1. Kept(pool, pool)
    BY Zenon, <1>2 DEF Kept
  <2> QED
    BY Zenon, <1>1, <1>2, <2>1, KeptAction DEF MultiTimer
<1>4. Cleaning(cleanup', pool')
  BY Zenon, <1>1, <1>2, <1>3, KeptCleaning
<1> QED
  BY Zenon, <1>1, <1>3, <1>4, InvKept DEF Kept

\* The rest of a turn: the transfer is freed.
LEMMA InvFree ==
  ASSUME Inv, CleanupFree
  PROVE  Inv'
<1> DEFINE e == cleanup.easy
           t == [RemoveFds(CallCleanFn(pool, {e}), e) EXCEPT !.conns = Without(@, {e})]
<1>1. /\ pushed' = pushed /\ queue' = queue /\ cleanup.at = "removed" /\ pool' = t
      /\ cleanup' = [cleanup EXCEPT !.at = "next", !.easy = 0]
  BY Zenon DEF CleanupFree
<1>2. Good(pool) /\ Cleaning(cleanup, pool)
  BY Zenon DEF Inv
<1>3. /\ e \in DOMAIN pool.conns /\ DOMAIN pool.multi = DOMAIN pool.conns \ {e}
      /\ cleanup.left \in Nat /\ cleanup.left <= Len(pool.finished)
      /\ cleanup = [at |-> cleanup.at, left |-> cleanup.left, easy |-> cleanup.easy]
  BY Zenon, <1>1, <1>2 DEF Cleaning
<1>4. Good(t) /\ Known(t) = Known(pool) /\ AllHandled(t) /\ t.finished = pool.finished
  BY Zenon, <1>2, <1>3, ConnFreed
<1> HIDE DEF e, t
<1>5. cleanup' = [at |-> "next", left |-> cleanup.left, easy |-> 0]
  BY <1>1, <1>3
<1>6. Cleaning(cleanup', t)
  BY <1>3, <1>4, <1>5 DEF Cleaning
<1> QED
  BY Zenon, <1>1, <1>4, <1>6, InvKept

\* The end of the loop.
LEMMA InvDone ==
  ASSUME Inv, CleanupDone
  PROVE  Inv'
<1> DEFINE t == ClearFinished(pool)
<1>1. /\ pushed' = pushed /\ queue' = queue /\ cleanup.at = "next"
      /\ cleanup' = [at |-> "none", left |-> 0, easy |-> 0]
      /\ pool' \in MultiSocketAction(t) \/ pool' = t
  BY Zenon DEF CleanupDone, NoCleanup
<1>2. Good(pool) /\ Cleaning(cleanup, pool)
  BY Zenon DEF Inv
<1>3. AllHandled(pool)
  BY <1>1, <1>2 DEF Cleaning
<1>4. Good(t) /\ Known(t) = Known(pool) /\ AllHandled(t)
  BY Zenon, <1>2, <1>3, FinishedCleared
<1> HIDE DEF t
<1>5. Good(pool') /\ Known(pool') = Known(pool) /\ AllHandled(pool')
  BY Zenon, <1>1, <1>4, KeptAction DEF Kept, AllHandled
<1>6. Cleaning(cleanup', pool')
  BY <1>1, <1>5 DEF Cleaning
<1> QED
  BY Zenon, <1>1, <1>5, <1>6, InvKept

LEMMA InvStep == Inv /\ [Next]_vars => Inv'
<1> SUFFICES ASSUME Inv, [Next]_vars PROVE Inv'
  BY Zenon
<1>1. CASE UNCHANGED vars
  BY Zenon, <1>1, InvKept DEF vars, Inv
<1>2. CASE Next
  BY Zenon, <1>2, InvPush, InvAsync, InvOnReady, InvStart, InvNext, InvTimer, InvFree, InvDone
     DEF Next, CleanupStep
<1> QED
  BY Zenon, <1>1, <1>2

-----------------------------------------------------------------------------
(* What it says.                                                            *)

LEMMA NoneAdded ==
  ASSUME NEW S, \A x : x \notin S
  PROVE  Cardinality(S) = 0
<1>1. S = {}
  BY Zenon
<1> QED
  BY Zenon, <1>1, FS_EmptySet

LEMMA Single ==
  ASSUME NEW S, NEW a \in S, \A x \in S : x = a
  PROVE  Cardinality(S) = 1
<1>1. S = {a}
  BY Zenon
<1>2. Cardinality({a}) = 1
  BY Zenon, FS_Singleton
<1> QED
  BY Zenon, <1>1, <1>2

LEMMA InvMeans == Inv => TransfersTracked
<1> SUFFICES ASSUME Inv PROVE TransfersTracked
  BY Zenon
<1> DEFINE C == pool.conns N == pool.finished M == pool.multi K == pool.socks F == pool.fds L == pool.cleaned
<1>1. /\ Owned(C, K, F) /\ Listed(N, M) /\ pool.crashed = FALSE
      /\ Freed(C, L) /\ DOMAIN C \subseteq Easies
  BY Zenon DEF Inv, Good, Sound
<1>a. DOMAIN M = DOMAIN C \ Removed
  BY Zenon DEF Inv, Cleaning, AllHandled, Removed
<1>2. Queued(queue, pushed, Known(pool))
  BY Zenon DEF Inv
<1>3. \A e : e \in Known(pool) <=> e \in Easies /\ (e \in DOMAIN C \/ L[e] # 0)
  BY Zenon DEF Known
<1> HIDE DEF C, N, M, K, F, L
<1>4. /\ \A fd \in DOMAIN K : fd \in C[K[fd]]
      /\ \A e \in DOMAIN C : C[e] \subseteq DOMAIN F
  BY Zenon, <1>1 DEF Owned
<1>5. ASSUME NEW fd \in DOMAIN F PROVE Cardinality({e \in DOMAIN C : fd \in C[e]}) = 1
  <2>1. PICK e \in DOMAIN C : fd \in C[e]
    BY Zenon, <1>1, <1>5 DEF Owned
  <2> DEFINE S == {d \in DOMAIN C : fd \in C[d]}
  <2>2. e \in S /\ \A x \in S : x = e
    BY Zenon, <1>1, <2>1 DEF Owned
  <2> HIDE DEF S
  <2>3. Cardinality(S) = 1
    BY Zenon, <2>2, Single
  <2> QED
    BY Zenon, <2>3 DEF S
<1>6. ASSUME NEW e \in Easies
      PROVE  Cardinality({i \in DOMAIN N : N[i] = e}) = IF e \in DOMAIN M /\ M[e] = "told" THEN 1 ELSE 0
  <2> DEFINE S == {i \in DOMAIN N : N[i] = e}
  <2>1. CASE \E i \in DOMAIN N : N[i] = e
    <3>1. PICK i \in DOMAIN N : N[i] = e
      BY Zenon, <2>1
    <3>2. i \in S /\ \A x \in S : x = i
      BY Zenon, <1>1, <3>1 DEF Listed
    <3> HIDE DEF S
    <3>3. Cardinality(S) = 1
      BY Zenon, <3>2, Single
    <3>4. e \in DOMAIN M /\ M[e] = "told"
      BY Zenon, <1>1, <2>1 DEF Listed
    <3> QED
      BY Zenon, <3>3, <3>4 DEF S
  <2>2. CASE ~\E i \in DOMAIN N : N[i] = e
    <3>2. \A x : x \notin S
      BY Zenon, <2>2
    <3> HIDE DEF S
    <3>3. Cardinality(S) = 0
      BY Zenon, <3>2, NoneAdded
    <3>4. ~(e \in DOMAIN M /\ M[e] = "told")
      BY Zenon, <1>1, <2>2 DEF Listed
    <3> QED
      BY Zenon, <3>3, <3>4 DEF S
  <2> QED
    BY Zenon, <2>1, <2>2
<1>7. ASSUME NEW e \in 1..pushed
      PROVE  L[e] + Cardinality({e} \cap DOMAIN C) + Cardinality({i \in DOMAIN queue : queue[i] = e}) <= 1
  <2> DEFINE S == {i \in DOMAIN queue : queue[i] = e}
             T == {e} \cap DOMAIN C
  <2>0. e \in Easies
    BY <1>2, <1>7, Bounds DEF Queued, Easies
  <2>a. L[e] \in Nat /\ L[e] <= 1
    BY <1>1, <2>0 DEF Freed
  <2>1. e \in DOMAIN C => L[e] = 0 /\ Cardinality(T) = 1
    <3>1. ASSUME e \in DOMAIN C PROVE L[e] = 0 /\ e \in T /\ \A x \in T : x = e
      BY Zenon, <1>1, <3>1 DEF Freed
    <3> HIDE DEF T
    <3> QED
      BY Zenon, <3>1, Single
  <2>2. e \notin DOMAIN C => Cardinality(T) = 0
    <3>1. ASSUME e \notin DOMAIN C PROVE \A x : x \notin T
      BY Zenon, <3>1
    <3> HIDE DEF T
    <3> QED
      BY Zenon, <3>1, NoneAdded
  <2>3. (\E i \in DOMAIN queue : queue[i] = e) => Cardinality(S) = 1 /\ e \notin DOMAIN C /\ L[e] = 0
    <3> SUFFICES ASSUME NEW i \in DOMAIN queue, queue[i] = e
                 PROVE  Cardinality(S) = 1 /\ e \notin DOMAIN C /\ L[e] = 0
      BY Zenon
    <3>1. i \in S /\ \A x \in S : x = i
      BY Zenon, <1>2 DEF Queued
    <3>2. e \notin Known(pool)
      BY Zenon, <1>2 DEF Queued
    <3> HIDE DEF S
    <3> QED
      BY Zenon, <1>3, <2>0, <3>1, <3>2, Single
  <2>4. ~(\E i \in DOMAIN queue : queue[i] = e) => Cardinality(S) = 0
    <3>1. ASSUME ~(\E i \in DOMAIN queue : queue[i] = e) PROVE \A x : x \notin S
      BY Zenon, <3>1
    <3> HIDE DEF S
    <3> QED
      BY Zenon, <3>1, NoneAdded
  <2> HIDE DEF S, T
  <2>5. L[e] + Cardinality(T) + Cardinality(S) <= 1
    <3> DEFINE q == \E i \in DOMAIN queue : queue[i] = e
    <3> HIDE DEF q
    <3>1. (q => Cardinality(S) = 1 /\ e \notin DOMAIN C /\ L[e] = 0) /\ (~q => Cardinality(S) = 0)
      BY Zenon, <2>3, <2>4 DEF q
    <3> QED
      BY <2>a, <2>1, <2>2, <3>1
  <2> QED
    BY Zenon, <2>5 DEF S, T
<1>8. pool.crashed = FALSE /\ DOMAIN M = DOMAIN C \ Removed
  BY Zenon, <1>1, <1>a
<1> QED
  BY Zenon, <1>4, <1>5, <1>6, <1>7, <1>8 DEF TransfersTracked, C, N, M, K, F, L

\* Whatever libcurl does, also from within cleanup_conns, no CHECK of its
\* callbacks fails and no fd is missing; each fd that is watched has one
\* transfer, each transfer that is reported is in finished_conns_ once unless
\* clear() dropped it, and an event is in the queue, a transfer, or freed once
\* by its clean_fn.
THEOREM TransfersAreTracked == Spec => []TransfersTracked
BY InvInit, InvStep, InvMeans, PTL DEF Spec
=============================================================================
