---------------------------- MODULE LockedStreams ----------------------------
(***************************************************************************)
(* The stream functions that remember events (stream_functions_lock.cpp)   *)
(* and the common rules built on them (rules/common.cpp).                  *)
(*                                                                         *)
(* Each returns a closure that updates its state in one critical section:  *)
(* a closure is an operator from its state and an event to the new state   *)
(* and what is passed on.  Where the code passes a vector to a fold,       *)
(* "groups" are the vectors; where it forwards events, "out" are the       *)
(* events.  A priority queue or an unordered map is a set, and so is a     *)
(* vector filled from one: the order of equal elements is not determined.  *)
(***************************************************************************)
EXTENDS Events, TLC

Silent(st) == [st |-> st, out |-> <<>>]
Forward(st, events) == [st |-> st, out |-> events]

\* The elements of a sequence of sequences, in order.
Flattened(seqs) ==
  LET upto[i \in 0..Len(seqs)] == IF i = 0 THEN <<>> ELSE upto[i - 1] \o seqs[i]
  IN  upto[Len(seqs)]

\* Fold the vectors that are not empty: expired events first.
Groups(expired_events, events) ==
  SelectSeq(<<expired_events, events>>, LAMBDA g : g # {})

-----------------------------------------------------------------------------
(* by: one copy of the stream per combination of the values of the keys.    *)
(* Every value is followed by a blank in the key of the map.                *)

ByKey(keys, e) == Flattened([i \in DOMAIN keys |-> <<ValueToStr(e, keys[i]), " ">>])

\* The copy's state for the event: a new copy is initialised on first use.
ByState(by_map, key, initial) == IF key \in DOMAIN by_map THEN by_map[key] ELSE initial

ChangedStateInit(initial) == initial

ChangedState(prev, e) ==
  IF prev = Get(e, "state") THEN Silent(prev) ELSE Forward(Get(e, "state"), <<e>>)

ByChangedState(keys, by_map, e, initial) ==
  IF keys = <<>> THEN Silent(by_map)
  ELSE LET key == ByKey(keys, e)
           r == ChangedState(ByState(by_map, key, ChangedStateInit(initial)), e)
       IN  Forward(Put(by_map, key, r.st), r.out)

-----------------------------------------------------------------------------
(* coalesce: the last event of every host and service.                      *)

CoalesceKey(e) == <<Get(e, "host"), " ", Get(e, "service")>>

Coalesce(events, e, unix, ttl) ==
  LET stored == {s \in events : CoalesceKey(s) # CoalesceKey(e)} \cup {e}
      gone == {s \in stored : Expired(s, unix, ttl)}
  IN  Forward(stored \ gone, Groups(gone, stored \ gone))

(* project: slot i holds the last event of which predicate i is the first   *)
(* to hold; match is the set of the predicates that hold for the event.  A  *)
(* slot without an event is NoEvent.                                        *)

ProjectInit(n) == [i \in 1..n |-> NoEvent]

\* Mutant of Project: the slots are not tested for expiry.
Project_NoExpiry(slots, e, match, unix, ttl) ==
  IF match = {} THEN Silent(slots)
  ELSE LET index == CHOOSE i \in match : \A j \in match : i <= j
           new == [slots EXCEPT ![index] = e]
       IN  Forward(new, <<SelectSeq(new, LAMBDA s : s # NoEvent)>>)

Project(slots, e, match, unix, ttl) ==
  IF match = {} THEN Silent(slots)
  ELSE LET index == CHOOSE i \in match : \A j \in match : i <= j
           filled == {i \in DOMAIN slots : slots[i] # NoEvent} \ {index}
           gone == {i \in filled : Expired(slots[i], unix, ttl)}
           new == [i \in DOMAIN slots |-> IF i = index THEN e
                                          ELSE IF i \in gone THEN NoEvent ELSE slots[i]]
           events == SelectSeq(new, LAMBDA s : s # NoEvent)
           expired_events == SelectSeq([i \in DOMAIN slots |->
                                          IF i \in gone THEN slots[i] ELSE NoEvent],
                                       LAMBDA s : s # NoEvent)
       IN  Forward(new, SelectSeq(<<expired_events, events>>, LAMBDA g : g # <<>>))

-----------------------------------------------------------------------------
(* Windows of events and of time.                                           *)

MovingEventWindow(n, events, e) ==
  LET pushed == Append(events, e)
      kept == IF Len(pushed) = n + 1 THEN Tail(pushed) ELSE pushed
  IN  Forward(kept, <<kept>>)

FixedEventWindow(n, events, e) ==
  LET pushed == Append(events, e)
  IN  IF Len(pushed) = n THEN Forward(<<>>, <<pushed>>) ELSE Silent(pushed)

MovingTimeInit == [pq |-> {}, max |-> 0]

MovingTimeWindow(dt, w, e) ==
  IF ~Has(e, "time") THEN Silent(w)
  ELSE LET max == IF e.time > w.max THEN e.time ELSE w.max
           pushed == w.pq \cup {e}
           pq == IF max < dt THEN pushed ELSE {x \in pushed : x.time > max - dt}
       IN  Forward([pq |-> pq, max |-> max], <<pq>>)

FixedTimeInit == [pq |-> {}, start |-> 0, max |-> 0, started |-> FALSE]

NextInterval(start, dt) == start - (start % dt) + dt

\* Mutant of FixedTimeWindow: events older than the window are kept.
FixedTimeWindow_KeepOld(dt, w, e) ==
  IF ~Has(e, "time") THEN Silent(w)
  ELSE IF ~w.started
  THEN Silent([pq |-> {e}, start |-> e.time, max |-> e.time, started |-> TRUE])
  ELSE LET max == IF e.time > w.max THEN e.time ELSE w.max
           next == NextInterval(w.start, dt)
           pq == w.pq \cup {e}
           flush == {x \in pq : x.time < next}
       IN  IF max < next THEN Silent([w EXCEPT !.pq = pq, !.max = max])
           ELSE Forward([w EXCEPT !.pq = pq \ flush, !.max = max, !.start = next],
                        IF flush = {} THEN <<>> ELSE <<flush>>)

\* At most one interval is flushed per event, and an interval without events
\* is passed over in silence.
FixedTimeWindow(dt, w, e) ==
  IF ~Has(e, "time") THEN Silent(w)
  ELSE IF ~w.started
  THEN Silent([pq |-> {e}, start |-> e.time, max |-> e.time, started |-> TRUE])
  ELSE IF e.time < w.start THEN Silent(w)
  ELSE LET max == IF e.time > w.max THEN e.time ELSE w.max
           next == NextInterval(w.start, dt)
           pq == w.pq \cup {e}
           flush == {x \in pq : x.time < next}
       IN  IF max < next THEN Silent([w EXCEPT !.pq = pq, !.max = max])
           ELSE Forward([w EXCEPT !.pq = pq \ flush, !.max = max, !.start = next],
                        IF flush = {} THEN <<>> ELSE <<flush>>)

-----------------------------------------------------------------------------
(* stable and throttle.                                                     *)

StableInit == [state |-> "", buffer |-> <<>>, start |-> 0]

\* Mutant of Stable: a change of state does not restart the clock.
Stable_KeepStart(dt, s, e) ==
  IF s.state # Get(e, "state")
  THEN Silent([s EXCEPT !.state = Get(e, "state"), !.buffer = <<e>>])
  ELSE IF Get(e, "time") < s.start THEN Silent(s)
  ELSE IF s.start + dt > Get(e, "time") THEN Silent([s EXCEPT !.buffer = Append(@, e)])
  ELSE Forward([s EXCEPT !.buffer = <<>>], Append(s.buffer, e))

Stable(dt, s, e) ==
  IF s.state # Get(e, "state")
  THEN Silent([state |-> Get(e, "state"), buffer |-> <<e>>, start |-> Get(e, "time")])
  ELSE IF Get(e, "time") < s.start THEN Silent(s)
  ELSE IF s.start + dt > Get(e, "time") THEN Silent([s EXCEPT !.buffer = Append(@, e)])
  ELSE Forward([s EXCEPT !.buffer = <<>>], Append(s.buffer, e))

ThrottleInit == [forwarded |-> 0, new_interval |-> 0]

\* new_interval += time + dt: the end of the last interval is added too.
Throttle(n, dt, t, e) ==
  LET r == IF t.new_interval < Get(e, "time")
           THEN [forwarded |-> 0, new_interval |-> t.new_interval + Get(e, "time") + dt]
           ELSE t
  IN  IF r.forwarded < n
      THEN Forward([r EXCEPT !.forwarded = @ + 1], <<e>>)
      ELSE Silent(r)

\* counter: events with a metric are numbered.
Counter(counter, e) ==
  IF ~HasMetric(e) THEN Forward(counter, <<e>>)
  ELSE Forward(counter + 1, <<Put(Clear(e, MetricFields), "metric_sint64", counter + 1)>>)

-----------------------------------------------------------------------------
(* percentiles: the sample a percentile num / den picks among n sorted ones, *)
(* counted from 0.                                                           *)

PercentileIndex(n, num, den) == IF num = den THEN n - 1 ELSE (n * num) \div den

\* What snapshot() returns: every slot, with 0 where no sample was stored.
Snapshot(samples, slots) == samples \o [i \in 1..(slots - Len(samples)) |-> 0]

\* One event per percentile of a snapshot; nothing without slots.
ReservoirToEvents(samples, percentiles, event_base) ==
  IF samples = <<>> THEN <<>>
  ELSE LET sorted == SortSeq(samples, LAMBDA a, b : a < b)
       IN  [i \in DOMAIN percentiles |->
              LET p == percentiles[i]
              IN  Put(Put(event_base, "service", <<Get(event_base, "service"), p>>), "metric_d",
                      sorted[PercentileIndex(Len(samples), p[1], p[2]) + 1])]

-----------------------------------------------------------------------------
(* The common rules.                                                        *)

SetCriticalPredicate(holds, e) == Put(e, "state", IF holds THEN "critical" ELSE "ok")

\* The state stable_metric gives an event: between trigger and cancel the
\* event keeps the alarm up, if it is up.
StableMetricLabel(trigger, cancel, state_ok, e) ==
  SetCriticalPredicate(trigger \/ (~state_ok /\ ~cancel), e)

\* state_ok follows the events that stable lets through.
SetStateOk(state_ok, flush) ==
  IF flush = <<>> THEN state_ok ELSE Get(flush[Len(flush)], "state") = "ok"

Critical(events) == {x \in events : Get(x, "state") = "critical"}

MaxCriticalState(n, events) == IF Cardinality(Critical(events)) >= n THEN "critical" ELSE "ok"

FoldStableEvents(n, events) ==
  IF Len(SelectSeq(events, LAMBDA x : Get(x, "state") = Get(events[1], "state"))) = n
  THEN events[Len(events)] ELSE NoEvent

SameInterval(events, interval) ==
  \A i, j \in DOMAIN events : Get(events[i], "time") - Get(events[j], "time") < interval

FoldRatio(zero_ratio, events, interval) ==
  IF /\ Len(events) = 2
     /\ HasMetric(events[1]) /\ HasMetric(events[2])
     /\ SameInterval(events, interval)
  THEN SetMetric(Put(events[1], "service", <<events[1].service, " / ", events[2].service>>),
                 IF Metric(events[2]) = 0 THEN zero_ratio
                 ELSE Metric(events[1]) \div Metric(events[2]))
  ELSE NoEvent

\* ratio: project on the two services, fold, keep what has a metric.
Ratio(zero_ratio, slots, e, services, unix, ttl, interval) ==
  LET match == {i \in 1..2 : Get(e, "service") = services[i]}
      r == Project(slots, e, match, unix, ttl)
  IN  Forward(r.st, SelectSeq([i \in DOMAIN r.out |-> FoldRatio(zero_ratio, r.out[i], interval)],
                              HasMetric))

\* stable_event_stream: a moving window, folded, that keeps what has a state.
StableEventStream(n, events, e) ==
  LET r == MovingEventWindow(n, events, e)
  IN  Forward(r.st, SelectSeq([i \in DOMAIN r.out |-> FoldStableEvents(n, r.out[i])],
                              LAMBDA x : Has(x, "state")))

NoExpire(e) == Get(e, "state") \in {"ok", "critical"}
=============================================================================
