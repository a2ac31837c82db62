----------------------------- MODULE StreamCalls -----------------------------
(***************************************************************************)
(* A stream function at work: worker threads call one closure with any     *)
(* events in any order, while the clock moves and, where the function has  *)
(* one, its periodic task runs.  "calls" records, in the order of the      *)
(* critical sections, the event of each call, the time and what the call   *)
(* returned, so that what the closure returns can be compared with what    *)
(* the sequence of events calls for.                                       *)
(*                                                                         *)
(* A closure that works under its mutex takes one step per call.  rate,    *)
(* ddt, percentiles and stable_metric do not hold one lock throughout, and *)
(* take several.                                                           *)
(***************************************************************************)
EXTENDS LockedStreams

CONSTANTS Kinds,     \* the stream functions to call
          Threads,   \* executor threads
          N,         \* size of event windows, limits
          DT,        \* length of time windows
          Ttl,       \* k_default_ttl
          LastTime,  \* bound: event times and the clock
          MaxCalls,  \* bound: number of calls of a function that takes one step
          MaxSteps   \* bound: number of calls of one whose calls interleave

ASSUME StreamAssumption ==
  /\ N \in Nat \ {0} /\ DT \in Nat \ {0} /\ Ttl \in Nat /\ LastTime \in Nat
  /\ MaxCalls \in Nat /\ MaxSteps \in Nat /\ IsFiniteSet(Threads)

VARIABLES kind,     \* the stream function
          st,       \* the closure's state
          calls,    \* history of the calls
          unix,     \* g_core->sched().unix_time()
          loc       \* per thread, where it is in the closure, and its locals

vars == <<kind, st, calls, unix, loc>>

Locked == {"by", "coalesce", "project", "moving_event", "fixed_event", "moving_time",
           "fixed_time", "stable", "throttle", "ratio", "stable_event", "counter"}
Clocked == {"coalesce", "project", "ratio"}

Idle == [at |-> "idle"]

InitState(k) ==
  CASE k = "by" -> <<>>
    [] k = "coalesce" -> {}
    [] k \in {"project", "ratio"} -> ProjectInit(2)
    [] k \in {"moving_event", "fixed_event", "stable_event"} -> <<>>
    [] k = "moving_time" -> MovingTimeInit
    [] k = "fixed_time" -> FixedTimeInit
    [] k = "stable" -> StableInit
    [] k = "throttle" -> ThrottleInit
    [] k = "counter" -> 0
    [] k = "targets" -> [pagerduty |-> <<>>, email |-> <<>>, sent |-> <<>>]
    [] k = "stable_metric" -> [stable |-> StableInit, state_ok |-> TRUE]
    [] k = "rate" -> [rate |-> 0, reported |-> 0]
    [] k = "ddt" -> [metric |-> 0, time |-> 0, initialized |-> FALSE]
    [] k = "percentiles" -> [samples |-> [i \in 0..(N - 1) |-> 0], n |-> 0, initialized |-> FALSE,
                             event |-> NoEvent, reports |-> <<>>, exposed |-> FALSE]

Times == 0..LastTime

\* The events a function tells apart.
EventsOf(k) ==
  CASE k = "by" -> [host : {"a", "b"}, service : {"s", "t"}, state : {"ok", "critical"}]
    [] k = "coalesce" -> [host : {"a", "b"}, state : {"critical", "expired"}, time : 0..1]
    [] k = "project" -> [service : {"s", "t", "u"}, time : 0..1]
    [] k = "ratio" -> [service : {"s", "t"}, time : 0..1, metric_d : {0, 2}]
    [] k \in {"moving_event", "fixed_event"} -> [time : 0..1]
    [] k = "stable_event" -> [state : {"", "ok", "critical"}]
    [] k \in {"moving_time", "fixed_time"} -> [time : Times] \cup [host : {"a"}]
    [] k = "stable" -> [state : {"", "ok"}, time : Times]
    [] k = "throttle" -> [time : Times]
    [] k = "counter" -> [metric_f : {0, 5}] \cup [host : {"a"}]
    [] k = "targets" -> [host : {"a", "b"}, state : {"ok", "critical", "expired"}]
    [] k = "stable_metric" -> [metric_d : 0..2, time : 0..2]
    [] k = "rate" -> [metric_d : 1..2]
    [] k = "ddt" -> [metric_d : {0, 6}, time : 0..2]
    [] k = "percentiles" -> [metric_d : 1..2]

Init ==
  /\ kind \in Kinds
  /\ st = InitState(kind)
  /\ calls = <<>> /\ unix = 0
  /\ loc = [t \in Threads |-> Idle]

\* Calls begun: every event carries the number of its call.
Begun == Len(calls) + Cardinality({t \in Threads : loc[t] # Idle})

NewEvents == {Put(e, "id", Begun + 1) : e \in EventsOf(kind)}

Record(e, out) == calls' = Append(calls, [e |-> e, unix |-> unix, out |-> out])

\* The clock moves; the scheduler's periodic tasks are TimerXxx below.
Tick ==
  /\ kind \in Clocked
  /\ unix < LastTime
  /\ unix' = unix + 1
  /\ UNCHANGED <<kind, st, calls, loc>>

-----------------------------------------------------------------------------
(* Functions that hold their mutex throughout.                              *)

Apply(k, s, e) ==
  CASE k = "by" -> ByChangedState(<<"host", "service">>, s, e, "ok")
    [] k = "coalesce" -> Coalesce(s, e, unix, Ttl)
    [] k = "project" ->
         Project(s, e, {i \in 1..2 : <<"s", "t">>[i] = Get(e, "service")}, unix, Ttl)
    [] k = "ratio" -> Ratio(5, s, e, <<"s", "t">>, unix, Ttl, 1)
    [] k = "moving_event" -> MovingEventWindow(N, s, e)
    [] k = "fixed_event" -> FixedEventWindow(N, s, e)
    [] k = "stable_event" -> StableEventStream(N, s, e)
    [] k = "moving_time" -> MovingTimeWindow(DT, s, e)
    [] k = "fixed_time" -> FixedTimeWindow(DT, s, e)
    [] k = "stable" -> Stable(DT, s, e)
    [] k = "throttle" -> Throttle(1, DT, s, e)
    [] k = "counter" -> Counter(s, e)

Call ==
  /\ kind \in Locked
  /\ Len(calls) < MaxCalls
  /\ \E e \in NewEvents :
       LET r == Apply(kind, st, e) IN st' = r.st /\ Record(e, r.out)
  /\ UNCHANGED <<kind, unix, loc>>

-----------------------------------------------------------------------------
(* Functions whose calls interleave.                                        *)

Enter(t, k, at) ==
  /\ kind = k /\ loc[t] = Idle /\ Begun < MaxSteps
  /\ \E e \in NewEvents : loc' = [loc EXCEPT ![t] = [at |-> at, e |-> e]]
  /\ UNCHANGED <<kind, st, calls, unix>>

At(t, at) == loc[t].at = at

Goto(t, at) == loc' = [loc EXCEPT ![t].at = at]

Leave(t, out) == loc' = [loc EXCEPT ![t] = Idle] /\ Record(loc[t].e, out)

\* rate: load, then compare and exchange, until no other thread got between.
RateLoad(t) ==
  /\ At(t, "load")
  /\ loc' = [loc EXCEPT ![t] = [at |-> "cas", e |-> @.e, expected |-> st.rate]]
  /\ UNCHANGED <<kind, st, calls, unix>>

\* Mutant of RateCas: the sum is stored without a comparison.
RateCas_Store(t) ==
  /\ At(t, "cas")
  /\ st' = [st EXCEPT !.rate = loc[t].expected + Metric(loc[t].e)]
  /\ Leave(t, <<>>)
  /\ UNCHANGED <<kind, unix>>

RateCas(t) ==
  /\ At(t, "cas")
  /\ IF st.rate = loc[t].expected
     THEN st' = [st EXCEPT !.rate = loc[t].expected + Metric(loc[t].e)] /\ Leave(t, <<>>)
     ELSE st' = st /\ calls' = calls /\ loc' = [loc EXCEPT ![t] = [at |-> "load", e |-> @.e]]
  /\ UNCHANGED <<kind, unix>>

\* The periodic task reports rate->exchange(0) / interval.
TimerRate ==
  /\ kind = "rate" /\ st.rate # 0
  /\ st' = [rate |-> 0, reported |-> st.reported + st.rate]
  /\ UNCHANGED <<kind, calls, unix, loc>>

\* ddt: "lock_guard guard(std::mutex)" declares a function, nothing is locked.
\* Reading the previous event, writing the current one and deciding are steps.
\* "alone": no other thread is between its first read and its last.
Alone(t) == \A u \in Threads \ {t} : loc[u] = Idle \/ At(u, "metric")

DdtReadMetric(t) ==
  /\ At(t, "metric")
  /\ loc' = [loc EXCEPT ![t] = [at |-> "time", e |-> @.e, metric |-> st.metric,
                                alone |-> Alone(t), after |-> Len(calls)]]
  /\ UNCHANGED <<kind, st, calls, unix>>

DdtReadTime(t) ==
  /\ At(t, "time")
  /\ loc' = [loc EXCEPT ![t] = [at |-> "write", e |-> @.e, metric |-> @.metric,
                                alone |-> @.alone, after |-> @.after, time |-> st.time]]
  /\ UNCHANGED <<kind, st, calls, unix>>

DdtWriteMetric(t) ==
  /\ At(t, "write")
  /\ st' = [st EXCEPT !.metric = Metric(loc[t].e)]
  /\ Goto(t, "write_time")
  /\ UNCHANGED <<kind, calls, unix>>

DdtWriteTime(t) ==
  /\ At(t, "write_time")
  /\ st' = [st EXCEPT !.time = Get(loc[t].e, "time")]
  /\ Goto(t, "decide")
  /\ UNCHANGED <<kind, calls, unix>>

\* The metric stored above is read again, unless the compiler kept it.  The
\* quotient is left as a pair.
DdtDecide(t) ==
  /\ At(t, "decide")
  /\ LET l == loc[t]
         dt == Get(l.e, "time") - l.time
         Return(out) ==
           calls' = Append(calls, [e |-> l.e, unix |-> unix, out |-> out,
                                   alone |-> l.alone /\ Alone(t) /\ l.after = Len(calls)])
     IN  IF ~st.initialized \/ dt = 0
         THEN Return(<<>>)
         ELSE \E metric \in {Metric(l.e), st.metric} : Return(<<metric - l.metric, dt>>)
  /\ st' = [st EXCEPT !.initialized = TRUE]
  /\ loc' = [loc EXCEPT ![t] = Idle]
  /\ UNCHANGED <<kind, unix>>

\* percentiles: add_sample takes an index and stores under the mutex.  "exposed"
\* is history: the reservoir was full, or a report came between the index of a
\* sample and its store.
SampleIndex(t) ==
  /\ At(t, "index")
  /\ loc' = [loc EXCEPT ![t] = [at |-> IF st.n < N THEN "store" ELSE "draw", e |-> @.e, idx |-> st.n,
                                full |-> st.n >= N]]
  /\ st' = [st EXCEPT !.n = @ + 1, !.exposed = @ \/ st.n >= N]
  /\ UNCHANGED <<kind, calls, unix>>

\* When the reservoir is full a random number up to n_ says which sample is
\* replaced, if any.
SampleDraw(t) ==
  /\ At(t, "draw")
  /\ \E i \in 0..st.n :
       loc' = [loc EXCEPT ![t].at = IF i < N THEN "store" ELSE "recount", ![t].idx = i]
  /\ UNCHANGED <<kind, st, calls, unix>>

SampleStore(t) ==
  /\ At(t, "store")
  /\ st' = [st EXCEPT !.samples[loc[t].idx] = loc[t].e.id]
  /\ Goto(t, IF loc[t].full THEN "recount" ELSE "exchange")
  /\ UNCHANGED <<kind, calls, unix>>

\* It is counted again.
SampleRecount(t) ==
  /\ At(t, "recount")
  /\ st' = [st EXCEPT !.n = @ + 1]
  /\ Goto(t, "exchange")
  /\ UNCHANGED <<kind, calls, unix>>

SampleExchange(t) ==
  /\ At(t, "exchange")
  /\ st' = [st EXCEPT !.initialized = TRUE]
  /\ IF st.initialized THEN Leave(t, <<>>) ELSE Goto(t, "event") /\ UNCHANGED calls
  /\ UNCHANGED <<kind, unix>>

SampleEvent(t) ==
  /\ At(t, "event")
  /\ st' = [st EXCEPT !.event = loc[t].e]
  /\ Leave(t, <<>>)
  /\ UNCHANGED <<kind, unix>>

\* push_percentiles_: the samples are taken and the reservoir is emptied.
TimerPercentiles ==
  /\ kind = "percentiles" /\ st.initialized
  /\ Len(st.reports) < 2   \* bound: number of reports
  /\ st' = [st EXCEPT !.samples = [i \in DOMAIN @ |-> 0], !.n = 0,
                      !.reports = Append(@, st.samples),
                      !.exposed = @ \/ \E t \in Threads : At(t, "store")]
  /\ UNCHANGED <<kind, calls, unix, loc>>

\* stable_metric with trigger above(1) and cancel under(1): the label, the
\* critical section of stable, and the store of state_ok are steps.
MetricLabel(t) ==
  /\ At(t, "label")
  /\ LET e == loc[t].e
     IN  loc' = [loc EXCEPT ![t] =
                   [at |-> "stable",
                    e |-> StableMetricLabel(Above(e, 1), Under(e, 1), st.state_ok, e)]]
  /\ UNCHANGED <<kind, st, calls, unix>>

MetricStable(t) ==
  /\ At(t, "stable")
  /\ LET r == Stable(DT, st.stable, loc[t].e)
     IN  /\ st' = [st EXCEPT !.stable = r.st]
         /\ loc' = [loc EXCEPT ![t] = [at |-> "store_ok", e |-> @.e, out |-> r.out]]
  /\ UNCHANGED <<kind, calls, unix>>

MetricStore(t) ==
  /\ At(t, "store_ok")
  /\ st' = [st EXCEPT !.state_ok = SetStateOk(@, loc[t].out)]
  /\ Leave(t, loc[t].out)
  /\ UNCHANGED <<kind, unix>>

\* create_targets: pagerduty, email and the index in turn.  changed_state
\* releases its mutex before the message is handed on.
TargetChanged(t, target, send, next) ==
  /\ At(t, target)
  /\ LET e == loc[t].e
         r == ByChangedState(<<"host", "service">>, st[target], e, "ok")
     IN  IF NoExpire(e)
         THEN st' = [st EXCEPT ![target] = r.st] /\ Goto(t, IF r.out = <<>> THEN next ELSE send)
         ELSE st' = st /\ Goto(t, next)
  /\ UNCHANGED <<kind, calls, unix>>

TargetSend(t, target, send, next) ==
  /\ At(t, send)
  /\ st' = [st EXCEPT !.sent = Append(@, <<target, loc[t].e>>)]
  /\ Goto(t, next)
  /\ UNCHANGED <<kind, calls, unix>>

TargetIndex(t) ==
  /\ At(t, "to_index")
  /\ st' = IF Expired(loc[t].e, unix, Ttl) THEN st
           ELSE [st EXCEPT !.sent = Append(@, <<"index", loc[t].e>>)]
  /\ Leave(t, <<>>)
  /\ UNCHANGED <<kind, unix>>

Interleaved(t) ==
  \/ Enter(t, "rate", "load") \/ RateLoad(t) \/ RateCas(t)
  \/ Enter(t, "ddt", "metric") \/ DdtReadMetric(t) \/ DdtReadTime(t)
  \/ DdtWriteMetric(t) \/ DdtWriteTime(t) \/ DdtDecide(t)
  \/ Enter(t, "percentiles", "index") \/ SampleIndex(t) \/ SampleDraw(t)
  \/ SampleStore(t) \/ SampleRecount(t) \/ SampleExchange(t) \/ SampleEvent(t)
  \/ Enter(t, "stable_metric", "label") \/ MetricLabel(t) \/ MetricStable(t) \/ MetricStore(t)
  \/ Enter(t, "targets", "pagerduty") \/ TargetChanged(t, "pagerduty", "alert", "email")
  \/ TargetSend(t, "pagerduty", "alert", "email") \/ TargetChanged(t, "email", "mail", "to_index")
  \/ TargetSend(t, "email", "mail", "to_index") \/ TargetIndex(t)

Finished ==
  /\ Len(calls) = IF kind \in Locked THEN MaxCalls ELSE MaxSteps
  /\ UNCHANGED vars

Next ==
  \/ Call \/ Tick \/ TimerRate \/ TimerPercentiles \/ Finished
  \/ \E t \in Threads : Interleaved(t)

Spec == Init /\ [][Next]_vars

-----------------------------------------------------------------------------
(* What the functions promise, in terms of the sequence of calls.           *)

K == Len(calls)
Input(i) == calls[i].e
Inputs == [i \in 1..K |-> Input(i)]
Outs == [i \in 1..K |-> calls[i].out]
LastOut == calls[K].out[Len(calls[K].out)]
Timed == {Input(i) : i \in {j \in 1..K : Has(Input(j), "time")}}
MaxOf(times) == CHOOSE t \in times : \A u \in times : u <= t

\* The state of the closures and the locals of the threads are what the code
\* keeps: a call is either recorded or one of the threads is in it.
TypeOK ==
  /\ kind \in Kinds \cup {"pure"}
  /\ unix \in 0..LastTime
  /\ Begun <= IF kind \in Locked THEN MaxCalls ELSE MaxSteps
  /\ \A i \in 1..K : \A j \in 1..K : Input(i).id = Input(j).id => i = j
  /\ \A t \in Threads : loc[t] # Idle => \A i \in 1..K : Input(i).id # loc[t].e.id

\* moving_event_window folds the last N events, whatever came before, and
\* fixed_event_window cuts the events into consecutive windows of N, of which
\* it holds back the last one until it is complete.
EventWindows ==
  /\ kind = "moving_event" /\ K > 0 =>
       calls[K].out = <<SubSeq(Inputs, IF K > N THEN K - N + 1 ELSE 1, K)>>
  /\ kind = "fixed_event" =>
       LET windows == Flattened(Outs)
       IN  /\ Flattened(windows) \o st = Inputs
           /\ \A i \in DOMAIN windows : Len(windows[i]) = N
           /\ Len(st) < N

\* moving_time_window folds exactly the events less than DT older than the
\* newest one, in whatever order they arrived.
RecentWindow ==
  kind = "moving_time" /\ K > 0 /\ Has(Input(K), "time") =>
    LET newest == MaxOf({e.time : e \in Timed})
    IN  calls[K].out = <<{e \in Timed : newest < DT \/ e.time > newest - DT}>>

\* fixed_time_window never mixes two intervals in a window, never goes back to
\* an earlier interval, and passes on every event once, save those older than
\* the window that is being filled.
IntervalWindows ==
  kind = "fixed_time" =>
    LET windows == Flattened(Outs)
        Interval(e) == e.time \div DT
    IN  /\ \A i \in DOMAIN windows : \A e, f \in windows[i] : Interval(e) = Interval(f)
        /\ \A i, j \in DOMAIN windows : i < j =>
             \A e \in windows[i], f \in windows[j] : Interval(e) < Interval(f)
        /\ \A e \in Timed : \/ e \in st.pq
                            \/ \E i \in DOMAIN windows : e \in windows[i]
                            \/ e.time < st.start
        /\ \A e \in st.pq : e.time >= st.start

\* stable forwards an event only at the end of a run of calls that all had its
\* state and began DT before it, and forwards no event twice.  (The empty state
\* is excepted: it is the one the closure starts in, with a run that began at 0.)
StableRuns ==
  kind = "stable" =>
    /\ \A i \in 1..K : \A j \in DOMAIN calls[i].out :
         calls[i].out[j].state # "" =>
           \E b \in 1..i : /\ \A m \in b..i : Input(m).state = calls[i].out[j].state
                           /\ Input(b).time + DT <= Input(i).time
    /\ \A i, j \in DOMAIN Flattened(Outs) :
         i < j => Flattened(Outs)[i].id < Flattened(Outs)[j].id

\* throttle(1, DT): of any three events forwarded in a row two are more than DT
\* apart, whatever the order of the events' times.
ThrottleLimit ==
  kind = "throttle" =>
    LET f == Flattened(Outs)
    IN  \A i \in 1..(Len(f) - 2) : \E j, k \in i..(i + 2) : f[k].time - f[j].time > DT

\* changed_state forwards an event exactly when its state differs from that of
\* the previous event of the same host and service, "ok" before the first.
ChangedPerKey ==
  kind = "by" =>
    \A i \in 1..K :
      LET same == {j \in 1..(i - 1) : /\ Input(j).host = Input(i).host
                                      /\ Input(j).service = Input(i).service}
          prev == IF same = {} THEN "ok" ELSE Input(MaxOf(same)).state
      IN  calls[i].out = IF Input(i).state = prev THEN <<>> ELSE <<Input(i)>>

Latest == {Input(i) : i \in {j \in 1..K : \A l \in (j + 1)..K : Input(l).host # Input(j).host}}

\* coalesce passes the last event of every host that has not expired, and an
\* event that expires is passed on once, on its own.
CoalesceLatest ==
  kind = "coalesce" /\ K > 0 =>
    LET out == calls[K].out
        live == {e \in Latest : ~Expired(e, calls[K].unix, Ttl)}
        gone == UNION {{g \in Range(calls[i].out) : \E e \in g : Expired(e, calls[i].unix, Ttl)}
                       : i \in 1..K}
    IN  /\ live # {} => out[Len(out)] = live
        /\ \A e \in Latest \ live : \E g \in gone : e \in g
        /\ \A g, h \in gone : g # h => g \cap h = {}

\* max_critical_hosts: the state is critical when the last events of more than N
\* hosts are critical and have not expired, and not when those of fewer are.  With
\* N of them it is "more than n" in the documentation and enough in the code.
CriticalHosts ==
  kind = "coalesce" /\ K > 0 =>
    LET live == {e \in Latest : ~Expired(e, calls[K].unix, Ttl)}
        hosts == {e.host : e \in {x \in live : x.state = "critical"}}
    IN  live # {} /\ Cardinality(hosts) # N =>
          (MaxCriticalState(N, LastOut) = "critical") = (Cardinality(hosts) > N)

LatestOf(service, k) ==
  LET at == {i \in 1..k : Input(i).service = service}
  IN  IF at = {} THEN <<>> ELSE <<Input(MaxOf(at))>>

\* project passes, in the order of the predicates, the last event of each,
\* without those that have expired; the event that has just come counts
\* whether it has or not.
ProjectLatest ==
  kind = "project" /\ K > 0 /\ Input(K).service # "u" =>
    LastOut =
      SelectSeq(LatestOf("s", K) \o LatestOf("t", K),
                LAMBDA e : e = Input(K) \/ ~Expired(e, calls[K].unix, Ttl))

\* ratio divides the last metric of one service by the last of the other, once
\* both are there, neither older than the interval nor expired.
RatioOfLatest ==
  kind = "ratio" /\ K > 0 =>
    LET both == LatestOf("s", K) \o LatestOf("t", K)
        usable == /\ Len(both) = 2
                  /\ \A i \in 1..2 : both[i] = Input(K) \/ ~Expired(both[i], calls[K].unix, Ttl)
                  /\ both[1].time = both[2].time
    IN  [i \in DOMAIN calls[K].out |-> Metric(calls[K].out[i])]
          = IF ~usable THEN <<>>
            ELSE IF Metric(both[2]) = 0 THEN <<5>>
            ELSE <<Metric(both[1]) \div Metric(both[2])>>

\* stable_event_stream forwards an event exactly when the last N events, itself
\* included, have its state.
StableEvents ==
  kind = "stable_event" /\ K > 0 =>
    (calls[K].out # <<>>) = (K >= N /\ \A i \in (K - N + 1)..K : Input(i).state = Input(K).state)

\* rate: however the threads and the periodic task interleave, every metric is
\* in exactly one report, or still to be reported.
RateConserves ==
  kind = "rate" =>
    SumFunction([i \in 1..K |-> Metric(Input(i))]) = st.reported + st.rate

\* ddt: as long as no two calls overlap, the result is the quotient of the
\* differences between successive events, and only the first event, or one
\* with the time of the last, goes without.
DdtOfSuccessive ==
  kind = "ddt" /\ K > 0 /\ (\A i \in 1..K : calls[i].alone) =>
    IF K = 1 \/ Input(K).time = Input(K - 1).time
    THEN calls[K].out = <<>>
    ELSE calls[K].out = <<Metric(Input(K)) - Metric(Input(K - 1)),
                          Input(K).time - Input(K - 1).time>>

\* percentiles: no sample is in two reports, even when it was given its place
\* before a report and stored after it; and unless the reservoir was full or that
\* happened, every sample is in a report or will be.
SampleReportedOnce ==
  kind = "percentiles" =>
    LET all == Append(st.reports, st.samples)
        where(id) == {p \in (DOMAIN all) \X (0..(N - 1)) : all[p[1]][p[2]] = id}
        unstored == {loc[t].e.id : t \in {u \in Threads : \E a \in {"index", "draw", "store", "recount"} :
                                                             At(u, a)}}
    IN  /\ \A id \in 1..Begun : Cardinality(where(id)) <= 1
        /\ st.exposed \/ \A id \in (1..Begun) \ unstored : Cardinality(where(id)) = 1

\* stable_metric: the first alarm is raised by events that all meet the trigger;
\* an event between cancel and trigger cannot raise it, however the threads
\* interleave.
FirstAlarmTriggered ==
  kind = "stable_metric" =>
    \A i \in 1..K :
      /\ calls[i].out # <<>> /\ calls[i].out[1].state = "critical"
      /\ \A j \in 1..(i - 1) : calls[j].out = <<>> \/ calls[j].out[1].state = "ok"
      => \A m \in DOMAIN calls[i].out : Above(calls[i].out[m], 1)

\* create_targets: whatever the order in which threads queue the messages, once
\* they have a host has had one trigger more than resolves if it is remembered
\* as critical, and as many otherwise; what expires is not reported.
AlertsPaired ==
  kind = "targets" =>
    \A target \in {"pagerduty", "email"}, h \in {"a", "b"} :
      LET key == ByKey(<<"host", "service">>, [host |-> h])
          Sent(state) == Cardinality({i \in DOMAIN st.sent : /\ st.sent[i][1] = target
                                                             /\ st.sent[i][2].host = h
                                                             /\ st.sent[i][2].state = state})
          on_its_way == \E t \in Threads : /\ loc[t] # Idle /\ loc[t].e.host = h
                                           /\ At(t, IF target = "email" THEN "mail" ELSE "alert")
      IN  /\ Sent("expired") = 0
          /\ ~on_its_way =>
               Sent("critical") - Sent("ok")
                 = IF ByState(st[target], key, "ok") = "critical" THEN 1 ELSE 0

\* counter: the events that have a metric are numbered from 1, and come out
\* with that number and no other metric.
CounterNumbers ==
  kind = "counter" =>
    LET numbered == SelectSeq(Flattened(Outs), HasMetric)
    IN  \A i \in DOMAIN numbered : Metric(numbered[i]) = i /\ ~Has(numbered[i], "metric_f")

\* The windows of stream_functions_lock.cpp: each call of a window function
\* passes on what its definition in terms of the whole history of calls says.
Windows == TypeOK /\ EventWindows /\ RecentWindow /\ IntervalWindows

\* The functions that hold back events (stable, throttle, changed_state,
\* stable_metric, create_targets): what they let through is justified by the
\* calls before.
HoldBack ==
  StableRuns /\ ThrottleLimit /\ ChangedPerKey /\ FirstAlarmTriggered /\ AlertsPaired

\* The functions that remember the last event of each host or predicate
\* (coalesce, project) and the folds of rules/common.cpp over what they pass.
LatestPerKey ==
  CoalesceLatest /\ CriticalHosts /\ ProjectLatest /\ RatioOfLatest /\ StableEvents
=============================================================================
