---------------------------- MODULE HoldBackProofs ----------------------------
(***************************************************************************)
(* Proofs about the stream functions that hold events back (throttle,      *)
(* stable, changed_state, stable_metric and create_targets), for any       *)
(* number of calls, any threads and any times: what they let through is    *)
(* justified by the whole history of their calls.                          *)
(*                                                                         *)
(* The invariant has a part per function, that says what its state         *)
(* remembers of that history: Throttled, Settled and Remembered, which     *)
(* StreamCallsProofs proves, and Alarm and Paired.  These two hold between *)
(* the steps of concurrent calls too, so they also speak of the locals of  *)
(* the threads.                                                            *)
(***************************************************************************)
EXTENDS StreamCallsProofs

-----------------------------------------------------------------------------
(* stable_metric, whose calls interleave.                                   *)

\* stable's buffer holds events of S that all have its state.
Even(S, s) ==
  /\ s = [state |-> s.state, buffer |-> s.buffer, start |-> s.start] /\ s.buffer \in Seq(S)
  /\ \A i \in DOMAIN s.buffer : s.buffer[i].state = s.state

\* Events of S that all have the same state.
Uniform(S, q) == q \in Seq(S) /\ \A i, j \in DOMAIN q : q[i].state = q[j].state

\* stable keeps its buffer so, and what it passes on.
LEMMA EvensOn ==
  ASSUME NEW S, NEW s, Even(S, s), NEW x \in S, Get(x, "state") = x.state
  PROVE  Even(S, Stable(DT, s, x).st) /\ Uniform(S, Stable(DT, s, x).out)
<1> DEFINE r == Stable(DT, s, x)
           b == Append(s.buffer, x)
<1>1. /\ s = [state |-> s.state, buffer |-> s.buffer, start |-> s.start] /\ s.buffer \in Seq(S)
      /\ \A i \in DOMAIN s.buffer : s.buffer[i].state = s.state
  BY Zenon DEF Even
<1>2. b \in Seq(S) /\ (s.state = x.state => \A i \in DOMAIN b : b[i].state = x.state)
  <2>1. PICK c : c = s.buffer
    BY Zenon
  <2>a. c \in Seq(S) /\ \A i \in DOMAIN c : c[i].state = s.state
    BY Zenon, <1>1, <2>1
  <2>2. Append(c, x) \in Seq(S)
    BY Zenon, <2>a, AppendIn
  <2>3. \A i \in DOMAIN Append(c, x) : (i \in DOMAIN c /\ Append(c, x)[i] = c[i]) \/ Append(c, x)[i] = x
    BY <2>a, AppendLast
  <2>4. s.state = x.state => \A i \in DOMAIN Append(c, x) : Append(c, x)[i].state = x.state
    BY Zenon, <2>a, <2>3
  <2> QED
    BY Zenon, <2>1, <2>2, <2>4
<1>3. /\ <<>> \in Seq(S) /\ <<x>> \in Seq(S) /\ DOMAIN << >> = {}
      /\ \A i \in DOMAIN <<x>> : <<x>>[i] = x
  <2>1. <<>> \in Seq(S) /\ <<x>> \in Seq(S) /\ \A i \in DOMAIN <<x>> : <<x>>[i] = x
    OBVIOUS
  <2> QED
    BY Zenon, <2>1, EmptyDomain
<1>4. Uniform(S, <<>>)
  BY Zenon, <1>3 DEF Uniform
<1>5. /\ [s EXCEPT !.buffer = Append(@, x)] = [state |-> s.state, buffer |-> b, start |-> s.start]
      /\ [s EXCEPT !.buffer = <<>>] = [state |-> s.state, buffer |-> <<>>, start |-> s.start]
  <2>1. s = [state |-> s.state, buffer |-> s.buffer, start |-> s.start]
    BY Zenon, <1>1
  <2> QED
    BY <2>1
<1> HIDE DEF b
<1>6. \/ /\ s.state # x.state
         /\ r = [st |-> [state |-> x.state, buffer |-> <<x>>, start |-> Get(x, "time")], out |-> <<>>]
      \/ r = [st |-> s, out |-> <<>>]
      \/ /\ s.state = x.state
         /\ r = [st |-> [s EXCEPT !.buffer = Append(@, x)], out |-> <<>>]
      \/ /\ s.state = x.state
         /\ r = [st |-> [s EXCEPT !.buffer = <<>>], out |-> b]
  BY Zenon DEF Stable, Silent, Forward, b
<1> HIDE DEF r
<1>7. ASSUME r = [st |-> [state |-> x.state, buffer |-> <<x>>, start |-> Get(x, "time")], out |-> <<>>]
      PROVE  Even(S, r.st) /\ Uniform(S, r.out)
  <2> DEFINE v == [state |-> x.state, buffer |-> <<x>>, start |-> Get(x, "time")]
  <2>1. r.st = v /\ r.out = <<>>
    BY Zenon, <1>7
  <2>2. v.state = x.state /\ v.buffer = <<x>> /\ v.start = Get(x, "time")
    BY Zenon
  <2>3. Even(S, v)
    BY Zenon, <1>3, <2>2 DEF Even
  <2> QED
    BY Zenon, <1>4, <2>1, <2>3
<1>8. ASSUME r = [st |-> s, out |-> <<>>]
      PROVE  Even(S, r.st) /\ Uniform(S, r.out)
  <2>1. r.st = s /\ r.out = <<>>
    BY Zenon, <1>8
  <2> QED
    BY Zenon, <1>4, <2>1
<1>9. ASSUME s.state = x.state, r = [st |-> [s EXCEPT !.buffer = Append(@, x)], out |-> <<>>]
      PROVE  Even(S, r.st) /\ Uniform(S, r.out)
  <2> DEFINE v == [state |-> s.state, buffer |-> b, start |-> s.start]
  <2>1. r.st = v /\ r.out = <<>>
    BY Zenon, <1>5, <1>9
  <2>2. v.state = s.state /\ v.buffer = b /\ v.start = s.start
    BY Zenon
  <2>3. Even(S, v)
    BY Zenon, <1>2, <1>9, <2>2 DEF Even
  <2> QED
    BY Zenon, <1>4, <2>1, <2>3
<1>10. ASSUME s.state = x.state, r = [st |-> [s EXCEPT !.buffer = <<>>], out |-> b]
       PROVE  Even(S, r.st) /\ Uniform(S, r.out)
  <2> DEFINE v == [state |-> s.state, buffer |-> <<>>, start |-> s.start]
  <2>1. r.st = v /\ r.out = b
    BY Zenon, <1>5, <1>10
  <2>2. v.state = s.state /\ v.buffer = <<>> /\ v.start = s.start
    BY Zenon
  <2>3. Even(S, v)
    BY Zenon, <1>3, <2>2 DEF Even
  <2>4. Uniform(S, b)
    BY Zenon, <1>2, <1>10 DEF Uniform
  <2> QED
    BY Zenon, <2>1, <2>3, <2>4
<1> QED
  BY Zenon, <1>6, <1>7, <1>8, <1>9, <1>10 DEF r

\* The events of stable_metric with a label.
LabelledOf(S) == UNION {{Put(e, "state", v) : e \in S} : v \in {"ok", "critical"}}
Labelled == LabelledOf(EventSet)

\* No alarm was passed on yet.
Quiet == \A i \in 1..K : calls[i].out = <<>> \/ calls[i].out[1].state = "ok"

\* Before the first alarm an event is labelled critical only if it meets the trigger.
Fit == {x \in Labelled : Quiet /\ x.state = "critical" => Above(x, 1)}

\* A label leaves the metric as it is.
LEMMA LabelIs ==
  ASSUME NEW e, NEW v
  PROVE  LET x == Put(e, "state", v)
         IN  x.state = v /\ Get(x, "state") = v /\ (Above(x, 1) <=> Above(e, 1))
<1> DEFINE x == Put(e, "state", v)
<1>1. DOMAIN x = {"state"} \cup DOMAIN e /\ x.state = v /\ \A g \in DOMAIN e : g # "state" => x[g] = e[g]
  <2>1. DOMAIN x = {"state"} \cup DOMAIN e
    BY Zenon DEF Put
  <2>2. x["state"] = v
    BY Zenon DEF Put
  <2>3. \A g \in DOMAIN e : g # "state" => x[g] = e[g]
    BY Zenon DEF Put
  <2> QED
    BY Zenon, <2>1, <2>2, <2>3
<1>2. "metric_f" # "state" /\ "metric_sint64" # "state" /\ "metric_d" # "state"
  OBVIOUS
<1> HIDE DEF x
<1>3. Get(x, "state") = v
  BY Zenon, <1>1 DEF Get, Has
<1>4. ASSUME NEW g, g # "state" PROVE Has(x, g) <=> Has(e, g)
  <2>1. DOMAIN x = {"state"} \cup DOMAIN e
    BY Zenon, <1>1
  <2>2. g \in DOMAIN x <=> g \in DOMAIN e
    BY <1>4, <2>1
  <2> QED
    BY Zenon, <2>2 DEF Has
<1>5. Metric(x) = Metric(e)
  <2>1. CASE Has(e, "metric_f")
    BY Zenon, <1>1, <1>2, <1>4, <2>1 DEF Metric, Has
  <2>2. CASE ~Has(e, "metric_f") /\ Has(e, "metric_sint64")
    BY Zenon, <1>1, <1>2, <1>4, <2>2 DEF Metric, Has
  <2>3. CASE ~Has(e, "metric_f") /\ ~Has(e, "metric_sint64")
    <3>1. Get(x, "metric_d") = Get(e, "metric_d")
      BY Zenon, <1>1, <1>2, <1>4 DEF Get, Has
    <3> QED
      BY Zenon, <1>2, <1>4, <2>3, <3>1 DEF Metric
  <2> QED
    BY Zenon, <2>1, <2>2, <2>3
<1> QED
  BY Zenon, <1>1, <1>3, <1>5 DEF Above, x

\* What stable_metric's threads hold, and what its closure has come to.
Holding(l) ==
  \/ l = Idle
  \/ l.at = "label" /\ l.e \in EventSet
  \/ l.at = "stable" /\ l.e \in Fit
  \/ l.at = "store_ok" /\ Uniform(Fit, l.out)

Alarm ==
  kind = "stable_metric" =>
    /\ st = [stable |-> st.stable, state_ok |-> st.state_ok]
    /\ Quiet => st.state_ok = TRUE
    /\ Even(Fit, st.stable)
    /\ \A t \in Threads : Holding(loc[t])
    /\ FirstAlarmTriggered

\* The steps of stable_metric's threads.
MetricStep(t) ==
  Enter(t, "stable_metric", "label") \/ MetricLabel(t) \/ MetricStable(t) \/ MetricStore(t)

\* No other function's steps are taken.
LEMMA MetricSteps ==
  ASSUME Base, kind = "stable_metric", \A t \in Threads : Holding(loc[t]), [Next]_vars
  PROVE  UNCHANGED <<st, calls, loc>> \/ \E t \in Threads : MetricStep(t)
<1>1. CASE Call \/ TimerRate \/ TimerPercentiles
  <2>1. "stable_metric" \notin Locked
    BY DEF Locked
  <2> QED
    BY Zenon, <1>1, <2>1 DEF Call, TimerRate, TimerPercentiles
<1>2. CASE Tick \/ Finished \/ UNCHANGED vars
  BY Zenon, <1>2 DEF Tick, Finished, vars
<1>3. ASSUME NEW t \in Threads, Interleaved(t) PROVE MetricStep(t)
  <2>1. loc[t].at \in {"idle", "label", "stable", "store_ok"}
    <3>1. Idle.at = "idle"
      BY DEF Idle
    <3> QED
      BY Zenon, <3>1 DEF Holding
  <2>2. /\ ~At(t, "load") /\ ~At(t, "cas") /\ ~At(t, "metric") /\ ~At(t, "time") /\ ~At(t, "write")
        /\ ~At(t, "write_time") /\ ~At(t, "decide") /\ ~At(t, "index") /\ ~At(t, "draw")
        /\ ~At(t, "store") /\ ~At(t, "recount")
        /\ ~At(t, "exchange") /\ ~At(t, "event") /\ ~At(t, "pagerduty") /\ ~At(t, "alert")
        /\ ~At(t, "email") /\ ~At(t, "mail") /\ ~At(t, "to_index")
    BY <2>1 DEF At
  <2>3. ~RateLoad(t) /\ ~RateCas(t) /\ ~DdtReadMetric(t) /\ ~DdtReadTime(t) /\ ~DdtWriteMetric(t)
    BY Zenon, <2>2 DEF RateLoad, RateCas, DdtReadMetric, DdtReadTime, DdtWriteMetric
  <2>4. /\ ~DdtWriteTime(t) /\ ~DdtDecide(t) /\ ~SampleIndex(t) /\ ~SampleDraw(t)
        /\ ~SampleStore(t) /\ ~SampleRecount(t) /\ ~SampleExchange(t) /\ ~SampleEvent(t)
    BY Zenon, <2>2 DEF DdtWriteTime, DdtDecide, SampleIndex, SampleDraw, SampleStore, SampleRecount,
                       SampleExchange, SampleEvent
  <2>5. /\ ~TargetChanged(t, "pagerduty", "alert", "email") /\ ~TargetSend(t, "pagerduty", "alert", "email")
        /\ ~TargetChanged(t, "email", "mail", "to_index") /\ ~TargetSend(t, "email", "mail", "to_index")
        /\ ~TargetIndex(t)
    BY Zenon, <2>2 DEF TargetChanged, TargetSend, TargetIndex
  <2>6. /\ ~Enter(t, "rate", "load") /\ ~Enter(t, "ddt", "metric")
        /\ ~Enter(t, "percentiles", "index") /\ ~Enter(t, "targets", "pagerduty")
    <3>1. "stable_metric" \notin {"rate", "ddt", "percentiles", "targets"}
      OBVIOUS
    <3> QED
      BY Zenon, <3>1 DEF Enter
  <2> QED
    BY Zenon, <1>3, <2>3, <2>4, <2>5, <2>6 DEF Interleaved, MetricStep
<1> QED
  BY Zenon, <1>1, <1>2, <1>3 DEF Next

\* A step that leaves the history alone leaves what fits alone.
LEMMA FitStays ==
  ASSUME UNCHANGED <<kind, calls>>
  PROVE  Fit' = Fit /\ Quiet' = Quiet /\ EventSet' = EventSet /\ (FirstAlarmTriggered => FirstAlarmTriggered')
<1>1. K' = K /\ EventSet' = EventSet
  BY Zenon, EventsStay DEF K
<1>2. Quiet' = Quiet /\ Labelled' = Labelled
  <2>1. Labelled' = Labelled
    BY Zenon, <1>1 DEF Labelled
  <2>2. Quiet' = Quiet
    BY Zenon, <1>1 DEF Quiet
  <2> QED
    BY Zenon, <2>1, <2>2
<1>3. Fit' = Fit
  BY Zenon, <1>2 DEF Fit
<1>4. FirstAlarmTriggered => FirstAlarmTriggered'
  BY Zenon, <1>1 DEF FirstAlarmTriggered
<1> QED
  BY Zenon, <1>1, <1>2, <1>3, <1>4

\* What fits after a call more includes what fitted before.
LEMMA Wider ==
  ASSUME NEW S, NEW T, S \subseteq T, NEW q
  PROVE  /\ Even(S, q) => Even(T, q)
         /\ Uniform(S, q) => Uniform(T, q)
<1>1. Seq(S) \subseteq Seq(T)
  OBVIOUS
<1> QED
  BY Zenon, <1>1 DEF Even, Uniform

\* A thread moves, and what the others hold is as good as before.
LEMMA HoldsOn ==
  ASSUME Base, UNCHANGED kind, NEW t \in Threads, NEW l, loc' = [loc EXCEPT ![t] = l],
         \A u \in Threads : Holding(loc[u]), Fit \subseteq Fit',
         \/ l = Idle
         \/ l.at = "label" /\ l.e \in EventSet'
         \/ l.at = "stable" /\ l.e \in Fit'
         \/ l.at = "store_ok" /\ Uniform(Fit', l.out)
  PROVE  \A u \in Threads : Holding(loc[u])'
<1>1. EventSet' = EventSet
  BY Zenon, EventsStay
<1>2. loc'[t] = l /\ \A u \in Threads : u # t => loc'[u] = loc[u]
  BY Zenon, OneMoves
<1>3. Holding(loc[t])'
  BY Zenon, <1>2 DEF Holding
<1>4. ASSUME NEW u \in Threads, u # t PROVE Holding(loc[u])'
  <2>1. loc'[u] = loc[u] /\ Holding(loc[u])
    BY Zenon, <1>2, <1>4
  <2>a. CASE loc[u] = Idle
    BY Zenon, <2>1, <2>a DEF Holding, Idle
  <2>2. CASE loc[u].at = "label" /\ loc[u].e \in EventSet
    <3>1. loc'[u].at = "label"
      BY Zenon, <2>1, <2>2
    <3>2. loc'[u].e \in EventSet
      BY Zenon, <2>1, <2>2
    <3>3. loc'[u].e \in EventSet'
      BY Zenon, <1>1, <3>2
    <3> QED
      BY Zenon, <3>1, <3>3 DEF Holding
  <2>3. CASE loc[u].at = "stable" /\ loc[u].e \in Fit
    BY Zenon, <2>1, <2>3 DEF Holding
  <2>4. CASE loc[u].at = "store_ok" /\ Uniform(Fit, loc[u].out)
    <3>1. PICK S, T, q : S = Fit /\ T = Fit' /\ q = loc[u].out
      BY Zenon
    <3>2. Uniform(T, q)
      BY Zenon, <2>4, <3>1, Wider
    <3>3. Uniform(Fit', loc'[u].out)
      BY Zenon, <2>1, <3>1, <3>2
    <3> QED
      BY Zenon, <2>1, <2>4, <3>3 DEF Holding
  <2> QED
    BY Zenon, <2>1, <2>a, <2>2, <2>3, <2>4 DEF Holding
<1> QED
  BY Zenon, <1>3, <1>4

\* A new call is called with an event of the function.
LEMMA NewInSet ==
  ASSUME Base, NEW x \in NewEvents
  PROVE  x \in EventSet
<1>1. K \in Nat /\ Cardinality(Busy) \in Nat
  BY Zenon, BusyFinite DEF Base, IsSeq, K
<1>2. Begun + 1 \in Nat
  BY <1>1, BegunSum
<1>3. PICK n : n = Begun + 1
  BY Zenon
<1>4. x \in {Put(y, "id", n) : y \in EventsOf(kind)} /\ n \in Nat
  BY Zenon, <1>2, <1>3 DEF NewEvents
<1> QED
  BY Zenon, <1>4 DEF EventSet, EventSetOf

\* An event comes in.
LEMMA AlarmEnter ==
  ASSUME Base, Alarm, kind = "stable_metric", NEW t \in Threads, Enter(t, "stable_metric", "label")
  PROVE  Alarm'
<1>1. PICK x \in NewEvents : loc' = [loc EXCEPT ![t] = [at |-> "label", e |-> x]]
  BY Zenon DEF Enter
<1>2. UNCHANGED <<kind, st, calls>>
  BY Zenon DEF Enter
<1>3. Fit' = Fit /\ Quiet' = Quiet /\ EventSet' = EventSet /\ (FirstAlarmTriggered => FirstAlarmTriggered')
  BY Zenon, <1>2, FitStays
<1>4. x \in EventSet'
  BY Zenon, <1>3, NewInSet
<1> DEFINE l == [at |-> "label", e |-> x]
<1>5. l.at = "label" /\ l.e = x
  BY Zenon
<1> HIDE DEF l
<1>6. loc' = [loc EXCEPT ![t] = l]
  BY Zenon, <1>1 DEF l
<1>7. \A u \in Threads : Holding(loc[u])
  BY Zenon DEF Alarm
<1>8. \A u \in Threads : Holding(loc[u])'
  BY Zenon, <1>2, <1>3, <1>4, <1>5, <1>6, <1>7, HoldsOn
<1> QED
  BY Zenon, <1>2, <1>3, <1>8 DEF Alarm

\* The event is labelled: before the first alarm state_ok holds.
LEMMA AlarmLabel ==
  ASSUME Base, Alarm, kind = "stable_metric", NEW t \in Threads, MetricLabel(t)
  PROVE  Alarm'
<1> DEFINE e == loc[t].e
           v == IF Above(e, 1) \/ (~st.state_ok /\ ~Under(e, 1)) THEN "critical" ELSE "ok"
           x == Put(e, "state", v)
           l == [at |-> "stable", e |-> x]
<1>1. loc' = [loc EXCEPT ![t] = l] /\ At(t, "label") /\ UNCHANGED <<kind, st, calls>>
  BY Zenon DEF MetricLabel, StableMetricLabel, SetCriticalPredicate
<1>2. l.at = "stable" /\ l.e = x
  BY Zenon
<1> HIDE DEF l
<1>3. Fit' = Fit /\ Quiet' = Quiet /\ EventSet' = EventSet /\ (FirstAlarmTriggered => FirstAlarmTriggered')
  BY Zenon, <1>1, FitStays
<1>4. Quiet => st.state_ok = TRUE
  BY Zenon DEF Alarm
<1>5. \A u \in Threads : Holding(loc[u])
  BY Zenon DEF Alarm
<1>6. e \in EventSet
  <2>1. loc[t].at = "label" /\ Idle.at = "idle" /\ "label" \notin {"idle", "stable", "store_ok"}
    BY <1>1 DEF At, Idle
  <2> QED
    BY Zenon, <1>5, <2>1 DEF Holding
<1> HIDE DEF e
<1>7. v \in {"ok", "critical"} /\ (Quiet /\ v = "critical" => Above(e, 1))
  <2>1. "ok" # "critical"
    OBVIOUS
  <2> QED
    BY Zenon, <1>4, <2>1
<1> HIDE DEF v
<1>8. x.state = v /\ (Above(x, 1) <=> Above(e, 1))
  BY Zenon, LabelIs
<1>9. x \in Labelled
  BY Zenon, <1>6, <1>7 DEF Labelled, LabelledOf
<1> HIDE DEF x
<1>10. x \in Fit
  BY Zenon, <1>7, <1>8, <1>9 DEF Fit
<1>11. \A u \in Threads : Holding(loc[u])'
  BY Zenon, <1>1, <1>2, <1>3, <1>5, <1>10, HoldsOn
<1> QED
  BY Zenon, <1>1, <1>3, <1>11 DEF Alarm

\* stable keeps the event, or passes on what it kept.
LEMMA AlarmStable ==
  ASSUME Base, Alarm, kind = "stable_metric", NEW t \in Threads, MetricStable(t)
  PROVE  Alarm'
<1> DEFINE x == loc[t].e
           r == Stable(DT, st.stable, x)
           l == [at |-> "store_ok", e |-> x, out |-> r.out]
<1>1. /\ loc' = [loc EXCEPT ![t] = l] /\ At(t, "stable") /\ UNCHANGED <<kind, calls>>
      /\ st' = [st EXCEPT !.stable = r.st]
  BY Zenon DEF MetricStable
<1>2. l.at = "store_ok" /\ l.out = r.out
  BY Zenon
<1> HIDE DEF l
<1>3. Fit' = Fit /\ Quiet' = Quiet /\ EventSet' = EventSet /\ (FirstAlarmTriggered => FirstAlarmTriggered')
  BY Zenon, <1>1, FitStays
<1>4. /\ st = [stable |-> st.stable, state_ok |-> st.state_ok]
      /\ Even(Fit, st.stable) /\ \A u \in Threads : Holding(loc[u])
  BY Zenon DEF Alarm
<1>5. x \in Fit
  <2>1. loc[t].at = "stable" /\ Idle.at = "idle" /\ "stable" \notin {"idle", "label", "store_ok"}
    BY <1>1 DEF At, Idle
  <2> QED
    BY Zenon, <1>4, <2>1 DEF Holding
<1> HIDE DEF x
<1>6. Get(x, "state") = x.state
  <2>1. PICK e \in EventSet, v \in {"ok", "critical"} : x = Put(e, "state", v)
    BY Zenon, <1>5 DEF Fit, Labelled, LabelledOf
  <2> QED
    BY Zenon, <2>1, LabelIs
<1>7. Even(Fit, r.st) /\ Uniform(Fit, r.out)
  <2>1. PICK S, s : S = Fit /\ s = st.stable
    BY Zenon
  <2>2. Even(S, s) /\ x \in S
    BY Zenon, <1>4, <1>5, <2>1
  <2>3. Even(S, Stable(DT, s, x).st) /\ Uniform(S, Stable(DT, s, x).out)
    BY Zenon, <1>6, <2>2, EvensOn
  <2> QED
    BY Zenon, <2>1, <2>3
<1> HIDE DEF r
<1>8. st' = [stable |-> r.st, state_ok |-> st.state_ok]
  BY <1>1, <1>4
<1>9. st'.stable = r.st /\ st'.state_ok = st.state_ok
  BY Zenon, <1>8
<1>10. \A u \in Threads : Holding(loc[u])'
  BY Zenon, <1>1, <1>2, <1>3, <1>4, <1>7, HoldsOn
<1> QED
  BY Zenon, <1>1, <1>3, <1>7, <1>8, <1>9, <1>10 DEF Alarm

\* state_ok is stored and the call returns: what it passes on is the first alarm only
\* if all of it meets the trigger.
LEMMA AlarmStore ==
  ASSUME Base, Alarm, kind = "stable_metric", NEW t \in Threads, MetricStore(t)
  PROVE  Alarm'
<1> DEFINE out == loc[t].out
           c == [e |-> loc[t].e, unix |-> unix, out |-> out]
<1>1. /\ At(t, "store_ok") /\ UNCHANGED kind /\ loc' = [loc EXCEPT ![t] = Idle]
      /\ calls' = Append(calls, c) /\ st' = [st EXCEPT !.state_ok = SetStateOk(@, out)]
  BY Zenon DEF MetricStore, Leave, Record
<1>2. c.out = out
  BY Zenon
<1> HIDE DEF c
<1>3. /\ st = [stable |-> st.stable, state_ok |-> st.state_ok] /\ (Quiet => st.state_ok = TRUE)
      /\ Even(Fit, st.stable) /\ (\A u \in Threads : Holding(loc[u])) /\ FirstAlarmTriggered
  BY Zenon DEF Alarm
<1>4. Uniform(Fit, out)
  <2>1. loc[t].at = "store_ok" /\ Idle.at = "idle" /\ "store_ok" \notin {"idle", "label", "stable"}
    BY <1>1 DEF At, Idle
  <2> QED
    BY Zenon, <1>3, <2>1 DEF Holding
<1> HIDE DEF out
<1>5. Longer(calls', calls, c)
  <2>1. IsSeq(calls)
    BY Zenon DEF Base
  <2> QED
    BY Zenon, <1>1, <2>1, AppendTo
<1>6. K \in Nat /\ K' = K + 1 /\ (\A i \in 1..K : calls'[i] = calls[i]) /\ calls'[K'].out = out
  BY Zenon, <1>2, <1>5 DEF Longer, IsSeq, K
<1>7. /\ K' \in 1..K' /\ (\A i \in 1..K : i \in 1..K' /\ i # K')
      /\ (\A i \in 1..K' : i \in 1..K \/ i = K') /\ (\A i \in 1..(K' - 1) : i \in 1..K)
      /\ (\A i \in 1..K : i \in 1..(K' - 1)) /\ (\A i \in 1..K : \A j \in 1..(i - 1) : j \in 1..K)
  BY <1>6
<1>8. Quiet' => Quiet /\ (out = <<>> \/ out[1].state = "ok")
  BY Zenon, <1>6, <1>7 DEF Quiet
<1>9. Fit \subseteq Fit'
  <2>1. EventSet' = EventSet
    BY Zenon, <1>1, EventsStay
  <2>2. Labelled' = Labelled
    BY Zenon, <2>1 DEF Labelled
  <2> QED
    BY Zenon, <1>8, <2>2 DEF Fit
<1>10. st' = [stable |-> st.stable, state_ok |-> SetStateOk(st.state_ok, out)]
  BY <1>1, <1>3
<1>11. st'.stable = st.stable /\ st'.state_ok = SetStateOk(st.state_ok, out)
  BY Zenon, <1>10
<1>12. \A u \in Threads : Holding(loc[u])'
  BY Zenon, <1>1, <1>3, <1>9, HoldsOn
<1>13. Even(Fit', st'.stable)
  <2>1. PICK S, T, s : S = Fit /\ T = Fit' /\ s = st.stable
    BY Zenon
  <2>2. Even(T, s)
    BY Zenon, <1>3, <1>9, <2>1, Wider
  <2> QED
    BY Zenon, <1>11, <2>1, <2>2
<1>14. out # <<>> => /\ Len(out) \in DOMAIN out /\ 1 \in DOMAIN out
                     /\ \A m \in DOMAIN out : out[m] \in Fit /\ out[m].state = out[1].state
  <2>1. PICK S : S = Fit
    BY Zenon
  <2>2. out \in Seq(S)
    BY Zenon, <1>4, <2>1 DEF Uniform
  <2>3. out # <<>> => Len(out) \in DOMAIN out /\ 1 \in DOMAIN out
    BY <2>2
  <2>4. \A m \in DOMAIN out : out[m] \in S
    BY <2>2
  <2> QED
    BY Zenon, <1>4, <2>1, <2>3, <2>4 DEF Uniform
<1>15. Quiet' => st'.state_ok = TRUE
  <2> SUFFICES ASSUME Quiet' PROVE SetStateOk(st.state_ok, out) = TRUE
    BY Zenon, <1>11
  <2>1. CASE out = <<>>
    BY Zenon, <1>3, <1>8, <2>1 DEF SetStateOk
  <2>2. CASE out # <<>>
    <3>1. PICK x : x = out[Len(out)]
      BY Zenon
    <3>2. x \in Fit /\ x.state = "ok"
      BY Zenon, <1>8, <1>14, <2>2, <3>1
    <3>3. Get(x, "state") = x.state
      <4>1. PICK e \in EventSet, v \in {"ok", "critical"} : x = Put(e, "state", v)
        BY Zenon, <3>2 DEF Fit, Labelled, LabelledOf
      <4> QED
        BY Zenon, <4>1, LabelIs
    <3> QED
      BY Zenon, <2>2, <3>1, <3>2, <3>3 DEF SetStateOk
  <2> QED
    BY Zenon, <2>1, <2>2
<1>16. FirstAlarmTriggered'
  <2> SUFFICES ASSUME NEW i \in 1..K', calls'[i].out # <<>>, calls'[i].out[1].state = "critical",
                      \A j \in 1..(i - 1) : calls'[j].out = <<>> \/ calls'[j].out[1].state = "ok",
                      NEW m \in DOMAIN calls'[i].out
               PROVE  Above(calls'[i].out[m], 1)
    BY Zenon DEF FirstAlarmTriggered
  <2>1. CASE i \in 1..K
    <3>1. calls'[i] = calls[i] /\ \A j \in 1..(i - 1) : calls'[j] = calls[j]
      BY Zenon, <1>6, <1>7, <2>1
    <3>2. \A j \in 1..(i - 1) : calls[j].out = <<>> \/ calls[j].out[1].state = "ok"
      BY Zenon, <3>1
    <3> QED
      BY Zenon, <1>3, <2>1, <3>1, <3>2 DEF FirstAlarmTriggered
  <2>2. CASE i = K'
    <3>1. Quiet
      BY Zenon, <1>6, <1>7, <2>2 DEF Quiet
    <3>2. calls'[i].out = out
      BY Zenon, <1>6, <2>2
    <3>3. out[m] \in Fit /\ out[m].state = "critical"
      BY Zenon, <1>14, <3>2
    <3> QED
      BY Zenon, <3>1, <3>2, <3>3 DEF Fit
  <2> QED
    BY Zenon, <1>7, <2>1, <2>2
<1> QED
  BY Zenon, <1>1, <1>10, <1>11, <1>12, <1>13, <1>15, <1>16 DEF Alarm

\* Every step of every thread keeps it so.
LEMMA AlarmStep ==
  ASSUME Counted, Alarm, [Next]_vars
  PROVE  Alarm'
<1>1. Base
  BY Zenon DEF Counted
<1>2. kind' = kind
  BY Zenon, <1>1, KindStays
<1>3. CASE kind # "stable_metric"
  BY Zenon, <1>2, <1>3 DEF Alarm
<1>4. CASE kind = "stable_metric"
  <2>1. \A t \in Threads : Holding(loc[t])
    BY Zenon, <1>4 DEF Alarm
  <2>2. CASE UNCHANGED <<st, calls, loc>>
    <3>1. Fit' = Fit /\ Quiet' = Quiet /\ EventSet' = EventSet /\ (FirstAlarmTriggered => FirstAlarmTriggered')
      BY Zenon, <1>2, <2>2, FitStays
    <3>2. \A t \in Threads : Holding(loc[t])'
      BY Zenon, <2>1, <2>2, <3>1 DEF Holding, Idle
    <3> QED
      BY Zenon, <1>4, <2>2, <3>1, <3>2 DEF Alarm
  <2>3. ASSUME NEW t \in Threads, MetricStep(t) PROVE Alarm'
    BY Zenon, <1>1, <1>4, <2>3, AlarmEnter, AlarmLabel, AlarmStable, AlarmStore DEF MetricStep
  <2> QED
    BY Zenon, <1>1, <1>4, <2>1, <2>2, <2>3, MetricSteps
<1> QED
  BY Zenon, <1>3, <1>4

-----------------------------------------------------------------------------
(* create_targets, whose calls interleave.                                  *)

Targets == {"pagerduty", "email"}

\* Where a thread is that has a message for a target and has not queued it.
PlaceOf(target) == IF target = "email" THEN "mail" ELSE "alert"

\* The message is for the host and has the state.
Tells(e, h, state) == e.host = h /\ e.state = state
Bears(l, target, h, state) == l # Idle /\ l.at = PlaceOf(target) /\ Tells(l.e, h, state)

\* The messages queued in q, those the threads of m bear, and how many there are.
SentIn(q, target, h, state) == {i \in 1..Len(q) : q[i][1] = target /\ Tells(q[i][2], h, state)}
WayIn(m, target, h, state) == {t \in Threads : Bears(m[t], target, h, state)}
DueIn(q, m, target, h, state) ==
  Cardinality(SentIn(q, target, h, state)) + Cardinality(WayIn(m, target, h, state))

\* The state a target remembers of a host.
Recalled(s, target, h) == ByState(s[target], KeyOf([host |-> h]), "ok")

\* The messages queued and on their way are those that led to the remembered state.
Paid(recalled, critical, ok) ==
  /\ recalled \in {"ok", "critical"}
  /\ critical = ok + (IF recalled = "critical" THEN 1 ELSE 0)

Balanced(s, m) ==
  \A target \in Targets : \A h :
    /\ SentIn(s.sent, target, h, "expired") = {}
    /\ Paid(Recalled(s, target, h), DueIn(s.sent, m, target, h, "critical"),
            DueIn(s.sent, m, target, h, "ok"))

\* A thread has an event, and a message only for an event that has not expired.
Carrying(l) ==
  \/ l = Idle
  \/ /\ l.at \in {"pagerduty", "alert", "email", "mail", "to_index"} /\ l.e \in EventSet
     /\ l.at \in {"alert", "mail"} => l.e.state \in {"ok", "critical"}

Paired ==
  kind = "targets" =>
    /\ DOMAIN st = {"pagerduty", "email", "sent"} /\ st = [f \in DOMAIN st |-> st[f]]
    /\ IsSeq(st.sent)
    /\ \A t \in Threads : Carrying(loc[t])
    /\ Balanced(st, loc)

\* The steps of create_targets' threads.
TargetStep(t) ==
  \/ Enter(t, "targets", "pagerduty")
  \/ TargetChanged(t, "pagerduty", "alert", "email") \/ TargetSend(t, "pagerduty", "alert", "email")
  \/ TargetChanged(t, "email", "mail", "to_index") \/ TargetSend(t, "email", "mail", "to_index")
  \/ TargetIndex(t)

\* No other function's steps are taken.
LEMMA TargetSteps ==
  ASSUME Base, kind = "targets", \A t \in Threads : Carrying(loc[t]), [Next]_vars
  PROVE  UNCHANGED <<st, calls, loc>> \/ \E t \in Threads : TargetStep(t)
<1>1. CASE Call \/ TimerRate \/ TimerPercentiles
  <2>1. "targets" \notin Locked
    BY DEF Locked
  <2> QED
    BY Zenon, <1>1, <2>1 DEF Call, TimerRate, TimerPercentiles
<1>2. CASE Tick \/ Finished \/ UNCHANGED vars
  BY Zenon, <1>2 DEF Tick, Finished, vars
<1>3. ASSUME NEW t \in Threads, Interleaved(t) PROVE TargetStep(t)
  <2>1. loc[t].at \in {"idle", "pagerduty", "alert", "email", "mail", "to_index"}
    <3>1. Idle.at = "idle"
      BY DEF Idle
    <3> QED
      BY Zenon, <3>1 DEF Carrying
  <2>2. /\ ~At(t, "load") /\ ~At(t, "cas") /\ ~At(t, "metric") /\ ~At(t, "time") /\ ~At(t, "write")
        /\ ~At(t, "write_time") /\ ~At(t, "decide") /\ ~At(t, "index") /\ ~At(t, "draw")
        /\ ~At(t, "store") /\ ~At(t, "recount")
        /\ ~At(t, "exchange") /\ ~At(t, "event") /\ ~At(t, "label") /\ ~At(t, "stable")
        /\ ~At(t, "store_ok")
    BY <2>1 DEF At
  <2>3. ~RateLoad(t) /\ ~RateCas(t) /\ ~DdtReadMetric(t) /\ ~DdtReadTime(t) /\ ~DdtWriteMetric(t)
    BY Zenon, <2>2 DEF RateLoad, RateCas, DdtReadMetric, DdtReadTime, DdtWriteMetric
  <2>4. /\ ~DdtWriteTime(t) /\ ~DdtDecide(t) /\ ~SampleIndex(t) /\ ~SampleDraw(t)
        /\ ~SampleStore(t) /\ ~SampleRecount(t) /\ ~SampleExchange(t) /\ ~SampleEvent(t)
    BY Zenon, <2>2 DEF DdtWriteTime, DdtDecide, SampleIndex, SampleDraw, SampleStore, SampleRecount,
                       SampleExchange, SampleEvent
  <2>5. ~MetricLabel(t) /\ ~MetricStable(t) /\ ~MetricStore(t)
    BY Zenon, <2>2 DEF MetricLabel, MetricStable, MetricStore
  <2>6. /\ ~Enter(t, "rate", "load") /\ ~Enter(t, "ddt", "metric")
        /\ ~Enter(t, "percentiles", "index") /\ ~Enter(t, "stable_metric", "label")
    <3>1. "targets" \notin {"rate", "ddt", "percentiles", "stable_metric"}
      OBVIOUS
    <3> QED
      BY Zenon, <3>1 DEF Enter
  <2> QED
    BY Zenon, <1>3, <2>3, <2>4, <2>5, <2>6 DEF Interleaved, TargetStep
<1> QED
  BY Zenon, <1>1, <1>2, <1>3 DEF Next

\* Host and state of the events of create_targets; they have no service.
LEMMA TargetEvents ==
  ASSUME kind = "targets", NEW e \in EventSet
  PROVE  /\ Get(e, "host") = e.host /\ Get(e, "state") = e.state
         /\ \A h : KeyOf([host |-> h]) = KeyOf(e) <=> h = e.host
<1>1. EventsOf(kind) = [host : {"a", "b"}, state : {"ok", "critical", "expired"}]
  BY DEF EventsOf
<1>2. PICK x \in EventsOf(kind) : \A f : Has(e, f) <=> (Has(x, f) \/ f = "id")
  BY Zenon, Fields
<1>3. x \in [host : {"a", "b"}, state : {"ok", "critical", "expired"}]
  BY Zenon, <1>1
<1>4. DOMAIN x = {"host", "state"} /\ "service" # "id" /\ "service" \notin {"host", "state"}
  BY <1>3
<1>5. Has(e, "host") /\ Has(e, "state") /\ ~Has(e, "service")
  BY Zenon, <1>2, <1>4 DEF Has
<1>6. Get(e, "host") = e.host /\ Get(e, "state") = e.state /\ Get(e, "service") = Default("service")
  BY Zenon, <1>5 DEF Get
<1>7. ASSUME NEW h PROVE KeyOf([host |-> h]) = KeyOf(e) <=> h = e.host
  <2> DEFINE f == [host |-> h]
  <2>1. f.host = h /\ DOMAIN f = {"host"} /\ "service" # "host"
    OBVIOUS
  <2> HIDE DEF f
  <2>2. Get(f, "host") = h /\ Get(f, "service") = Default("service")
    BY Zenon, <2>1 DEF Get, Has
  <2>3. KeyOf(f) = KeyOf(e) <=> h = e.host
    BY Zenon, <1>6, <2>2, SameKey
  <2> QED
    BY Zenon, <2>3 DEF f
<1> QED
  BY Zenon, <1>6, <1>7

\* The messages can be counted.
LEMMA Countable ==
  ASSUME NEW q, IsSeq(q), NEW m, NEW target, NEW h, NEW state
  PROVE  /\ IsFiniteSet(SentIn(q, target, h, state)) /\ IsFiniteSet(WayIn(m, target, h, state))
         /\ Cardinality(SentIn(q, target, h, state)) \in Nat
         /\ Cardinality(WayIn(m, target, h, state)) \in Nat
         /\ DueIn(q, m, target, h, state) \in Nat
<1>1. Len(q) \in Nat /\ 1 \in Int /\ Len(q) \in Int
  BY DEF IsSeq
<1>2. IsFiniteSet(1..Len(q))
  BY Zenon, <1>1, FS_Interval
<1>3. /\ SentIn(q, target, h, state) \subseteq 1..Len(q)
      /\ WayIn(m, target, h, state) \subseteq Threads
  BY Zenon DEF SentIn, WayIn
<1>4. IsFiniteSet(SentIn(q, target, h, state)) /\ IsFiniteSet(WayIn(m, target, h, state))
  BY Zenon, <1>2, <1>3, StreamAssumption, FS_Subset
<1>5. /\ Cardinality(SentIn(q, target, h, state)) \in Nat
      /\ Cardinality(WayIn(m, target, h, state)) \in Nat
  BY Zenon, <1>4, FS_CardinalityType
<1>6. DueIn(q, m, target, h, state) \in Nat
  BY <1>5 DEF DueIn
<1> QED
  BY Zenon, <1>4, <1>5, <1>6

\* There is one message more, if it is such a message.
Grown(q, p, such, target, h, state) ==
  /\ such => Cardinality(SentIn(p, target, h, state)) = Cardinality(SentIn(q, target, h, state)) + 1
  /\ ~such => SentIn(p, target, h, state) = SentIn(q, target, h, state)

\* A message is queued.
LEMMA Queued ==
  ASSUME NEW q, NEW p, NEW to, NEW e, Longer(p, q, <<to, e>>), NEW target, NEW h, NEW state
  PROVE  Grown(q, p, to = target /\ Tells(e, h, state), target, h, state)
<1> DEFINE n == Len(q) + 1
<1>1. /\ Len(q) \in Nat /\ Len(p) = n /\ p[n] = <<to, e>> /\ \A i \in 1..Len(q) : p[i] = q[i]
      /\ IsSeq(q)
  BY Zenon DEF Longer, IsSeq
<1>2. /\ n \in 1..n /\ (\A i \in 1..Len(q) : i \in 1..n /\ i # n)
      /\ \A i \in 1..n : i \in 1..Len(q) \/ i = n
  BY <1>1
<1> HIDE DEF n
<1>3. p[n][1] = to /\ p[n][2] = e
  <2>1. <<to, e>>[1] = to /\ <<to, e>>[2] = e
    OBVIOUS
  <2> QED
    BY Zenon, <1>1, <2>1
<1>4. n \notin SentIn(q, target, h, state) /\ IsFiniteSet(SentIn(q, target, h, state))
  <2>1. n \notin SentIn(q, target, h, state)
    BY Zenon, <1>2 DEF SentIn
  <2>2. PICK m : m = loc
    BY Zenon
  <2> QED
    BY Zenon, <1>1, <2>1, Countable
<1>5. ASSUME to = target, Tells(e, h, state)
      PROVE  SentIn(p, target, h, state) = SentIn(q, target, h, state) \cup {n}
  <2>1. ASSUME NEW i PROVE i \in SentIn(p, target, h, state) <=> i \in SentIn(q, target, h, state) \cup {n}
    <3>1. CASE i = n
      BY Zenon, <1>1, <1>2, <1>3, <1>5, <3>1 DEF SentIn
    <3>2. CASE i # n
      BY Zenon, <1>1, <1>2, <3>2 DEF SentIn
    <3> QED
      BY Zenon, <3>1, <3>2
  <2> QED
    BY Zenon, <2>1
<1>6. ASSUME ~(to = target /\ Tells(e, h, state))
      PROVE  SentIn(p, target, h, state) = SentIn(q, target, h, state)
  <2>1. ASSUME NEW i PROVE i \in SentIn(p, target, h, state) <=> i \in SentIn(q, target, h, state)
    <3>1. CASE i = n
      BY Zenon, <1>3, <1>4, <1>6, <3>1 DEF SentIn
    <3>2. CASE i # n
      BY Zenon, <1>1, <1>2, <3>2 DEF SentIn
    <3> QED
      BY Zenon, <3>1, <3>2
  <2> QED
    BY Zenon, <2>1
<1>7. Cardinality(SentIn(q, target, h, state) \cup {n}) = Cardinality(SentIn(q, target, h, state)) + 1
  BY Zenon, <1>4, FS_AddElement
<1> QED
  BY Zenon, <1>5, <1>6, <1>7 DEF Grown

\* A thread moves on.
Moved(m, n, t, l) == n[t] = l /\ \A u \in Threads : u # t => n[u] = m[u]

\* It takes up a message, queues one, or neither.
Bearing(m, n, before, after, target, h, state) ==
  /\ (before <=> after) => WayIn(n, target, h, state) = WayIn(m, target, h, state)
  /\ ~before /\ after =>
       Cardinality(WayIn(n, target, h, state)) = Cardinality(WayIn(m, target, h, state)) + 1
  /\ before /\ ~after =>
       Cardinality(WayIn(m, target, h, state)) = Cardinality(WayIn(n, target, h, state)) + 1

\* The messages on their way change with what the moving thread bears.
LEMMA Borne ==
  ASSUME NEW m, NEW n, NEW t \in Threads, NEW l, Moved(m, n, t, l), NEW target, NEW h, NEW state
  PROVE  Bearing(m, n, Bears(m[t], target, h, state), Bears(l, target, h, state), target, h, state)
<1> DEFINE A == WayIn(m, target, h, state)
           B == WayIn(n, target, h, state)
<1>1. /\ (t \in A <=> Bears(m[t], target, h, state)) /\ (t \in B <=> Bears(l, target, h, state))
      /\ \A u : u # t => (u \in A <=> u \in B)
  BY Zenon DEF WayIn, Moved
<1>2. IsFiniteSet(A) /\ IsFiniteSet(B)
  <2>1. A \subseteq Threads /\ B \subseteq Threads
    BY Zenon DEF WayIn
  <2> QED
    BY Zenon, <2>1, StreamAssumption, FS_Subset
<1> HIDE DEF A, B
<1>3. ASSUME Bears(m[t], target, h, state) <=> Bears(l, target, h, state) PROVE B = A
  <2>1. \A u : u \in A <=> u \in B
    BY Zenon, <1>1, <1>3
  <2> QED
    BY Zenon, <2>1
<1>4. ASSUME ~Bears(m[t], target, h, state), Bears(l, target, h, state)
      PROVE  Cardinality(B) = Cardinality(A) + 1
  <2>1. B = A \cup {t} /\ t \notin A
    BY Zenon, <1>1, <1>4
  <2> QED
    BY Zenon, <1>2, <2>1, FS_AddElement
<1>5. ASSUME Bears(m[t], target, h, state), ~Bears(l, target, h, state)
      PROVE  Cardinality(A) = Cardinality(B) + 1
  <2>1. A = B \cup {t} /\ t \notin B
    BY Zenon, <1>1, <1>5
  <2> QED
    BY Zenon, <1>2, <2>1, FS_AddElement
<1> QED
  BY Zenon, <1>3, <1>4, <1>5 DEF A, B, Bearing

\* Nothing is added to what is queued or on its way, and nothing is forgotten.
Undisturbed(s, m, r, n) ==
  \A target \in Targets : \A h :
    /\ Recalled(r, target, h) = Recalled(s, target, h)
    /\ SentIn(s.sent, target, h, "expired") = {} => SentIn(r.sent, target, h, "expired") = {}
    /\ \A state \in {"ok", "critical"} :
         DueIn(r.sent, n, target, h, state) = DueIn(s.sent, m, target, h, state)

\* The accounts are kept by what does not disturb them.
LEMMA BalanceKept ==
  ASSUME NEW s, NEW m, Balanced(s, m), NEW r, NEW n, Undisturbed(s, m, r, n)
  PROVE  Balanced(r, n)
  BY Zenon DEF Balanced, Undisturbed

\* A thread moves, and the others carry what they carried.
LEMMA CarriesOn ==
  ASSUME Base, UNCHANGED kind, NEW t \in Threads, NEW l, loc' = [loc EXCEPT ![t] = l],
         \A u \in Threads : Carrying(loc[u]), Carrying(l)
  PROVE  \A u \in Threads : Carrying(loc[u])'
<1>1. EventSet' = EventSet
  BY Zenon, EventsStay
<1>2. loc'[t] = l /\ \A u \in Threads : u # t => loc'[u] = loc[u]
  BY Zenon, OneMoves
<1>3. \A u \in Threads : Carrying(loc'[u])
  BY Zenon, <1>2
<1>4. ASSUME NEW u \in Threads PROVE Carrying(loc[u])'
  <2>1. PICK w : w = loc'[u]
    BY Zenon
  <2>2. Carrying(w)
    BY Zenon, <1>3, <2>1
  <2>3. CASE w = Idle
    BY Zenon, <2>1, <2>3 DEF Carrying, Idle
  <2>4. CASE w # Idle
    <3>1. w.e \in EventSet'
      BY Zenon, <1>1, <2>2, <2>4 DEF Carrying
    <3> QED
      BY Zenon, <2>1, <2>2, <2>4, <3>1 DEF Carrying
  <2> QED
    BY Zenon, <2>3, <2>4
<1> QED
  BY Zenon, <1>4

\* The thread has no message to queue.
Free(l) == l = Idle \/ l.at \in {"pagerduty", "email", "to_index"}

\* Such a thread bears none.
LEMMA NoMessage ==
  ASSUME NEW l, Free(l), NEW target, NEW h, NEW state
  PROVE  ~Bears(l, target, h, state)
<1>1. "mail" \notin {"pagerduty", "email", "to_index"} /\ "alert" \notin {"pagerduty", "email", "to_index"}
  OBVIOUS
<1> QED
  BY Zenon, <1>1 DEF Bears, PlaceOf, Free

\* A thread that bears no message moves to where it bears none.
LEMMA Unburdened ==
  ASSUME NEW q, NEW m, NEW n, NEW t \in Threads, NEW l, Moved(m, n, t, l),
         Free(m[t]), Free(l), NEW target, NEW h, NEW state
  PROVE  DueIn(q, n, target, h, state) = DueIn(q, m, target, h, state)
<1>1. ~Bears(m[t], target, h, state) /\ ~Bears(l, target, h, state)
  BY Zenon, NoMessage
<1>2. Bearing(m, n, Bears(m[t], target, h, state), Bears(l, target, h, state), target, h, state)
  BY Zenon, Borne
<1>3. WayIn(n, target, h, state) = WayIn(m, target, h, state)
  BY Zenon, <1>1, <1>2 DEF Bearing
<1> QED
  BY Zenon, <1>3 DEF DueIn

\* An event comes in.
LEMMA PairedEnter ==
  ASSUME Base, Paired, kind = "targets", NEW t \in Threads, Enter(t, "targets", "pagerduty")
  PROVE  Paired'
<1>1. PICK x \in NewEvents : loc' = [loc EXCEPT ![t] = [at |-> "pagerduty", e |-> x]]
  BY Zenon DEF Enter
<1>2. UNCHANGED <<kind, st, calls>> /\ loc[t] = Idle
  BY Zenon DEF Enter
<1> DEFINE l == [at |-> "pagerduty", e |-> x]
<1>3. l.at = "pagerduty" /\ l.e = x
  BY Zenon
<1>4. loc' = [loc EXCEPT ![t] = l]
  BY Zenon, <1>1
<1> HIDE DEF l
<1>5. Carrying(l)
  <2>1. "pagerduty" \notin {"alert", "mail"}
    OBVIOUS
  <2> QED
    BY Zenon, <1>3, <2>1, NewInSet DEF Carrying
<1>6. (\A u \in Threads : Carrying(loc[u])) /\ Balanced(st, loc)
  BY Zenon DEF Paired
<1>7. \A u \in Threads : Carrying(loc[u])'
  BY Zenon, <1>2, <1>4, <1>5, <1>6, CarriesOn
<1>8. PICK m, n, s : m = loc /\ n = loc' /\ s = st
  BY Zenon
<1>9. Moved(m, n, t, l)
  BY Zenon, <1>4, <1>8, OneMoves DEF Moved
<1>10. Undisturbed(s, m, s, n)
  <2>1. \A target, h, state : DueIn(s.sent, n, target, h, state) = DueIn(s.sent, m, target, h, state)
    <3>1. Free(m[t]) /\ Free(l)
      BY Zenon, <1>2, <1>3, <1>8 DEF Free
    <3> QED
      BY Zenon, <1>9, <3>1, Unburdened
  <2> QED
    BY Zenon, <2>1 DEF Undisturbed
<1>11. Balanced(s, n)
  BY Zenon, <1>6, <1>8, <1>10, BalanceKept
<1>12. Balanced(st, loc)'
  BY Zenon, <1>2, <1>8, <1>11 DEF Balanced, Recalled, DueIn, SentIn, WayIn
<1> QED
  BY Zenon, <1>2, <1>7, <1>12 DEF Paired

\* One more message, for the state remembered from then on.
LEMMA PaidOnce ==
  ASSUME NEW c \in Nat, NEW o \in Nat
  PROVE  /\ Paid("ok", c, o) => Paid("critical", c + 1, o)
         /\ Paid("critical", c, o) => Paid("ok", c, o + 1)
  BY DEF Paid

\* The target remembers the event's state for its host, and nothing else changed.
Recollected(s, r, target, e) ==
  /\ \A T \in Targets : \A h : T # target \/ h # e.host => Recalled(r, T, h) = Recalled(s, T, h)
  /\ Recalled(r, target, e.host) = e.state
  /\ Recalled(s, target, e.host) = ByState(s[target], KeyOf(e), "ok")

\* The message a thread takes up is the one its target's memory changed for.
LEMMA TakenUp ==
  ASSUME NEW s, NEW m, Balanced(s, m), IsSeq(s.sent), NEW r, NEW n, r.sent = s.sent,
         NEW t \in Threads, NEW l, Moved(m, n, t, l), Free(m[t]), l # Idle,
         NEW target \in Targets, l.at = PlaceOf(target),
         NEW e, l.e = e, e.state \in {"ok", "critical"},
         Recollected(s, r, target, e), Recalled(s, target, e.host) # e.state
  PROVE  Balanced(r, n)
<1> SUFFICES ASSUME NEW T \in Targets, NEW h
             PROVE  /\ SentIn(r.sent, T, h, "expired") = {}
                    /\ Paid(Recalled(r, T, h), DueIn(r.sent, n, T, h, "critical"),
                            DueIn(r.sent, n, T, h, "ok"))
  BY Zenon DEF Balanced
<1> DEFINE A(x) == DueIn(s.sent, m, T, h, x)
           B(x) == DueIn(r.sent, n, T, h, x)
<1>1. SentIn(s.sent, T, h, "expired") = {} /\ Paid(Recalled(s, T, h), A("critical"), A("ok"))
  BY Zenon DEF Balanced
<1>2. \A x : ~Bears(m[t], T, h, x) /\ (Bears(l, T, h, x) <=> T = target /\ h = e.host /\ x = e.state)
  <2>1. PlaceOf(T) = PlaceOf(target) => T = target
    BY DEF PlaceOf, Targets
  <2>2. \A x : ~Bears(m[t], T, h, x)
    BY Zenon, NoMessage
  <2>3. \A x : Tells(e, h, x) <=> h = e.host /\ x = e.state
    BY Zenon DEF Tells
  <2> QED
    BY Zenon, <2>1, <2>2, <2>3 DEF Bears
<1>3. \A x : Bearing(m, n, Bears(m[t], T, h, x), Bears(l, T, h, x), T, h, x)
  BY Zenon, Borne
<1>4. ASSUME NEW x, ~(T = target /\ h = e.host /\ x = e.state) PROVE B(x) = A(x)
  <2>1. WayIn(n, T, h, x) = WayIn(m, T, h, x)
    BY Zenon, <1>2, <1>3, <1>4 DEF Bearing
  <2> QED
    BY Zenon, <2>1 DEF DueIn
<1>5. ASSUME NEW x, T = target, h = e.host, x = e.state PROVE B(x) = A(x) + 1
  <2>1. Bears(l, T, h, x) /\ ~Bears(m[t], T, h, x)
    BY Zenon, <1>2, <1>5
  <2>2. Cardinality(WayIn(n, T, h, x)) = Cardinality(WayIn(m, T, h, x)) + 1
    BY Zenon, <1>3, <2>1 DEF Bearing
  <2>3. Cardinality(SentIn(s.sent, T, h, x)) \in Nat /\ Cardinality(WayIn(m, T, h, x)) \in Nat
    BY Zenon, Countable
  <2>4. /\ B(x) = Cardinality(SentIn(s.sent, T, h, x)) + Cardinality(WayIn(n, T, h, x))
        /\ A(x) = Cardinality(SentIn(s.sent, T, h, x)) + Cardinality(WayIn(m, T, h, x))
    BY Zenon DEF DueIn
  <2>5. PICK a, b, c : /\ a = Cardinality(SentIn(s.sent, T, h, x)) /\ b = Cardinality(WayIn(m, T, h, x))
                       /\ c = Cardinality(WayIn(n, T, h, x))
    BY Zenon
  <2>6. a \in Nat /\ b \in Nat /\ c = b + 1 /\ B(x) = a + c /\ A(x) = a + b
    BY Zenon, <2>2, <2>3, <2>4, <2>5
  <2>7. a + c = (a + b) + 1
    BY <2>6
  <2> QED
    BY Zenon, <2>6, <2>7
<1>6. \A x : A(x) \in Nat
  BY Zenon, Countable
<1> HIDE DEF A, B
<1>7. SentIn(r.sent, T, h, "expired") = {} /\ "ok" # "critical"
  <2>1. "ok" # "critical"
    OBVIOUS
  <2> QED
    BY Zenon, <1>1, <2>1
<1>8. CASE ~(T = target /\ h = e.host)
  <2>1. Recalled(r, T, h) = Recalled(s, T, h)
    BY Zenon, <1>8 DEF Recollected
  <2>2. B("critical") = A("critical") /\ B("ok") = A("ok")
    BY Zenon, <1>4, <1>8
  <2>3. Paid(Recalled(r, T, h), B("critical"), B("ok"))
    BY Zenon, <1>1, <2>1, <2>2
  <2> QED
    BY Zenon, <1>7, <2>3 DEF B
<1>9. CASE T = target /\ h = e.host
  <2>1. Recalled(s, T, h) \in {"ok", "critical"}
    BY Zenon, <1>1 DEF Paid
  <2>2. CASE e.state = "critical"
    <3>1. Recalled(s, T, h) = "ok" /\ Recalled(r, T, h) = "critical"
      BY Zenon, <1>9, <2>1, <2>2 DEF Recollected
    <3>2. B("critical") = A("critical") + 1 /\ B("ok") = A("ok")
      BY Zenon, <1>4, <1>5, <1>7, <1>9, <2>2
    <3> QED
      BY Zenon, <1>1, <1>6, <1>7, <3>1, <3>2, PaidOnce DEF B
  <2>3. CASE e.state = "ok"
    <3>1. Recalled(s, T, h) = "critical" /\ Recalled(r, T, h) = "ok"
      BY Zenon, <1>9, <2>1, <2>3 DEF Recollected
    <3>2. B("critical") = A("critical") /\ B("ok") = A("ok") + 1
      BY Zenon, <1>4, <1>5, <1>7, <1>9, <2>3
    <3> QED
      BY Zenon, <1>1, <1>6, <1>7, <3>1, <3>2, PaidOnce DEF B
  <2> QED
    BY Zenon, <2>2, <2>3
<1> QED
  BY Zenon, <1>8, <1>9

\* The message a thread bore is queued.
LEMMA HandedOver ==
  ASSUME NEW s, NEW m, NEW r, NEW n, NEW t \in Threads, NEW l, Moved(m, n, t, l), Free(l),
         m[t] # Idle, NEW target \in Targets, m[t].at = PlaceOf(target),
         NEW e, m[t].e = e, e.state \in {"ok", "critical"}, Longer(r.sent, s.sent, <<target, e>>),
         \A T \in Targets : \A h : Recalled(r, T, h) = Recalled(s, T, h)
  PROVE  Undisturbed(s, m, r, n)
<1> SUFFICES ASSUME NEW T \in Targets, NEW h
             PROVE  /\ SentIn(s.sent, T, h, "expired") = {} => SentIn(r.sent, T, h, "expired") = {}
                    /\ \A x : DueIn(r.sent, n, T, h, x) = DueIn(s.sent, m, T, h, x)
  BY Zenon DEF Undisturbed
<1>1. PICK q, p : q = s.sent /\ p = r.sent
  BY Zenon
<1>2. Longer(p, q, <<target, e>>) /\ IsSeq(q)
  BY Zenon, <1>1 DEF Longer
<1>3. \A x : Bears(m[t], T, h, x) <=> target = T /\ Tells(e, h, x)
  <2>1. PlaceOf(T) = PlaceOf(target) => target = T
    BY DEF PlaceOf, Targets
  <2> QED
    BY Zenon, <2>1 DEF Bears
<1>4. \A x : ~Bears(l, T, h, x)
  BY Zenon, NoMessage
<1>5. SentIn(p, T, h, "expired") = SentIn(q, T, h, "expired")
  <2>1. "expired" \notin {"ok", "critical"}
    OBVIOUS
  <2>2. ~Tells(e, h, "expired")
    BY Zenon, <2>1 DEF Tells
  <2>3. Grown(q, p, target = T /\ Tells(e, h, "expired"), T, h, "expired")
    BY Zenon, <1>2, Queued
  <2> QED
    BY Zenon, <2>2, <2>3 DEF Grown
<1>6. ASSUME NEW x PROVE DueIn(p, n, T, h, x) = DueIn(q, m, T, h, x)
  <2>1. Bearing(m, n, Bears(m[t], T, h, x), Bears(l, T, h, x), T, h, x)
    BY Zenon, Borne
  <2>4. Grown(q, p, target = T /\ Tells(e, h, x), T, h, x)
    BY Zenon, <1>2, Queued
  <2>2. CASE ~(target = T /\ Tells(e, h, x))
    <3>1. SentIn(p, T, h, x) = SentIn(q, T, h, x)
      BY Zenon, <2>2, <2>4 DEF Grown
    <3>2. WayIn(n, T, h, x) = WayIn(m, T, h, x)
      BY Zenon, <1>3, <1>4, <2>1, <2>2 DEF Bearing
    <3> QED
      BY Zenon, <3>1, <3>2 DEF DueIn
  <2>3. CASE target = T /\ Tells(e, h, x)
    <3>1. Cardinality(SentIn(p, T, h, x)) = Cardinality(SentIn(q, T, h, x)) + 1
      BY Zenon, <2>3, <2>4 DEF Grown
    <3>2. Cardinality(WayIn(m, T, h, x)) = Cardinality(WayIn(n, T, h, x)) + 1
      BY Zenon, <1>3, <1>4, <2>1, <2>3 DEF Bearing
    <3>3. Cardinality(SentIn(q, T, h, x)) \in Nat /\ Cardinality(WayIn(n, T, h, x)) \in Nat
      BY Zenon, <1>2, Countable
    <3>4. PICK a, b, c, d : /\ a = Cardinality(SentIn(q, T, h, x)) /\ b = Cardinality(SentIn(p, T, h, x))
                            /\ c = Cardinality(WayIn(n, T, h, x)) /\ d = Cardinality(WayIn(m, T, h, x))
      BY Zenon
    <3>5. a \in Nat /\ c \in Nat /\ b = a + 1 /\ d = c + 1
      BY Zenon, <3>1, <3>2, <3>3, <3>4
    <3>6. b + c = a + d
      BY <3>5
    <3> QED
      BY Zenon, <3>4, <3>6 DEF DueIn
  <2> QED
    BY Zenon, <2>2, <2>3
<1> QED
  BY Zenon, <1>1, <1>5, <1>6

\* The thread goes on with its event.
LEMMA GoesOn ==
  ASSUME Base, NEW t \in Threads, NEW p, At(t, p), p # "idle", NEW q, Goto(t, q)
  PROVE  \E l : loc' = [loc EXCEPT ![t] = l] /\ l.at = q /\ l.e = loc[t].e
<1> DEFINE l == [loc[t] EXCEPT !.at = q]
<1>1. Proper(loc[t])
  BY Zenon, AtIsBusy
<1>2. "at" \in DOMAIN loc[t] /\ "e" \in DOMAIN loc[t]
  BY <1>1 DEF Proper
<1>3. l.at = q /\ l.e = loc[t].e
  BY <1>2
<1>4. loc' = [loc EXCEPT ![t] = l]
  BY Zenon DEF Goto
<1> HIDE DEF l
<1> QED
  BY Zenon, <1>3, <1>4

\* One field of the state is assigned.
LEMMA FieldStored ==
  ASSUME NEW s, NEW g \in DOMAIN s, NEW v
  PROVE  LET r == [s EXCEPT ![g] = v]
         IN  /\ DOMAIN r = DOMAIN s /\ r = [f \in DOMAIN r |-> r[f]] /\ r[g] = v
             /\ \A f \in DOMAIN s : f # g => r[f] = s[f]
  OBVIOUS

\* What an action must show of its step.
LEMMA PairedBy ==
  ASSUME Base, Paired, kind = "targets", UNCHANGED kind,
         DOMAIN st' = DOMAIN st, st' = [f \in DOMAIN st' |-> st'[f]], IsSeq(st'.sent),
         NEW t \in Threads, NEW l, loc' = [loc EXCEPT ![t] = l], Carrying(l),
         Balanced(st', loc')
  PROVE  Paired'
<1>1. /\ DOMAIN st = {"pagerduty", "email", "sent"} /\ \A u \in Threads : Carrying(loc[u])
  BY Zenon DEF Paired
<1>2. \A u \in Threads : Carrying(loc[u])'
  BY Zenon, <1>1, CarriesOn
<1>3. Balanced(st, loc)'
  BY Zenon DEF Balanced, Recalled, DueIn, SentIn, WayIn
<1> QED
  BY Zenon, <1>1, <1>2, <1>3 DEF Paired

\* The event of a thread that is not idle.
LEMMA CarriedEvent ==
  ASSUME Base, Paired, kind = "targets", NEW t \in Threads, NEW p, At(t, p), p # "idle"
  PROVE  /\ loc[t] # Idle /\ loc[t].e \in EventSet
         /\ p \in {"alert", "mail"} => loc[t].e.state \in {"ok", "critical"}
<1>1. loc[t] # Idle /\ loc[t].at = p
  <2>1. Idle.at = "idle"
    BY DEF Idle
  <2> QED
    BY Zenon, <2>1 DEF At
<1>2. Carrying(loc[t])
  BY Zenon DEF Paired
<1> QED
  BY Zenon, <1>1, <1>2 DEF Carrying

\* The message goes into the queue of its target.
LEMMA PairedSend ==
  ASSUME Base, Paired, kind = "targets", NEW t \in Threads, NEW target \in Targets,
         NEW next \in {"email", "to_index"}, TargetSend(t, target, PlaceOf(target), next)
  PROVE  Paired'
<1>1. PlaceOf(target) # "idle" /\ PlaceOf(target) \in {"alert", "mail"}
  BY DEF PlaceOf
<1>2. At(t, PlaceOf(target)) /\ Goto(t, next) /\ UNCHANGED kind
  BY Zenon DEF TargetSend
<1>3. PICK l : loc' = [loc EXCEPT ![t] = l] /\ l.at = next /\ l.e = loc[t].e
  BY Zenon, <1>1, <1>2, GoesOn
<1>4. loc[t] # Idle /\ loc[t].e \in EventSet /\ loc[t].e.state \in {"ok", "critical"}
  BY Zenon, <1>1, <1>2, CarriedEvent
<1>5. next \in {"pagerduty", "email", "to_index"} /\ next \notin {"alert", "mail"}
      /\ next \in {"pagerduty", "alert", "email", "mail", "to_index"}
  OBVIOUS
<1>6. Free(l) /\ Carrying(l)
  BY Zenon, <1>3, <1>4, <1>5 DEF Free, Carrying
<1>7. /\ DOMAIN st = {"pagerduty", "email", "sent"} /\ IsSeq(st.sent) /\ Balanced(st, loc)
  BY Zenon DEF Paired
<1>8. PICK s, r, m, n, e, q : s = st /\ r = st' /\ m = loc /\ n = loc' /\ e = loc[t].e /\ q = st.sent
  BY Zenon
<1>9. r = [s EXCEPT !["sent"] = Append(q, <<target, e>>)]
  BY Zenon, <1>8 DEF TargetSend
<1>10. /\ DOMAIN r = DOMAIN s /\ r = [f \in DOMAIN r |-> r[f]] /\ r.sent = Append(q, <<target, e>>)
       /\ \A f \in DOMAIN s : f # "sent" => r[f] = s[f]
  <2>1. "sent" \in DOMAIN s
    BY <1>7, <1>8
  <2> QED
    BY Zenon, <1>9, <2>1, FieldStored
<1>11. Longer(r.sent, s.sent, <<target, e>>) /\ IsSeq(r.sent)
  <2>1. Longer(Append(q, <<target, e>>), q, <<target, e>>)
    BY Zenon, <1>7, <1>8, AppendTo
  <2> QED
    BY Zenon, <1>8, <1>10, <2>1 DEF Longer
<1>12. \A T \in Targets : r[T] = s[T]
  <2>1. \A T \in Targets : T \in {"pagerduty", "email", "sent"} /\ T # "sent"
    BY DEF Targets
  <2> QED
    BY Zenon, <1>7, <1>8, <1>10, <2>1
<1>13. \A T \in Targets : \A h : Recalled(r, T, h) = Recalled(s, T, h)
  BY Zenon, <1>12 DEF Recalled
<1>14. Moved(m, n, t, l)
  BY Zenon, <1>3, <1>8, OneMoves DEF Moved
<1>15. m[t] # Idle /\ m[t].at = PlaceOf(target) /\ m[t].e = e /\ e.state \in {"ok", "critical"}
  BY Zenon, <1>2, <1>4, <1>8 DEF At
<1>16. Undisturbed(s, m, r, n)
  BY Zenon, <1>6, <1>11, <1>13, <1>14, <1>15, HandedOver
<1>17. Balanced(r, n)
  BY Zenon, <1>7, <1>8, <1>16, BalanceKept
<1> QED
  BY Zenon, <1>2, <1>3, <1>6, <1>8, <1>10, <1>11, <1>17, PairedBy

\* The event goes into the index, or has expired, and the call returns.
LEMMA PairedIndex ==
  ASSUME Base, Paired, kind = "targets", NEW t \in Threads, TargetIndex(t)
  PROVE  Paired'
<1>1. At(t, "to_index") /\ "to_index" # "idle" /\ UNCHANGED kind /\ loc' = [loc EXCEPT ![t] = Idle]
  <2>1. "to_index" # "idle"
    OBVIOUS
  <2> QED
    BY Zenon, <2>1 DEF TargetIndex, Leave
<1>2. /\ DOMAIN st = {"pagerduty", "email", "sent"} /\ st = [f \in DOMAIN st |-> st[f]]
      /\ IsSeq(st.sent) /\ Balanced(st, loc)
  BY Zenon DEF Paired
<1>3. PICK s, r, m, n, e, q, l : /\ s = st /\ r = st' /\ m = loc /\ n = loc' /\ e = loc[t].e
                                 /\ q = st.sent /\ l = Idle
  BY Zenon
<1>4. r = s \/ r = [s EXCEPT !["sent"] = Append(q, <<"index", e>>)]
  BY Zenon, <1>3 DEF TargetIndex
<1>5. Moved(m, n, t, l) /\ Free(m[t]) /\ Free(l) /\ Carrying(l)
  <2>1. "to_index" \in {"pagerduty", "email", "to_index"}
    OBVIOUS
  <2>2. loc[t].at = "to_index"
    BY Zenon, <1>1 DEF At
  <2>3. Free(m[t])
    BY Zenon, <1>3, <2>1, <2>2 DEF Free
  <2> QED
    BY Zenon, <1>1, <1>3, <2>3, OneMoves DEF Moved, Free, Carrying
<1>6. \A T, h, x : DueIn(q, n, T, h, x) = DueIn(q, m, T, h, x)
  BY Zenon, <1>5, Unburdened
<1>7. CASE r = s
  <2>1. Undisturbed(s, m, s, n)
    BY Zenon, <1>3, <1>6 DEF Undisturbed
  <2>2. Balanced(r, n)
    BY Zenon, <1>2, <1>3, <1>7, <2>1, BalanceKept
  <2> QED
    BY Zenon, <1>1, <1>2, <1>3, <1>5, <1>7, <2>2, PairedBy
<1>8. CASE r = [s EXCEPT !["sent"] = Append(q, <<"index", e>>)]
  <2>1. /\ DOMAIN r = DOMAIN s /\ r = [f \in DOMAIN r |-> r[f]] /\ r.sent = Append(q, <<"index", e>>)
        /\ \A f \in DOMAIN s : f # "sent" => r[f] = s[f]
    <3>1. "sent" \in DOMAIN s
      BY <1>2, <1>3
    <3> QED
      BY Zenon, <1>8, <3>1, FieldStored
  <2>2. Longer(Append(q, <<"index", e>>), q, <<"index", e>>)
    BY Zenon, <1>2, <1>3, AppendTo
  <2>3. PICK p : p = r.sent
    BY Zenon
  <2>4. Longer(p, q, <<"index", e>>) /\ IsSeq(p)
    BY Zenon, <2>1, <2>2, <2>3 DEF Longer
  <2>5. \A T \in Targets : T \in DOMAIN s /\ T # "sent" /\ T # "index"
    BY <1>2, <1>3 DEF Targets
  <2>6. ASSUME NEW T \in Targets, NEW h, NEW x PROVE SentIn(p, T, h, x) = SentIn(q, T, h, x)
    <3>1. Grown(q, p, "index" = T /\ Tells(e, h, x), T, h, x)
      BY Zenon, <2>4, Queued
    <3> QED
      BY Zenon, <2>5, <3>1 DEF Grown
  <2>7. ASSUME NEW T \in Targets, NEW h, NEW x PROVE DueIn(p, n, T, h, x) = DueIn(q, m, T, h, x)
    <3>1. DueIn(p, n, T, h, x) = DueIn(q, n, T, h, x)
      BY Zenon, <2>6 DEF DueIn
    <3> QED
      BY Zenon, <1>6, <3>1
  <2>8. \A T \in Targets : \A h : Recalled(r, T, h) = Recalled(s, T, h)
    BY Zenon, <2>1, <2>5 DEF Recalled
  <2>9. Undisturbed(s, m, r, n)
    BY Zenon, <1>3, <2>3, <2>6, <2>7, <2>8 DEF Undisturbed
  <2>10. Balanced(r, n)
    BY Zenon, <1>2, <1>3, <2>9, BalanceKept
  <2> QED
    BY Zenon, <1>1, <1>3, <1>5, <2>1, <2>3, <2>4, <2>10, PairedBy
<1> QED
  BY Zenon, <1>4, <1>7, <1>8

\* What changed_state does to the states a target remembers.
LEMMA Recollects ==
  ASSUME kind = "targets", NEW s, NEW r, NEW target \in Targets, NEW e \in EventSet,
         r[target] = Put(s[target], KeyOf(e), e.state),
         \A T \in Targets : T # target => r[T] = s[T]
  PROVE  Recollected(s, r, target, e)
<1>1. \A h : KeyOf([host |-> h]) = KeyOf(e) <=> h = e.host
  BY Zenon, TargetEvents
<1>2. PICK c, v, k : c = s[target] /\ v = e.state /\ k = KeyOf(e)
  BY Zenon
<1>3. r[target] = Put(c, k, v)
  BY Zenon, <1>2
<1>4. ASSUME NEW h PROVE Copied(c, k, v, KeyOf([host |-> h]))
  <2>1. PICK j : j = KeyOf([host |-> h])
    BY Zenon
  <2>2. Copied(c, k, v, j)
    BY Zenon, OtherCopies
  <2> QED
    BY Zenon, <2>1, <2>2
<1>5. ASSUME NEW h, h # e.host PROVE Recalled(r, target, h) = Recalled(s, target, h)
  <2>1. KeyOf([host |-> h]) # k
    BY Zenon, <1>1, <1>2, <1>5
  <2> QED
    BY Zenon, <1>2, <1>3, <1>4, <2>1 DEF Copied, Recalled
<1>6. KeyOf([host |-> e.host]) = k
  BY Zenon, <1>1, <1>2
<1>7. Recalled(r, target, e.host) = e.state
  <2>1. Copied(c, k, v, KeyOf([host |-> e.host]))
    BY Zenon, <1>4
  <2> QED
    BY Zenon, <1>2, <1>3, <1>6, <2>1 DEF Copied, Recalled
<1>8. Recalled(s, target, e.host) = ByState(s[target], KeyOf(e), "ok")
  BY Zenon, <1>2, <1>6 DEF Recalled
<1>9. \A T \in Targets : T # target => \A h : Recalled(r, T, h) = Recalled(s, T, h)
  BY Zenon DEF Recalled
<1> QED
  BY Zenon, <1>5, <1>7, <1>8, <1>9 DEF Recollected

\* changed_state remembers the state, and passes the event on when it is another.
LEMMA PairedChanged ==
  ASSUME Base, Paired, kind = "targets", NEW t \in Threads, NEW target \in Targets,
         NEW next \in {"email", "to_index"}, TargetChanged(t, target, PlaceOf(target), next)
  PROVE  Paired'
<1>1. /\ PlaceOf(target) # "idle" /\ PlaceOf(target) \in {"alert", "mail"} /\ target # "idle"
      /\ target \in {"pagerduty", "email", "to_index"} /\ next \in {"pagerduty", "email", "to_index"}
      /\ next \notin {"alert", "mail"}
      /\ {next, PlaceOf(target)} \subseteq {"pagerduty", "alert", "email", "mail", "to_index"}
  BY DEF PlaceOf, Targets
<1>2. At(t, target) /\ UNCHANGED kind
  BY Zenon DEF TargetChanged
<1>3. loc[t] # Idle /\ loc[t].e \in EventSet
  BY Zenon, <1>1, <1>2, CarriedEvent
<1>4. /\ DOMAIN st = {"pagerduty", "email", "sent"} /\ st = [f \in DOMAIN st |-> st[f]]
      /\ IsSeq(st.sent) /\ Balanced(st, loc)
  BY Zenon DEF Paired
<1>5. PICK s, r, m, n, e : s = st /\ r = st' /\ m = loc /\ n = loc' /\ e = loc[t].e
  BY Zenon
<1>6. Free(m[t]) /\ e \in EventSet
  BY Zenon, <1>1, <1>2, <1>3, <1>5 DEF Free, At
<1> DEFINE c == ByChangedState(<<"host", "service">>, s[target], e, "ok")
           prev == ByState(s[target], KeyOf(e), "ok")
<1>7. \/ ~NoExpire(e) /\ r = s /\ Goto(t, next)
      \/ /\ NoExpire(e) /\ r = [s EXCEPT ![target] = c.st]
         /\ Goto(t, IF c.out = <<>> THEN next ELSE PlaceOf(target))
  BY Zenon, <1>5 DEF TargetChanged
<1>8. ASSUME NEW l, l.at = next, l.e = e, loc' = [loc EXCEPT ![t] = l], UNCHANGED kind,
             DOMAIN r = DOMAIN s, r = [f \in DOMAIN r |-> r[f]], r.sent = s.sent,
             \A T \in Targets : \A h : Recalled(r, T, h) = Recalled(s, T, h)
      PROVE  Paired'
  <2>1. Free(l) /\ Carrying(l)
    BY Zenon, <1>1, <1>6, <1>8 DEF Free, Carrying
  <2>2. Moved(m, n, t, l)
    BY Zenon, <1>5, <1>8, OneMoves DEF Moved
  <2>3. PICK q : q = s.sent
    BY Zenon
  <2>4. \A T, h, x : DueIn(q, n, T, h, x) = DueIn(q, m, T, h, x)
    BY Zenon, <1>6, <2>1, <2>2, Unburdened
  <2>5. Undisturbed(s, m, r, n)
    BY Zenon, <1>8, <2>3, <2>4 DEF Undisturbed
  <2>6. Balanced(r, n)
    BY Zenon, <1>4, <1>5, <2>5, BalanceKept
  <2> QED
    BY Zenon, <1>4, <1>5, <1>8, <2>1, <2>6, PairedBy
<1>9. CASE ~NoExpire(e) /\ r = s /\ Goto(t, next)
  <2>1. PICK l : loc' = [loc EXCEPT ![t] = l] /\ l.at = next /\ l.e = loc[t].e
    BY Zenon, <1>1, <1>2, <1>9, GoesOn
  <2>2. DOMAIN r = DOMAIN s /\ r = [f \in DOMAIN r |-> r[f]] /\ r.sent = s.sent
    BY Zenon, <1>4, <1>5, <1>9
  <2>3. \A T \in Targets : \A h : Recalled(r, T, h) = Recalled(s, T, h)
    BY Zenon, <1>9
  <2> QED
    BY Zenon, <1>2, <1>5, <1>8, <2>1, <2>2, <2>3
<1>10. CASE /\ NoExpire(e) /\ r = [s EXCEPT ![target] = c.st]
            /\ Goto(t, IF c.out = <<>> THEN next ELSE PlaceOf(target))
  <2>1. Get(e, "state") = e.state /\ e.state \in {"ok", "critical"}
    BY Zenon, <1>6, <1>10, TargetEvents DEF NoExpire
  <2>2. c.st = Put(s[target], KeyOf(e), e.state) /\ c.out = IF prev = e.state THEN <<>> ELSE <<e>>
    BY Zenon, <2>1, ChangedIs
  <2>3. <<e>> # <<>>
    OBVIOUS
  <2>4. /\ DOMAIN r = DOMAIN s /\ r = [f \in DOMAIN r |-> r[f]] /\ r[target] = c.st
        /\ \A f \in DOMAIN s : f # target => r[f] = s[f]
    <3>1. target \in DOMAIN s
      BY <1>4, <1>5 DEF Targets
    <3> QED
      BY Zenon, <1>10, <3>1, FieldStored
  <2> HIDE DEF c
  <2>5. r.sent = s.sent /\ \A T \in Targets : T # target => r[T] = s[T]
    <3>1. /\ "sent" \in DOMAIN s /\ "sent" # target
          /\ \A T \in Targets : T \in DOMAIN s
      BY <1>4, <1>5 DEF Targets
    <3> QED
      BY Zenon, <2>4, <3>1
  <2>6. r[target] = Put(s[target], KeyOf(e), e.state)
    BY Zenon, <2>2, <2>4
  <2>7. Recollected(s, r, target, e)
    BY Zenon, <1>6, <2>5, <2>6, Recollects
  <2>10. Recalled(s, target, e.host) = prev
    BY Zenon, <2>7 DEF Recollected
  <2> HIDE DEF prev
  <2>8. CASE prev = e.state
    <3>1. Goto(t, next)
      BY Zenon, <1>10, <2>2, <2>8
    <3>2. PICK l : loc' = [loc EXCEPT ![t] = l] /\ l.at = next /\ l.e = loc[t].e
      BY Zenon, <1>1, <1>2, <3>1, GoesOn
    <3>3. \A T \in Targets : \A h : Recalled(r, T, h) = Recalled(s, T, h)
      BY Zenon, <2>7, <2>8, <2>10 DEF Recollected
    <3> QED
      BY Zenon, <1>2, <1>5, <1>8, <2>4, <2>5, <3>2, <3>3
  <2>9. CASE prev # e.state
    <3>1. Goto(t, PlaceOf(target))
      BY Zenon, <1>10, <2>2, <2>3, <2>9
    <3>2. PICK l : loc' = [loc EXCEPT ![t] = l] /\ l.at = PlaceOf(target) /\ l.e = loc[t].e
      BY Zenon, <1>1, <1>2, <3>1, GoesOn
    <3>3. Moved(m, n, t, l)
      BY Zenon, <1>5, <3>2, OneMoves DEF Moved
    <3>4. l # Idle
      <4>1. Idle.at = "idle"
        BY DEF Idle
      <4> QED
        BY Zenon, <1>1, <3>2, <4>1
    <3>5. Carrying(l)
      BY Zenon, <1>1, <1>5, <1>6, <2>1, <3>2 DEF Carrying
    <3>6. l.e = e /\ Balanced(s, m) /\ IsSeq(s.sent)
      BY Zenon, <1>4, <1>5, <3>2
    <3>7. Recalled(s, target, e.host) # e.state
      BY Zenon, <2>9, <2>10
    <3>8. Balanced(r, n)
      BY Zenon, <1>6, <2>1, <2>5, <2>7, <3>2, <3>3, <3>4, <3>6, <3>7, TakenUp
    <3> QED
      BY Zenon, <1>2, <1>5, <2>4, <2>5, <3>2, <3>5, <3>6, <3>8, PairedBy
  <2> QED
    BY Zenon, <2>8, <2>9
<1> QED
  BY Zenon, <1>7, <1>9, <1>10

\* Every step keeps the accounts.
LEMMA PairedStep ==
  ASSUME Counted, Paired, [Next]_vars
  PROVE  Paired'
<1>1. Base
  BY Zenon DEF Counted
<1>2. kind' = kind
  BY Zenon, <1>1, KindStays
<1>3. CASE kind # "targets"
  BY Zenon, <1>2, <1>3 DEF Paired
<1>4. CASE kind = "targets"
  <2>1. \A t \in Threads : Carrying(loc[t])
    BY Zenon, <1>4 DEF Paired
  <2>2. CASE UNCHANGED <<st, calls, loc>>
    <3>1. EventSet' = EventSet
      BY Zenon, <1>2, EventsStay
    <3>2. \A t \in Threads : Carrying(loc[t])'
      BY Zenon, <2>1, <2>2, <3>1 DEF Carrying, Idle
    <3>3. Balanced(st, loc) => Balanced(st, loc)'
      BY Zenon, <2>2 DEF Balanced, Recalled, DueIn, SentIn, WayIn
    <3> QED
      BY Zenon, <1>2, <1>4, <2>2, <3>2, <3>3 DEF Paired
  <2>3. ASSUME NEW t \in Threads, TargetStep(t) PROVE Paired'
    <3>1. /\ "pagerduty" \in Targets /\ "email" \in Targets /\ "email" \in {"email", "to_index"}
          /\ "to_index" \in {"email", "to_index"} /\ PlaceOf("pagerduty") = "alert"
          /\ PlaceOf("email") = "mail"
      BY DEF Targets, PlaceOf
    <3> QED
      BY Zenon, <1>1, <1>4, <2>3, <3>1, PairedEnter, PairedChanged, PairedSend, PairedIndex DEF TargetStep
  <2> QED
    BY Zenon, <1>1, <1>4, <2>1, <2>2, <2>3, TargetSteps
<1> QED
  BY Zenon, <1>3, <1>4

\* Once no message is on its way, the accounts are those of the queue.
LEMMA PairedIs ==
  ASSUME Paired
  PROVE  AlertsPaired
<1> SUFFICES ASSUME kind = "targets" PROVE AlertsPaired
  BY Zenon DEF AlertsPaired
<1>1. IsSeq(st.sent) /\ Balanced(st, loc)
  BY Zenon DEF Paired
<1>2. PICK q, m : q = st.sent /\ m = loc
  BY Zenon
<1>3. DOMAIN q = 1..Len(q)
  BY Zenon, <1>1, <1>2 DEF IsSeq
<1> DEFINE Sent(target, h, state) == Cardinality({i \in DOMAIN st.sent : /\ st.sent[i][1] = target
                                                                         /\ st.sent[i][2].host = h
                                                                         /\ st.sent[i][2].state = state})
           Way(target, h) == \E t \in Threads : /\ loc[t] # Idle /\ loc[t].e.host = h
                                                /\ At(t, IF target = "email" THEN "mail" ELSE "alert")
<1>4. \A target, h, state : Sent(target, h, state) = Cardinality(SentIn(q, target, h, state))
  BY Zenon, <1>2, <1>3 DEF SentIn, Tells
<1>5. ASSUME NEW target, NEW h, ~Way(target, h), NEW state PROVE WayIn(m, target, h, state) = {}
  BY Zenon, <1>2, <1>5 DEF WayIn, Bears, Tells, At, PlaceOf
<1> HIDE DEF Sent, Way
<1>6. Cardinality({}) = 0
  BY Zenon, FS_EmptySet
<1>7. ASSUME NEW target \in Targets, NEW h
      PROVE  /\ Sent(target, h, "expired") = 0
             /\ ~Way(target, h) => Sent(target, h, "critical") - Sent(target, h, "ok")
                                     = IF Recalled(st, target, h) = "critical" THEN 1 ELSE 0
  <2>1. /\ SentIn(q, target, h, "expired") = {}
        /\ Paid(Recalled(st, target, h), DueIn(q, m, target, h, "critical"), DueIn(q, m, target, h, "ok"))
    BY Zenon, <1>1, <1>2 DEF Balanced
  <2>2. Sent(target, h, "expired") = 0
    BY Zenon, <1>4, <1>6, <2>1
  <2>3. ASSUME ~Way(target, h)
        PROVE  Sent(target, h, "critical") - Sent(target, h, "ok")
                 = IF Recalled(st, target, h) = "critical" THEN 1 ELSE 0
    <3>1. \A x : DueIn(q, m, target, h, x) = Sent(target, h, x) + 0
      <4>1. \A x : WayIn(m, target, h, x) = {}
        BY Zenon, <1>5, <2>3
      <4> QED
        BY Zenon, <1>4, <1>6, <4>1 DEF DueIn
    <3>2. \A x : Sent(target, h, x) \in Nat
      BY Zenon, <1>1, <1>2, <1>4, Countable
    <3>3. PICK c, o, r : /\ c = Sent(target, h, "critical") /\ o = Sent(target, h, "ok")
                         /\ r = Recalled(st, target, h)
      BY Zenon
    <3>4. c \in Nat /\ o \in Nat /\ Paid(r, c + 0, o + 0)
      <4>1. /\ DueIn(q, m, target, h, "critical") = c + 0 /\ DueIn(q, m, target, h, "ok") = o + 0
            /\ r = Recalled(st, target, h)
        BY Zenon, <3>1, <3>3
      <4>2. Paid(r, c + 0, o + 0)
        BY Zenon, <2>1, <4>1
      <4> QED
        BY Zenon, <3>2, <3>3, <4>2
    <3>5. c - o = IF r = "critical" THEN 1 ELSE 0
      <4>1. c + 0 = (o + 0) + (IF r = "critical" THEN 1 ELSE 0)
        BY Zenon, <3>4 DEF Paid
      <4> QED
        BY <3>4, <4>1
    <3> QED
      BY Zenon, <3>3, <3>5
  <2> QED
    BY Zenon, <2>2, <2>3
<1> QED
  BY Zenon, <1>7 DEF AlertsPaired, Sent, Way, Recalled, KeyOf, Targets

-----------------------------------------------------------------------------
(* The functions that hold back events.                                     *)

\* The invariant: what every one of them remembers is right.
HoldBackInv == Counted /\ Throttled /\ Settled /\ Remembered /\ Alarm /\ Paired

\* Before the first call there is no history.
LEMMA NoHistory ==
  ASSUME Init
  PROVE  /\ st = InitState(kind) /\ K = 0 /\ 1..K = {} /\ Outs = <<>> /\ Flattened(Outs) = <<>>
         /\ \A t \in Threads : loc[t] = Idle
<1>1. st = InitState(kind) /\ calls = <<>> /\ loc = [t \in Threads |-> Idle]
  BY Zenon DEF Init
<1>2. K = 0 /\ 1..K = {}
  BY <1>1 DEF K
<1>3. Outs = <<>>
  <2>1. Outs = [i \in 1..0 |-> calls[i].out]
    BY Zenon, <1>2 DEF Outs
  <2> QED
    BY <2>1
<1> QED
  BY Zenon, <1>1, <1>2, <1>3, FlattenEmpty

\* throttle and stable at the start.
LEMMA LockedInit ==
  ASSUME Init
  PROVE  Throttled /\ Settled
<1>1. /\ st = InitState(kind) /\ K = 0 /\ 1..K = {} /\ Outs = <<>> /\ Flattened(Outs) = <<>>
  BY Zenon, NoHistory
<1>2. \A S : <<>> \in Seq(S)
  OBVIOUS
<1>3. Paced(<<>>, ThrottleInit)
  BY DEF Paced, ThrottleInit
<1>4. Throttled
  BY Zenon, <1>1, <1>2, <1>3, Starts DEF Throttled
<1>5. ASSUME NEW S PROVE Steady(S, <<>>, StableInit, 0)
  <2>1. /\ StableInit = [state |-> StableInit.state, buffer |-> StableInit.buffer, start |-> StableInit.start]
        /\ StableInit.start \in Nat /\ StableInit.buffer = <<>> /\ <<>> \o <<>> = <<>> /\ 0 \in Nat
    BY DEF StableInit
  <2>2. Rising(S, <<>>, 0)
    BY Zenon, <1>2, <2>1, EmptyDomain DEF Rising
  <2>3. /\ StableInit.buffer \in Seq(S) /\ Rising(S, <<>> \o StableInit.buffer, 0)
        /\ \A i \in DOMAIN StableInit.buffer : StableInit.buffer[i].state = StableInit.state
    BY Zenon, <1>2, <2>1, <2>2, EmptyDomain
  <2> QED
    BY Zenon, <2>1, <2>2, <2>3 DEF Steady
<1>6. StableInit.state = ""
  BY DEF StableInit
<1>7. Settled
  <2> SUFFICES ASSUME kind = "stable" PROVE Settled
    BY Zenon DEF Settled
  <2>1. st = StableInit
    BY Zenon, <1>1, Starts
  <2>2. RunsEnd
    BY Zenon, <1>1 DEF RunsEnd
  <2>3. Steady(EventSet, Flattened(Outs), st, K)
    BY Zenon, <1>1, <1>5, <2>1
  <2> QED
    BY Zenon, <1>1, <1>2, <1>6, <2>1, <2>2, <2>3 DEF Settled
<1> QED
  BY Zenon, <1>4, <1>7

\* by() and changed_state at the start.
LEMMA RememberedInit ==
  ASSUME Init
  PROVE  Remembered
<1> SUFFICES ASSUME kind = "by" PROVE Remembered
  BY Zenon DEF Remembered
<1>1. st = <<>> /\ 1..K = {}
  BY Zenon, NoHistory, ByClosure
<1>2. \A e : Alike(e, K) = {}
  BY Zenon, <1>1 DEF Alike
<1>3. \A e \in EventSet : ByState(st, KeyOf(e), "ok") = PrevState(e, K)
  BY Zenon, <1>1, <1>2, EmptyDomain DEF ByState, PrevState
<1> QED
  BY Zenon, <1>1, <1>3 DEF Remembered

\* stable_metric at the start.
LEMMA AlarmInit ==
  ASSUME Init
  PROVE  Alarm
<1> SUFFICES ASSUME kind = "stable_metric" PROVE Alarm
  BY Zenon DEF Alarm
<1>1. InitState("stable_metric") = [stable |-> StableInit, state_ok |-> TRUE]
  BY DEF InitState
<1>2. st = [stable |-> StableInit, state_ok |-> TRUE] /\ 1..K = {} /\ \A t \in Threads : loc[t] = Idle
  BY Zenon, <1>1, NoHistory
<1>3. st = [stable |-> st.stable, state_ok |-> st.state_ok] /\ st.state_ok = TRUE /\ st.stable = StableInit
  BY Zenon, <1>2
<1>4. Even(Fit, StableInit)
  <2>1. /\ StableInit = [state |-> StableInit.state, buffer |-> StableInit.buffer, start |-> StableInit.start]
        /\ StableInit.buffer = <<>>
    BY DEF StableInit
  <2>2. \A S : <<>> \in Seq(S)
    OBVIOUS
  <2> QED
    BY Zenon, <2>1, <2>2, EmptyDomain DEF Even
<1>5. FirstAlarmTriggered
  BY Zenon, <1>2 DEF FirstAlarmTriggered
<1>6. \A t \in Threads : Holding(loc[t])
  BY Zenon, <1>2 DEF Holding
<1> QED
  BY Zenon, <1>3, <1>4, <1>5, <1>6 DEF Alarm

\* create_targets at the start.
LEMMA PairedInit ==
  ASSUME Init
  PROVE  Paired
<1> SUFFICES ASSUME kind = "targets" PROVE Paired
  BY Zenon DEF Paired
<1>1. InitState("targets") = [pagerduty |-> <<>>, email |-> <<>>, sent |-> <<>>]
  BY DEF InitState
<1>2. st = [pagerduty |-> <<>>, email |-> <<>>, sent |-> <<>>] /\ \A t \in Threads : loc[t] = Idle
  BY Zenon, <1>1, NoHistory
<1>3. DOMAIN st = {"pagerduty", "email", "sent"} /\ st = [f \in DOMAIN st |-> st[f]]
  BY <1>2
<1>4. st.sent = <<>> /\ st["pagerduty"] = <<>> /\ st["email"] = <<>>
  BY <1>2
<1>5. Len(<<>>) = 0 /\ IsSeq(<<>>) /\ 1..0 = {}
  BY DEF IsSeq
<1>6. ASSUME NEW target, NEW h, NEW x
      PROVE  SentIn(st.sent, target, h, x) = {} /\ WayIn(loc, target, h, x) = {}
  <2>1. SentIn(st.sent, target, h, x) = {}
    BY Zenon, <1>4, <1>5 DEF SentIn
  <2>2. WayIn(loc, target, h, x) = {}
    BY Zenon, <1>2 DEF WayIn, Bears
  <2> QED
    BY Zenon, <2>1, <2>2
<1>7. \A target, h, x : DueIn(st.sent, loc, target, h, x) = 0 + 0
  BY Zenon, <1>6, FS_EmptySet DEF DueIn
<1>8. ASSUME NEW target \in Targets, NEW h PROVE Recalled(st, target, h) = "ok"
  <2>1. st[target] = <<>>
    BY Zenon, <1>4 DEF Targets
  <2> QED
    BY Zenon, <2>1, EmptyDomain DEF Recalled, ByState
<1>9. Paid("ok", 0 + 0, 0 + 0)
  BY DEF Paid
<1>10. Balanced(st, loc)
  BY Zenon, <1>6, <1>7, <1>8, <1>9 DEF Balanced
<1>11. \A t \in Threads : Carrying(loc[t])
  BY Zenon, <1>2 DEF Carrying
<1> QED
  BY Zenon, <1>3, <1>4, <1>5, <1>10, <1>11 DEF Paired

\* The invariant at the start.
LEMMA HoldBackInit == Init => HoldBackInv
  BY Zenon, CountedInit, LockedInit, RememberedInit, AlarmInit, PairedInit DEF HoldBackInv

\* Every step keeps it.
LEMMA HoldBackStep == HoldBackInv /\ [Next]_vars => HoldBackInv'
  BY Zenon, CountedStep, ThrottledStep, SettledStep, RememberedStep, AlarmStep, PairedStep
     DEF HoldBackInv

\* What the functions let through follows from what they remember.
LEMMA HoldBackFollows == HoldBackInv => HoldBack
<1> SUFFICES ASSUME Throttled, Settled, Remembered, Alarm, Paired PROVE HoldBack
  BY Zenon DEF HoldBackInv
<1>1. FirstAlarmTriggered
  BY Zenon DEF Alarm, FirstAlarmTriggered
<1> QED
  BY Zenon, <1>1, ThrottledIs, SettledIs, RememberedIs, PairedIs DEF HoldBack

\* Whatever the order, the number and the interleaving of the calls: stable lets
\* an event through only with a run of its state that lasted DT, each once and
\* in order; of three events in a row that throttle lets through, two are more
\* than DT apart; by() over changed_state compares every event with the last of
\* its host and service; the first alarm of stable_metric has only events above the trigger;
\* and create_targets has queued, for every target and host, the triggers and
\* resolves that lead to the state it remembers.
THEOREM HoldBackHolds == Spec => []HoldBack
  BY HoldBackInit, HoldBackStep, HoldBackFollows, PTL DEF Spec
=============================================================================
