----------------------------- MODULE EventFolds -----------------------------
(***************************************************************************)
(* What is computed from all of an event (Event::json_str) and from        *)
(* several events (folds/folds.cpp).                                       *)
(***************************************************************************)
EXTENDS Events, SequencesExt, TLC

\* The object sent to websocket clients: an attribute replaces the field it
\* is named after, and the tags replace an attribute of that name.
JsonStr(e) ==
  LET fields == [f \in (StringFields \cup {"time"}) \cap DOMAIN e |-> e[f]]
      metric == IF HasMetric(e) THEN "metric" :> Metric(e) ELSE <<>>
      attrs == FoldLeft(LAMBDA j, a : (a[1] :> a[2]) @@ j, <<>>, Get(e, "attrs"))
      tags == IF Get(e, "tags") # <<>> THEN "tags" :> e.tags ELSE <<>>
  IN  tags @@ attrs @@ metric @@ fields

-----------------------------------------------------------------------------
(* Folds: a sequence of events to one event, based on the first.            *)

\* reduce_fn_t
SumFn == [x, y \in Int |-> x + y]
ProductFn == [x, y \in Int |-> x * y]
DifferenceFn == [x, y \in Int |-> x - y]
MinFn == [x, y \in Int |-> IF y < x THEN y ELSE x]
MaxFn == [x, y \in Int |-> IF y > x THEN y ELSE x]

Reduce(f, events) ==
  FoldLeft(LAMBDA t, e : f[t, Metric(e)], Metric(events[1]), Tail(events))

MaxTime(events) ==
  FoldLeft(LAMBDA t, e : IF Get(e, "time") > t THEN Get(e, "time") ELSE t, 0, events)

Fold(f, events) ==
  IF events = <<>> THEN NoEvent
  ELSE Put(SetMetric(events[1], Reduce(f, events)), "time", MaxTime(events))

Sum(events) == Fold(SumFn, events)
Product(events) == Fold(ProductFn, events)
Difference(events) == Fold(DifferenceFn, events)

\* set_metric_d: the result is the double, and a float or an integer of the
\* first event stays set beside it.
FoldD(m, events) ==
  IF events = <<>> THEN NoEvent
  ELSE Put(Put(events[1], "metric_d", m), "time", MaxTime(events))

Mean(events) == FoldD(Reduce(SumFn, events) \div Len(events), events)
Minimum(events) == FoldD(Reduce(MinFn, events), events)
Maximum(events) == FoldD(Reduce(MaxFn, events), events)

Count(events) ==
  IF events = <<>> THEN NoEvent
  ELSE Put(SetMetric(events[1], Len(events)), "time", MaxTime(events))
=============================================================================
