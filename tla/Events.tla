------------------------------- MODULE Events -------------------------------
(***************************************************************************)
(* The event (common/event.cpp) and what rules compute from one event:     *)
(* field updates (set_event_value) and predicates.                         *)
(*                                                                         *)
(* An event is a function from the names of the fields that are set, so    *)
(* the protobuf's has_x() is membership in the domain and a field that is  *)
(* not set reads as its default.  A metric is an integer number of units,  *)
(* a unit being small enough for every quotient to be exact.  A pattern of *)
(* the regular expression library is the set of the values it matches.     *)
(***************************************************************************)
EXTENDS Integers, Sequences, FiniteSets, Functions

StringFields == {"host", "service", "description", "state"}
MetricFields == {"metric_f", "metric_sint64", "metric_d"}
NoEvent == <<>>   \* Event()

Has(e, f) == f \in DOMAIN e

Default(f) == IF f \in StringFields THEN "" ELSE IF f \in {"tags", "attrs"} THEN <<>> ELSE 0

Get(e, f) == IF Has(e, f) THEN e[f] ELSE Default(f)

Put(e, f, v) == [g \in DOMAIN e \cup {f} |-> IF g = f THEN v ELSE e[g]]

Clear(e, fs) == [f \in DOMAIN e \ fs |-> e[f]]

HasMetric(e) == \E f \in MetricFields : Has(e, f)

\* The float wins over the integer, and the integer over the double.
Metric(e) ==
  IF Has(e, "metric_f") THEN e.metric_f
  ELSE IF Has(e, "metric_sint64") THEN e.metric_sint64
  ELSE Get(e, "metric_d")

SetMetric(e, m) == Put(Clear(e, MetricFields), "metric_d", m)

HasTag(e, tag) == \E i \in DOMAIN Get(e, "tags") : e.tags[i] = tag

AddTag(e, tag) == Put(e, "tags", Append(Get(e, "tags"), tag))

HasAttr(e, key) == \E i \in DOMAIN Get(e, "attrs") : e.attrs[i][1] = key

Attr(e, key) ==
  IF HasAttr(e, key) THEN SelectSeq(e.attrs, LAMBDA a : a[1] = key)[1][2] ELSE "nil"

\* Every attribute with the key is overwritten; a new one goes last.
SetAttr(e, key, value) ==
  Put(e, "attrs",
      IF HasAttr(e, key)
      THEN [i \in DOMAIN e.attrs |-> IF e.attrs[i][1] = key THEN <<key, value>> ELSE e.attrs[i]]
      ELSE Append(Get(e, "attrs"), <<key, value>>))

ValueToStr(e, key) == IF key \in StringFields THEN Get(e, key) ELSE Attr(e, key)

\* "time" is not among the keys that are looked up as fields.
HasFieldSet(e, key) ==
  CASE key \in StringFields \cup {"ttl"} -> Has(e, key)
    [] key = "metric" -> HasMetric(e)
    [] OTHER -> HasAttr(e, key)

-----------------------------------------------------------------------------
(* set_event_value, on which with() and default_to() rest: value is a       *)
(* string, an int or a double.                                              *)

SetStringValue(e, key, value, replace) ==
  IF key \notin StringFields THEN SetAttr(e, key, value)
  ELSE IF replace \/ ~Has(e, key) THEN Put(e, key, value) ELSE e

SetIntValue(e, key, value, replace) ==
  CASE key = "metric" /\ replace -> Put(Clear(e, MetricFields), "metric_sint64", value)
    [] key = "metric" /\ ~replace /\ ~HasMetric(e) -> Put(e, "metric_sint64", value)
    [] key \in {"ttl", "time"} /\ (replace \/ ~Has(e, key)) -> Put(e, key, value)
    [] OTHER -> e

SetDoubleValue(e, key, value, replace) ==
  CASE key = "metric" /\ replace ->
         Put(Clear(e, {"metric_sint64", "metric_f"}), "metric_d", value)
    [] key = "metric" /\ ~replace /\ ~HasMetric(e) -> Put(e, "metric_d", value)
    [] OTHER -> e

SetEventValue(e, key, val, replace) ==
  CASE val.which = "string" -> SetStringValue(e, key, val.v, replace)
    [] val.which = "int" -> SetIntValue(e, key, val.v, replace)
    [] val.which = "double" -> SetDoubleValue(e, key, val.v, replace)

-----------------------------------------------------------------------------
(* Predicates.                                                              *)

AboveEq(e, m) == Metric(e) >= m
Above(e, m) == Metric(e) > m
UnderEq(e, m) == Metric(e) <= m
Under(e, m) == Metric(e) < m

Match(e, key, value) == ValueToStr(e, key) = value

MatchAny(e, key, values) == ValueToStr(e, key) \in values

\* match_re, match_like: a pattern is the set of the values it matches.
MatchLike(e, key, pattern) == ValueToStr(e, key) \in pattern

MatchLikeAny(e, key, patterns) == \E p \in patterns : MatchLike(e, key, p)

TaggedAny(e, tags) == \E tag \in tags : HasTag(e, tag)

TaggedAll(e, tags) == \A tag \in tags : HasTag(e, tag)

\* unix is the scheduler's unix_time, which the code reads twice in a row.
Expired(e, unix, default_ttl) ==
  LET ttl == IF Has(e, "ttl") THEN e.ttl ELSE default_ttl
  IN  \/ Get(e, "state") = "expired"
      \/ unix >= Get(e, "time") /\ unix - Get(e, "time") > ttl
=============================================================================
