---------------------------- MODULE StreamPipes ----------------------------
(***************************************************************************)
(* Streams as sequences of nodes (stream_infra.cpp) and the nodes that     *)
(* remember nothing (stream_functions.cpp).  A node is a record: "op" is   *)
(* the stream function, the other fields are what its lambda captured.     *)
(* "ready" says whether on_event is set: create_stream(on_event) sets it,  *)
(* create_stream(on_init) leaves that to init_streams.  Calling on_event   *)
(* before throws std::bad_function_call.                                   *)
(***************************************************************************)
EXTENDS Events, SequencesExt, TLC

DefaultTtl == 60   \* k_default_ttl

\* predicate_t: the predicates that take an event and captured arguments.
Holds(p, e, unix) ==
  CASE p.fn = "above_eq" -> AboveEq(e, p.v)
    [] p.fn = "above" -> Above(e, p.v)
    [] p.fn = "under_eq" -> UnderEq(e, p.v)
    [] p.fn = "under" -> Under(e, p.v)
    [] p.fn = "match" -> Match(e, p.key, p.v)
    [] p.fn = "match_any" -> MatchAny(e, p.key, p.v)
    [] p.fn = "match_like" -> MatchLike(e, p.key, p.v)
    [] p.fn = "match_like_any" -> MatchLikeAny(e, p.key, p.v)
    [] p.fn = "tagged_any" -> TaggedAny(e, p.v)
    [] p.fn = "tagged_all" -> TaggedAll(e, p.v)
    [] p.fn = "has_attr" -> HasAttr(e, p.v)
    [] p.fn = "expired" -> Expired(e, unix, DefaultTtl)
    [] p.fn = "default_true" -> TRUE

CreateStream(node) == <<[ready |-> TRUE] @@ node>>
CreateStreamInit(node) == <<[ready |-> FALSE] @@ node>>

\* init_streams calls on_init of every node; svec's on_init does the same for
\* the streams it holds, split and where do nothing for theirs, and by keeps the
\* nodes that follow.
RECURSIVE InitStreams(_)
InitStreams(s) ==
  [i \in DOMAIN s |->
     CASE s[i].op = "svec" ->
            [s[i] EXCEPT !.ready = TRUE, !.streams = [j \in DOMAIN @ |-> InitStreams(@[j])]]
       [] s[i].op = "by" -> [s[i] EXCEPT !.ready = TRUE, !.rest = SubSeq(s, i + 1, Len(s))]
       [] OTHER -> [s[i] EXCEPT !.ready = TRUE]]

\* What a call returns, what it sent elsewhere, and whether it threw.
Returns(events) == [events |-> events, sent |-> <<>>, thrown |-> FALSE]
Sends(target, e) == [events |-> <<>>, sent |-> <<<<target, e>>>>, thrown |-> FALSE]
Throws == [events |-> <<>>, sent |-> <<>>, thrown |-> TRUE]

\* One call after the other, up to the first exception.
Concat(results) ==
  FoldLeft(LAMBDA acc, r : IF acc.thrown THEN acc
                           ELSE [events |-> IF r.thrown THEN <<>> ELSE acc.events \o r.events,
                                 sent |-> acc.sent \o r.sent, thrown |-> r.thrown],
           Returns(<<>>), results)

Pass(ok, e) == Returns(IF ok THEN <<e>> ELSE <<>>)

RECURSIVE PushEvent(_, _, _)

Where(node, e, unix) == Pass(Holds(node.pred, e, unix), e)

WhereElse(node, e, unix) ==
  IF Holds(node.pred, e, unix) THEN Returns(<<e>>) ELSE PushEvent(node.else_stream, e, unix)

\* The first clause that holds, else the default stream, else the event.
Split(node, e, unix) ==
  LET holding == {i \in DOMAIN node.clauses : Holds(node.clauses[i].pred, e, unix)}
      first == CHOOSE i \in holding : \A j \in holding : i <= j
  IN  IF holding # {} THEN PushEvent(node.clauses[first].stream, e, unix)
      ELSE IF node.default_stream # <<>> THEN PushEvent(node.default_stream, e, unix)
      ELSE Returns(<<e>>)

Svec(node, e, unix) ==
  IF node.streams = <<>> THEN Returns(<<e>>)
  ELSE Concat([i \in DOMAIN node.streams |-> PushEvent(node.streams[i], e, unix)])

\* The nodes that follow, initialised for the event's key when it is new, take
\* the event; by returns none.  No node of this module tells two copies apart.
By(node, e, unix) ==
  IF node.keys = <<>> THEN Returns(<<>>)
  ELSE [PushEvent(InitStreams(node.rest), e, unix) EXCEPT !.events = <<>>]

\* with(changes) and default_to(changes).
With(node, e) ==
  FoldLeft(LAMBDA ne, kv : SetEventValue(ne, kv[1], kv[2], node.replace), e, node.changes)

\* set_x; set_metric clears the other metrics.
SetField(field, v, e) == IF field = "metric" THEN SetMetric(e, v) ELSE Put(e, field, v)

\* default_x.
DefaultField(field, v, e) == IF HasFieldSet(e, field) THEN e ELSE SetField(field, v, e)

Within(a, b, e) == Pass(AboveEq(e, a) /\ UnderEq(e, b), e)
Without(a, b, e) == Pass(Under(e, a) \/ Above(e, b), e)
Scale(s, e) == SetMetric(e, s * Metric(e))
TagWith(tags, e) == FoldLeft(AddTag, e, tags)
ExpiredStream(e, unix) == Pass(Expired(e, unix, DefaultTtl), e)

\* The condition is the one of expired().
NotExpired(e, unix) == Pass(Expired(e, unix, DefaultTtl), e)

\* The last stage of a rule: nothing is returned.
SendIndex(e, unix) == IF Expired(e, unix, DefaultTtl) THEN Returns(<<>>) ELSE Sends("index", e)
SendTo(node, e) == Sends(node.op, e)
Email(e) == Sends("email", e)
Pagerduty(node, e) == Sends(node.op, e)

OnEvent(node, e, unix) ==
  IF ~node.ready THEN Throws
  ELSE CASE node.op = "prn" -> Returns(<<e>>)
         [] node.op = "null" -> Returns(<<>>)
         [] node.op = "send_index" -> SendIndex(e, unix)
         [] node.op \in {"graphite", "forward"} -> SendTo(node, e)
         [] node.op = "email" -> Email(e)
         [] node.op \in {"resolve", "acknowledge", "trigger"} -> Pagerduty(node, e)
         [] node.op = "where" -> Where(node, e, unix)
         [] node.op = "where_else" -> WhereElse(node, e, unix)
         [] node.op = "split" -> Split(node, e, unix)
         [] node.op = "svec" -> Svec(node, e, unix)
         [] node.op = "by" -> By(node, e, unix)
         [] node.op = "with" -> Returns(<<With(node, e)>>)
         [] node.op = "set" -> Returns(<<SetField(node.field, node.v, e)>>)
         [] node.op = "default" -> Returns(<<DefaultField(node.field, node.v, e)>>)
         [] node.op = "within" -> Within(node.a, node.b, e)
         [] node.op = "without" -> Without(node.a, node.b, e)
         [] node.op = "scale" -> Returns(<<Scale(node.s, e)>>)
         [] node.op = "tag" -> Returns(<<TagWith(node.tags, e)>>)
         [] node.op = "expired" -> ExpiredStream(e, unix)
         [] node.op = "not_expired" -> NotExpired(e, unix)

\* What the nodes before sent comes first.
After(acc, r) == [r EXCEPT !.sent = acc.sent \o @]


\* A node sees the events its predecessor returned, in order; the first node
\* that returns none ends the walk.
PushEvent(stream, e, unix) ==
  IF stream = <<>> THEN Returns(<<>>)
  ELSE FoldLeft(LAMBDA acc, node :
                  IF acc.thrown \/ acc.events = <<>> THEN acc
                  ELSE After(acc, Concat([i \in DOMAIN acc.events |-> OnEvent(node, acc.events[i], unix)])),
                Returns(<<e>>), stream)

-----------------------------------------------------------------------------
(* Streams that are a where() with a predicate on one field.                *)

WhereStream(p) == CreateStream([op |-> "where", pred |-> p])

Service(s) == WhereStream([fn |-> "match", key |-> "service", v |-> s])
ServiceAny(ss) == WhereStream([fn |-> "match_any", key |-> "service", v |-> ss])
ServiceLike(p) == WhereStream([fn |-> "match_like", key |-> "service", v |-> p])
ServiceLikeAny(ps) == WhereStream([fn |-> "match_like_any", key |-> "service", v |-> ps])
HasAttribute(a) == WhereStream([fn |-> "has_attr", v |-> a])
State(s) == WhereStream([fn |-> "match", key |-> "state", v |-> s])
StateAny(ss) == WhereStream([fn |-> "match_any", key |-> "state", v |-> ss])
TaggedAnyStream(ts) == WhereStream([fn |-> "tagged_any", v |-> ts])
TaggedAllStream(ts) == WhereStream([fn |-> "tagged_all", v |-> ts])
AboveStream(m) == WhereStream([fn |-> "above", v |-> m])
UnderStream(m) == WhereStream([fn |-> "under", v |-> m])
=============================================================================
