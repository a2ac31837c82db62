------------------------------ MODULE MCStreams ------------------------------
(***************************************************************************)
(* The stream functions of StreamCalls, for TLC, together with the pure    *)
(* functions: in an initial state with kind "pure", "sample" is one input  *)
(* of one of them, and the invariants below compare the function's result  *)
(* with a reference.                                                       *)
(***************************************************************************)
EXTENDS StreamCalls, StreamPipes, EventFolds, Query, Codecs

CONSTANTS MaxTokens,   \* bound: length of a query
          MaxChars     \* bound: length of a URI

VARIABLE sample

-----------------------------------------------------------------------------
(* Inputs.                                                                  *)

On(node) == CreateStream(node)
Filter(p) == WhereStream(p)
HostA == [fn |-> "match", key |-> "host", v |-> "a"]
High == [fn |-> "above", v |-> 1]
Stateful == CreateStreamInit([op |-> "prn"])   \* any function made with on_init

Pipes1 ==
  {On([op |-> "null"]), Filter(HostA), Filter(High),
   On([op |-> "set", field |-> "metric", v |-> 1]), On([op |-> "scale", s |-> 2]),
   On([op |-> "default", field |-> "metric", v |-> 3]),
   On([op |-> "tag", tags |-> <<"x">>]), On([op |-> "without", a |-> 1, b |-> 2]),
   On([op |-> "within", a |-> 1, b |-> 2]),
   On([op |-> "with", replace |-> TRUE, changes |-> <<<<"host", [which |-> "string", v |-> "a"]>>>>]),
   On([op |-> "expired"]), On([op |-> "not_expired"]), Stateful,
   On([op |-> "send_index"]), On([op |-> "graphite"]), On([op |-> "email"]), On([op |-> "trigger"]),
   On([op |-> "where_else", pred |-> High, else_stream |-> Stateful]),
   On([op |-> "where_else", pred |-> HostA, else_stream |-> On([op |-> "scale", s |-> 3])]),
   On([op |-> "split", clauses |-> <<[pred |-> HostA, stream |-> Stateful],
                                     [pred |-> High, stream |-> Filter(HostA)]>>,
       default_stream |-> <<>>]),
   CreateStreamInit([op |-> "svec", streams |-> <<>>])}

\* Streams that return several events, or send one and return one.
Forks ==
  {CreateStreamInit([op |-> "svec", streams |-> <<Stateful, On([op |-> "scale", s |-> 2])>>]),
   CreateStreamInit([op |-> "svec", streams |-> <<On([op |-> "forward"]), State("ok")>>]),
   CreateStreamInit([op |-> "svec", streams |-> <<On([op |-> "forward"]), Stateful>>])}

By1 == CreateStreamInit([op |-> "by", keys |-> <<"host">>, rest |-> <<>>])

Pipes2 == Pipes1 \cup Forks \cup {f \o p : f \in Forks, p \in Pipes1 \cup Forks}

PipeEvents == [host : {"a", "c"}, metric_d : {0, 2}] \cup [host : {"a"}]

PipeSamples == [fn : {"pipes"}, left : Pipes2, right : Pipes2, e : PipeEvents]

Changes == {<<"metric", [which |-> "int", v |-> 1]>>, <<"metric", [which |-> "double", v |-> 2]>>,
            <<"host", [which |-> "string", v |-> "z"]>>, <<"x", [which |-> "string", v |-> "z"]>>,
            <<"x", [which |-> "string", v |-> "w"]>>,
            <<"time", [which |-> "int", v |-> 3]>>}

\* An event for every combination of fields that are set.
FieldEvents ==
  UNION {[fs -> {5}] : fs \in SUBSET MetricFields}

WithSamples ==
  [fn : {"with"}, changes : {<<c, d>> : c \in Changes, d \in Changes}, replace : BOOLEAN,
   e : {Put(e, "time", 1) : e \in FieldEvents} \cup {Put(e, "host", "a") : e \in FieldEvents}
       \cup {Put(e, "attrs", <<<<"x", "y">>>>) : e \in FieldEvents}]

FoldEvents == UNION {[{f} -> {-6, 0, 12}] : f \in MetricFields}

FoldSamples ==
  [fn : {"fold"},
   events : UNION {{[i \in 1..n |-> Put(es[i], "time", i % 3)] : es \in [1..n -> FoldEvents]}
                   : n \in 1..3}]

Atoms == {[node |-> "string", field |-> "host", op |-> "=", value |-> "a"],
          [node |-> "tagged", tag |-> "x"],
          [node |-> "int", field |-> "size", op |-> ">", value |-> 0]}
Tokens == Atoms \cup {[symbol |-> s] : s \in {"and", "or", "not", "(", ")"}}

QuerySamples == [fn : {"query"}, tokens : UNION {[1..n -> Tokens] : n \in 1..MaxTokens}]

TooLarge == {Whole * IntMax + Whole}

QueryEvents == [host : {"a", "b"}, tags : {<<>>, <<"x">>}, attrs : {<<>>, <<<<"size", TooLarge>>>>}]

Texts == {{u} : u \in -3..4} \cup {TooLarge, {}}

LiteralSamples ==
  [fn : {"literal"}, op : {"=", ">", ">=", "<", "<="}, value : {-1, 0, 1},
   field : {"metric", "ttl", "size"},
   e : {<<>>} \cup UNION {[{f} -> -3..4] : f \in MetricFields \cup {"ttl"}}
       \cup {[attrs |-> <<<<f, s>>>>] : f \in {"ttl", "size"}, s \in Texts}]

FrameSamples ==
  [fn : {"frame"}, len : {0, 1, 125, 126, 255, 256, 65535, 65536, 65537}]
  \cup [fn : {"masked"}, payload : UNION {[1..n -> {0, 200}] : n \in 0..3},
        len_bytes : {1, 2, 8}, mask : [1..4 -> {0, 170}], read : 0..18]
  \cup [fn : {"masked"}, payload : {[i \in 1..n |-> i % 256] : n \in {126, 300}},
        len_bytes : {2, 8}, mask : {<<0, 1, 2, 170>>}, read : 0..14 \cup 130..141 \cup 305..315]

Base64Samples == [fn : {"base64"}, bytes : UNION {[1..n -> {0, 5, 255}] : n \in 0..4}]

UriSamples ==
  [fn : {"uri"}, uri : UNION {[1..n -> {"/", "?", "=", "&", "a"}] : n \in 0..MaxChars}]

HeaderLines ==
  [name : {"Sec-WebSocket-Key", "Host"}, colon : {TRUE},
   rest : {<<>>, <<"j">>, <<"j", "k">>, <<" ">>, <<" ", "k">>, <<" ", "j", "k">>}]
  \cup [name : {"Sec-WebSocket-Key"}, colon : {FALSE}, rest : {<<>>}]

HeaderSamples ==
  [fn : {"header"}, words : 1..4, lines : UNION {[1..n -> HeaderLines] : n \in 0..3}]

JsonSamples ==
  [fn : {"json"}, e : {[attrs |-> a, tags |-> t] @@ e : e \in FieldEvents, t \in {<<>>, <<"x">>},
                        a \in {<<>>, <<<<"host", "z">>>>, <<<<"k", "1">>, <<"tags", "z">>>>,
                               <<<<"metric", "z">>>>, <<<<"k", "1">>, <<"k", "2">>>>}}]

PercentileSamples == [fn : {"percentile"}, samples : UNION {[1..n -> {-1, 1, 2}] : n \in 0..4},
                      p : {<<0, 1>>, <<1, 2>>, <<99, 100>>, <<1, 1>>}]

Samples ==
  PipeSamples \cup WithSamples \cup FoldSamples \cup QuerySamples \cup LiteralSamples
    \cup HeaderSamples \cup JsonSamples \cup FrameSamples \cup Base64Samples \cup UriSamples \cup PercentileSamples

NoSample == [fn |-> "none"]

MCInit ==
  \/ Init /\ sample = NoSample
  \/ /\ kind = "pure" /\ st = <<>> /\ calls = <<>> /\ unix = 0
     /\ loc = [t \in Threads |-> Idle]
     /\ sample \in Samples

MCNext ==
  \/ Next /\ UNCHANGED sample
  \/ kind = "pure" /\ UNCHANGED <<vars, sample>>

MCSpec == MCInit /\ [][MCNext]_<<vars, sample>>

-----------------------------------------------------------------------------
(* References.                                                              *)

Run(s, e) == PushEvent(InitStreams(s), e, 100)

\* push_event: what comes out of left >> right is what comes out when each event
\* left returns is passed through right on its own, in that order.  What is sent
\* is sent once, and node by node: all a node sends goes before what the nodes
\* after it send, whichever event it is for.  An exception ends the walk there.
PipesCompose ==
  sample.fn = "pipes" =>
    LET first == Run(sample.left, sample.e)
        all == Run(sample.left \o sample.right, sample.e)
        Through(i, k) == Run(SubSeq(sample.right, 1, k), first.events[i])
        throwing == {p \in (DOMAIN sample.right) \X (DOMAIN first.events) : Through(p[2], p[1]).thrown}
        Reached(i, k) == \A p \in throwing : k < p[1] \/ (k = p[1] /\ i <= p[2])
        SentBy(i, k) == IF Reached(i, k)
                        THEN SubSeq(Through(i, k).sent, Len(Through(i, k - 1).sent) + 1, Len(Through(i, k).sent))
                        ELSE <<>>
    IN  /\ all.thrown = (first.thrown \/ throwing # {})
        /\ all.sent = first.sent \o FlattenSeq([k \in DOMAIN sample.right |->
                          FlattenSeq([i \in DOMAIN first.events |-> SentBy(i, k)])])
        /\ ~all.thrown =>
             all.events = FlattenSeq([i \in DOMAIN first.events |->
                                        Through(i, Len(sample.right)).events])

\* by: each event goes all the way through the nodes after it before the next one
\* does, and none comes out.
ByForwards ==
  sample.fn = "pipes" =>
    LET first == Run(sample.left, sample.e)
        rest == Concat([i \in DOMAIN first.events |-> Run(sample.right, first.events[i])])
    IN  Run(sample.left \o By1 \o sample.right, sample.e)
          = IF first.thrown THEN first ELSE After(first, [rest EXCEPT !.events = <<>>])

HoldsStateful(s) ==
  \E i \in DOMAIN s : \/ s[i].op = "where_else" /\ \E j \in DOMAIN s[i].else_stream :
                                                     ~s[i].else_stream[j].ready
                      \/ s[i].op = "split" /\ \E c \in DOMAIN s[i].clauses :
                           \E j \in DOMAIN s[i].clauses[c].stream :
                             ~s[i].clauses[c].stream[j].ready

\* Once a rule's stream is initialised, on_event is set wherever an event can
\* get, inside svec and after by too; only what where() and split() were given to
\* branch to can be called without having been initialised.
InitialisedRuns ==
  sample.fn = "pipes" /\ Run(sample.left \o By1 \o sample.right, sample.e).thrown =>
    HoldsStateful(sample.left) \/ HoldsStateful(sample.right)

\* with(): the last value given for a field is the one that is read, whichever
\* metric the event came with; default_to(): a field that is set stays, but an
\* attribute is replaced by both.
WithReadsBack ==
  sample.fn = "with" =>
    LET e == sample.e
        ne == With(sample, e)
        For(key) == SelectSeq(sample.changes, LAMBDA c : c[1] = key)
    IN  /\ For("metric") # <<>> =>
             Metric(ne) = IF sample.replace THEN Last(For("metric"))[2].v
                          ELSE IF HasMetric(e) THEN Metric(e) ELSE For("metric")[1][2].v
        /\ ~sample.replace => \A f \in DOMAIN e \ {"attrs"} : ne[f] = e[f]
        /\ Attr(ne, "x") = IF For("x") # <<>> THEN Last(For("x"))[2].v ELSE Attr(e, "x")
        /\ For("metric") = <<>> => Metric(ne) = Metric(e)

SumOf(ms) == FoldLeft(LAMBDA x, y : x + y, 0, ms)

\* The metric read from a fold's result is the fold of the metrics; for mean,
\* minimum and maximum if the first event has neither a float nor an integer.
FoldsReadBack ==
  sample.fn = "fold" =>
    LET es == sample.events
        ms == [i \in DOMAIN es |-> Metric(es[i])]
    IN  /\ Metric(Sum(es)) = SumOf(ms)
        /\ Metric(Difference(es)) = ms[1] - SumOf(Tail(ms))
        /\ Metric(Count(es)) = Len(es)
        /\ Has(es[1], "metric_d") =>
             /\ Metric(Mean(es)) * Len(es) = SumOf(ms)
             /\ Metric(Maximum(es)) = MaxOf(Range(ms))
             /\ Metric(Minimum(es)) = -MaxOf({-m : m \in Range(ms)})
        /\ \A i \in DOMAIN es : Sum(es).time >= es[i].time

\* A query without parentheses, read from left to right: not applies to the
\* operand that follows, and and or to everything before them; an operand that
\* cannot change the answer is not looked at.
LeftToRight(tokens, e) ==
  FoldLeft(LAMBDA acc, t :
             IF IsExpr(t)
             THEN LET v == IF acc.neg THEN ~Evaluate(t, e) ELSE Evaluate(t, e)
                      asked == acc.op = "" \/ acc.val = (acc.op = "and")
                  IN  [ok |-> acc.ok /\ acc.operand, operand |-> FALSE, neg |-> FALSE, op |-> "",
                       val |-> IF asked THEN v ELSE acc.val,
                       thrown |-> acc.thrown \/ (asked /\ OutOfRange(t, e))]
             ELSE IF t.symbol = "not"
             THEN [acc EXCEPT !.neg = ~@, !.ok = @ /\ acc.operand]
             ELSE [acc EXCEPT !.op = t.symbol, !.ok = @ /\ ~acc.operand, !.operand = TRUE],
           [ok |-> TRUE, operand |-> TRUE, neg |-> FALSE, op |-> "", val |-> FALSE, thrown |-> FALSE],
           tokens)

\* The parser accepts exactly the well-formed queries, and the tree it builds
\* means what the query says from left to right, and throws when that comes to a
\* number that is too large; parentheses around a query change nothing.
QueryMeaning ==
  sample.fn = "query" /\ (\A i \in DOMAIN sample.tokens :
                            ~IsExpr(sample.tokens[i]) => sample.tokens[i].symbol \notin {"(", ")"}) =>
    LET p == Parse(sample.tokens)
        inner == Parse(<<[symbol |-> "("]>> \o sample.tokens \o <<[symbol |-> ")"]>>)
    IN  \A e \in QueryEvents :
          LET ref == LeftToRight(sample.tokens, e)
          IN  /\ p.ok = (ref.ok /\ ~ref.operand)
              /\ inner.ok = p.ok
              /\ p.ok => OutOfRange(p.query, e) = ref.thrown
              /\ p.ok /\ ~ref.thrown =>
                   Evaluate(p.query, e) = ref.val /\ Evaluate(inner.query, e) = ref.val

\* An integer and a double literal of one value give the same answer for a metric
\* that is set, and for an attribute unless it has decimals and the literal is its
\* integer part; an attribute called ttl is seen by the double, the field of that
\* name by the integer only.  > is the negation of <= wherever there is a number.
LiteralsAgree ==
  sample.fn = "literal" =>
    LET e == sample.e
        Q(op, v) == [node |-> "int", field |-> sample.field, op |-> op, value |-> v]
        int == EvaluateInt(Q(sample.op, sample.value), e)
        double == EvaluateDouble(Q(sample.op, sample.value * Whole), e)
        texts == IF HasAttr(e, sample.field) THEN Attr(e, sample.field) ELSE {}
        Opposed(Eval(_, _), v) == Eval(Q(">", v), e) = ~Eval(Q("<=", v), e)
    IN  /\ sample.field = "metric" /\ HasMetric(e) =>
             int = double /\ Opposed(EvaluateInt, sample.value) /\ Opposed(EvaluateDouble, sample.value)
        /\ sample.field = "size" /\ int # double =>
             \E u \in texts : StoI({u}) = {sample.value} /\ u # sample.value * Whole
        /\ sample.field # "metric" /\ texts # {} => Opposed(EvaluateDouble, sample.value)
        /\ sample.field # "metric" /\ texts = {} => ~double
        /\ sample.field = "ttl" => Opposed(EvaluateInt, sample.value)

\* The length a peer reads from a frame's header is that of the payload, for
\* payloads of up to 65535 bytes.
FrameLength ==
  sample.fn = "frame" /\ sample.len <= 65535 =>
    LET h == FrameHeader(sample.len)
    IN  sample.len = IF h[2] < 126 THEN h[2] ELSE FromBigEndian(SubSeq(h, 3, Len(h)))

\* decode_frame undoes the mask whichever of the three lengths the frame has, and
\* as long as a byte of the frame is missing it says so, wherever it was cut.
FrameDecodes ==
  sample.fn = "masked" =>
    LET n == Len(sample.payload)
        length == CASE sample.len_bytes = 1 -> <<128 + n>>
                    [] sample.len_bytes = 2 -> <<254>> \o BigEndian(n, 2)
                    [] sample.len_bytes = 8 -> <<255, 0, 0, 0, 0>> \o BigEndian(n, 4)
        frame == <<129>> \o length \o sample.mask
                   \o [i \in 1..n |-> sample.payload[i] ^^ sample.mask[((i - 1) % 4) + 1]]
    IN  DecodeFrame(SubSeq(frame, 1, IF sample.read < Len(frame) THEN sample.read ELSE Len(frame)))
          = IF sample.read < Len(frame) THEN Pending
            ELSE [pending |-> FALSE, payload |-> sample.payload]

\* base64Encode loses nothing: the digits give the bytes back.
Base64Decodes ==
  sample.fn = "base64" =>
    LET d == Base64Encode(sample.bytes)
        pad == Len(SelectSeq(d, LAMBDA x : x = 64))
        Byte(i) == LET g == 4 * ((i - 1) \div 3)
                       D(j) == IF d[g + j] = 64 THEN 0 ELSE d[g + j]
                       v == D(1) * 262144 + D(2) * 4096 + D(3) * 64 + D(4)
                   IN  (v \div (256 ^ (2 - ((i - 1) % 3)))) % 256
    IN  /\ Len(d) % 4 = 0
        /\ [i \in 1..(3 * (Len(d) \div 4) - pad) |-> Byte(i)] = sample.bytes

Joined(pairs) ==
  FoldLeft(LAMBDA s, kv : s \o (IF s = <<>> THEN <<>> ELSE <<"&">>) \o kv[1] \o <<"=">> \o kv[2],
           <<>>, pairs)

\* parse_uri takes a URI apart without losing or inventing a character, and of
\* two values of a key the first is kept.
UriTakenApart ==
  sample.fn = "uri" =>
    LET r == ParseUri(sample.uri)
    IN  r.ok =>
          /\ r.index \o <<"?">> \o Joined(r.pairs) = sample.uri
          /\ \A i \in DOMAIN r.pairs :
               (\A j \in 1..(i - 1) : r.pairs[j][1] # r.pairs[i][1]) =>
                 Params(r.pairs)[r.pairs[i][1]] = r.pairs[i][2]

\* A handshake is answered from the first key line with more than one character
\* after its colon, and only if there is one, whatever the other lines are: from
\* all characters but the first, so from the client's key if a blank precedes it.
\* The words of the request are read if there are three.
HandshakeAnswered ==
  sample.fn = "header" =>
    LET request == SubSeq(<<"GET", "/index", "HTTP/1.1", "x">>, 1, sample.words)
        h == ParseHeader(<<request>> \o sample.lines)
        r == MakeHeaderResponse(h.headers)
        keys == {i \in DOMAIN sample.lines : /\ sample.lines[i].name = "Sec-WebSocket-Key"
                                             /\ Len(sample.lines[i].rest) > 1}
        first == CHOOSE i \in keys : \A j \in keys : i <= j
    IN  /\ r.ok <=> keys # {}
        /\ r.ok => r.accept = Tail(sample.lines[first].rest)
        /\ sample.words >= 3 => <<h.method, h.uri, h.version>> = SubSeq(request, 1, 3)

\* The object a dashboard is sent has the metric rules read, and the tags, unless
\* an attribute is called metric: an attribute, the last of its name, replaces any
\* field but the tags.
JsonReadsBack ==
  sample.fn = "json" =>
    LET e == sample.e
        j == JsonStr(e)
        Named(i, k) == e.attrs[i][1] = k
    IN  /\ HasMetric(e) /\ ~HasAttr(e, "metric") => j.metric = Metric(e)
        /\ e.tags # <<>> => j.tags = e.tags
        /\ \A i \in DOMAIN e.attrs :
             (\A k \in (i + 1)..Len(e.attrs) : ~Named(k, e.attrs[i][1]))
               /\ ~(Named(i, "tags") /\ e.tags # <<>>) => j[e.attrs[i][1]] = e.attrs[i][2]

\* A percentile is one of the slots of the reservoir, which count as 0 without a
\* sample: at least that share of the slots is at or below it, and no larger share
\* is below it.  It is one of the samples if the reservoir was full.
PercentileOfSlots ==
  sample.fn = "percentile" =>
    LET slots == 4
        snap == Snapshot(sample.samples, slots)
        m == ReservoirToEvents(snap, <<sample.p>>, [service |-> "s"])[1].metric_d
        Share(set) == Cardinality(set) * sample.p[2]
    IN  /\ Share({i \in DOMAIN snap : snap[i] <= m}) >= slots * sample.p[1]
        /\ Share({i \in DOMAIN snap : snap[i] < m}) <= slots * sample.p[1]
        /\ m \in Range(sample.samples) \/ (m = 0 /\ Len(sample.samples) < slots)

\* rate, counter, ddt, percentiles and reservoir_to_events: every metric is reported
\* once, and what is reported is computed from the right events.
Measures ==
  /\ RateConserves /\ CounterNumbers /\ DdtOfSuccessive /\ SampleReportedOnce
  /\ PercentileOfSlots


\* The query language: what parser.yy builds from a query evaluates, by
\* expression.cpp, to what the query says, for events with any kind of metric.
QueriesMean == QueryMeaning /\ LiteralsAgree

\* Encoders and decoders of the websocket transport and of util.cpp: what was
\* put in is read back.
CodecsReadBack ==
  /\ HandshakeAnswered /\ JsonReadsBack /\ FrameLength /\ FrameDecodes
  /\ Base64Decodes /\ UriTakenApart
=============================================================================
