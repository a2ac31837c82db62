------------------------------- MODULE Query -------------------------------
(***************************************************************************)
(* The query language of the index: the parser's semantic actions          *)
(* (parser.yy, compiled into parser.cpp) and the evaluation of the tree    *)
(* (expression.cpp).                                                       *)
(*                                                                         *)
(* A token is a parenthesis, an operator or an action, that is the part of *)
(* the query one "action" rule of the grammar covers (tagged "x", a field  *)
(* compared with nil, a string, an integer or a double).                   *)
(***************************************************************************)
EXTENDS Events, SequencesExt

Whole == 2          \* the units of a whole number: "1.5" reads as 3 units
IntMax == 2 ^ 29    \* bound: stands for the largest int

\* The text of an attribute is, to a comparison with a number, the set of the
\* numbers it begins with, in units: none or one.  std::stod reads it all.
StoD(text) == text

\* std::stoi stops at the point.
StoI(text) == {IF u < 0 THEN -((-u) \div Whole) ELSE u \div Whole : u \in text}

Compare(left, right, op) ==
  CASE op = "=" -> left = right
    [] op = ">" -> left > right
    [] op = ">=" -> left >= right
    [] op = "<" -> left < right
    [] op = "<=" -> left <= right
    [] OTHER -> FALSE

\* Strings know equality and likeness; a pattern is a set of values.
CompareStr(left, right, op) ==
  CASE op = "=" -> left = right
    [] op = "=~" -> left \in right
    [] OTHER -> FALSE

\* An attribute is always compared with "=".
EvaluateString(q, e) ==
  IF q.field \in StringFields THEN CompareStr(Get(e, q.field), q.value, q.op)
  ELSE HasAttr(e, q.field) /\ CompareStr(Attr(e, q.field), q.value, "=")

\* A text without a number compares with none.
CompareAttr(numbers, q) == \E n \in numbers : Compare(n, q.value, q.op)

\* The value of the literal is a whole number.
EvaluateInt(q, e) ==
  CASE q.field \in {"time", "ttl"} -> Compare(Get(e, q.field), q.value, q.op)
    [] q.field = "metric" -> HasMetric(e) /\ Compare(Metric(e), q.value * Whole, q.op)
    [] OTHER -> HasAttr(e, q.field) /\ CompareAttr(StoI(Attr(e, q.field)), q)

\* The value is in units.  Unlike with an integer, a missing metric counts as 0,
\* and time and ttl are looked up among the attributes.
EvaluateDouble(q, e) ==
  IF q.field = "metric" THEN Compare(Metric(e), q.value, q.op)
  ELSE HasAttr(e, q.field) /\ CompareAttr(StoD(Attr(e, q.field)), q)

EvaluateNil(q, e) == ~HasFieldSet(e, q.field)

RECURSIVE Evaluate(_, _)
Evaluate(q, e) ==
  CASE q.node = "true" -> TRUE
    [] q.node = "tagged" -> HasTag(e, q.tag)
    [] q.node = "nil" -> EvaluateNil(q, e)
    [] q.node = "string" -> EvaluateString(q, e)
    [] q.node = "int" -> EvaluateInt(q, e)
    [] q.node = "double" -> EvaluateDouble(q, e)
    [] q.node = "and" -> Evaluate(q.left, e) /\ Evaluate(q.right, e)
    [] q.node = "or" -> Evaluate(q.left, e) \/ Evaluate(q.right, e)
    [] q.node = "not" -> ~Evaluate(q.right, e)

\* std::out_of_range is not caught: the query throws if it comes to an attribute
\* whose number is no int.
RECURSIVE OutOfRange(_, _)
OutOfRange(q, e) ==
  CASE q.node = "int" /\ q.field \notin {"time", "ttl", "metric"} ->
         HasAttr(e, q.field) /\ \E n \in StoI(Attr(e, q.field)) : n \notin (-IntMax - 1)..IntMax
    [] q.node = "and" -> OutOfRange(q.left, e) \/ (Evaluate(q.left, e) /\ OutOfRange(q.right, e))
    [] q.node = "or" -> OutOfRange(q.left, e) \/ (~Evaluate(q.left, e) /\ OutOfRange(q.right, e))
    [] q.node = "not" -> OutOfRange(q.right, e)
    [] OTHER -> FALSE

-----------------------------------------------------------------------------
(* %left OR AND NOT: the three have one precedence and associate to the     *)
(* left, so the parser reduces as soon as an expression is on the stack.    *)

IsExpr(x) == "node" \in DOMAIN x
Symbol(x, s) == ~IsExpr(x) /\ x.symbol = s

RECURSIVE ReduceStack(_)
ReduceStack(stack) ==
  LET n == Len(stack)
      At(i) == stack[n + 1 - i]   \* from the top
  IN  CASE n >= 3 /\ Symbol(At(1), ")") /\ IsExpr(At(2)) /\ Symbol(At(3), "(") ->
             ReduceStack(Append(SubSeq(stack, 1, n - 3), At(2)))
        [] n >= 3 /\ IsExpr(At(1)) /\ Symbol(At(2), "and") /\ IsExpr(At(3)) ->
             ReduceStack(Append(SubSeq(stack, 1, n - 3),
                                [node |-> "and", left |-> At(3), right |-> At(1)]))
        [] n >= 3 /\ IsExpr(At(1)) /\ Symbol(At(2), "or") /\ IsExpr(At(3)) ->
             ReduceStack(Append(SubSeq(stack, 1, n - 3),
                                [node |-> "or", left |-> At(3), right |-> At(1)]))
        [] n >= 2 /\ IsExpr(At(1)) /\ Symbol(At(2), "not") ->
             ReduceStack(Append(SubSeq(stack, 1, n - 2), [node |-> "not", right |-> At(1)]))
        [] OTHER -> stack

\* Mutant of Parse: what is left under the last expression is ignored.
Parse_Top(tokens) ==
  LET stack == FoldLeft(LAMBDA s, t : ReduceStack(Append(s, t)), <<>>, tokens)
  IN  IF IsExpr(Last(stack)) THEN [ok |-> TRUE, query |-> Last(stack)] ELSE [ok |-> FALSE]

\* "true" is a whole query, in parentheses or not, and never part of one.
Parse(tokens) ==
  IF tokens \in {<<[symbol |-> "true"]>>,
                 <<[symbol |-> "("], [symbol |-> "true"], [symbol |-> ")"]>>}
  THEN [ok |-> TRUE, query |-> [node |-> "true"]]
  ELSE LET stack == FoldLeft(LAMBDA s, t : ReduceStack(Append(s, t)), <<>>, tokens)
       IN  IF Len(stack) = 1 /\ IsExpr(stack[1])
           THEN [ok |-> TRUE, query |-> stack[1]]
           ELSE [ok |-> FALSE]
=============================================================================
