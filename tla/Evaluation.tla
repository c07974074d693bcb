----------------------------- MODULE Evaluation -----------------------------
(***************************************************************************)
(* How the runtime reads facts and evaluates checked predicates            *)
(* (runtime/checked_workflow.go, runtime/durable_admission.go), and how    *)
(* the outbox reads them when it enqueues a step (schema/saga_checked.go). *)
(*                                                                         *)
(* A fact name or an object field is the sequence of its segments between  *)
(* dots: order.total is <<"order", "total">>.  The facts of a request are  *)
(* a function from names to values.                                        *)
(***************************************************************************)
EXTENDS CheckedIR

LOCAL INSTANCE SequencesExt

Error(why) == [k |-> "error", why |-> why]
IsError(value) == value.k = "error"

-----------------------------------------------------------------------------
(* Literals and numbers.                                                   *)

RECURSIVE checkedLiteralValue(_)
checkedLiteralValue(literal) ==
  LET Inner == [i \in DOMAIN literal.v |-> checkedLiteralValue(literal.v[i])] IN
  CASE literal.k = "null" -> Nil
    [] literal.k = "bool" -> Bool(literal.v)
    [] literal.k = "int" -> Int64(literal.v)
    [] literal.k = "float" -> Float64(literal.v)
    [] literal.k = "string" -> Text(literal.v)
    [] literal.k = "bytes" -> Text(EncodeToString(literal.v))
    [] literal.k = "list" -> List(Inner)
    [] literal.k = "object" -> Object(Inner)

\* schema has its own copy of the conversion.
RECURSIVE checkedSagaLiteral(_)
checkedSagaLiteral(literal) ==
  LET Inner == [i \in DOMAIN literal.v |-> checkedSagaLiteral(literal.v[i])] IN
  CASE literal.k = "null" -> Nil
    [] literal.k = "bool" -> Bool(literal.v)
    [] literal.k = "int" -> Int64(literal.v)
    [] literal.k = "float" -> Float64(literal.v)
    [] literal.k = "string" -> Text(literal.v)
    [] literal.k = "bytes" -> Text(EncodeToString(literal.v))
    [] literal.k = "list" -> List(Inner)
    [] literal.k = "object" -> Object(Inner)

\* A float64 is never an integer, even when it has no fraction; a JSON number is.
checkedInteger(value) ==
  \/ value.k = "int64"
  \/ value.k = "number" /\ IsInteger(value.v)

checkedFloat(value) ==
  \/ checkedInteger(value)
  \/ value.k \in {"float64", "number"} /\ value.v \in -MaxFloat .. MaxFloat

checkedIntResult(v) == IF v \in MinInt .. MaxInt THEN Int64(v) ELSE Error("overflow")
checkedFloatResult(v) == IF v \in -MaxFloat .. MaxFloat THEN Float64(v) ELSE Error("overflow")

Abs(n) == IF n < 0 THEN -n ELSE n
SignOf(n) == IF n < 0 THEN -1 ELSE 1
\* Go's division and remainder truncate; in halves, so is the rounding of floats.
Quotient(a, b) == SignOf(a) * SignOf(b) * (Abs(a) \div Abs(b))
Remainder(a, b) == SignOf(a) * (Abs(a) % Abs(b))
Product(a, b) == Quotient(a * b, 2)

checkedArithmetic(operator, left, right) ==
  LET l == left.v  r == right.v  ints == checkedInteger(left) /\ checkedInteger(right) IN
  CASE ints /\ operator = "add" -> checkedIntResult(l + r)
    [] ints /\ operator = "subtract" -> checkedIntResult(l - r)
    [] ints /\ operator = "multiply" -> checkedIntResult(Product(l, r))
    [] ints /\ operator = "modulo" ->
         IF r = 0 THEN Error("zero") ELSE Int64(Remainder(l, r))
    [] ~(checkedFloat(left) /\ checkedFloat(right)) -> Error("type")
    [] operator = "add" -> checkedFloatResult(l + r)
    [] operator = "subtract" -> checkedFloatResult(l - r)
    [] operator = "multiply" -> checkedFloatResult(Product(l, r))
    [] operator = "divide" ->
         IF r = 0 THEN Error("zero") ELSE checkedFloatResult(Quotient(2 * l, r))
    [] OTHER -> Error("type")

-----------------------------------------------------------------------------
(* Comparisons.                                                            *)

\* Numbers by value, collections item by item, the rest by kind and value.
RECURSIVE checkedEqual(_, _)
checkedEqual(left, right) ==
  IF checkedFloat(left) THEN checkedFloat(right) /\ left.v = right.v
  ELSE IF left.k \in {"list", "object"}
  THEN /\ right.k = left.k
       /\ DOMAIN left.v = DOMAIN right.v
       /\ \A i \in DOMAIN left.v : checkedEqual(left.v[i], right.v[i])
  ELSE left.k = right.k /\ left = right

\* The order of strings, letter by letter.
RECURSIVE TextBefore(_, _)
TextBefore(s, t) ==
  \/ s = <<>> /\ t # <<>>
  \/ s # <<>> /\ t # <<>> /\ NameBefore(s[1], t[1])
  \/ s # <<>> /\ t # <<>> /\ s[1] = t[1] /\ TextBefore(Tail(s), Tail(t))

compareCheckedValues(operator, left, right) ==
  LET Decide(less, same) ==
        Bool(CASE operator = "less" -> less
               [] operator = "less_equal" -> less \/ same
               [] operator = "greater" -> ~less /\ ~same
               [] operator = "greater_equal" -> ~less)
  IN  CASE left.k = "string" ->
             IF right.k # "string" THEN Error("type")
             ELSE Decide(TextBefore(left.v, right.v), left.v = right.v)
        [] ~(checkedFloat(left) /\ checkedFloat(right)) -> Error("type")
        [] OTHER -> Decide(left.v < right.v, left.v = right.v)

Occurs(part, text) ==
  \E i \in 1 .. Len(text) + 1 : IsPrefix(part, SubSeq(text, i, Len(text)))

checkedContains(container, item) ==
  CASE container.k = "string" ->
         IF item.k = "string" THEN Bool(Occurs(item.v, container.v)) ELSE Error("type")
    [] container.k = "list" ->
         Bool(\E i \in DOMAIN container.v : checkedEqual(container.v[i], item))
    [] OTHER -> Error("type")

\* A pattern of letters matches where it occurs; an unclosed group is refused.
MatchString(pattern, text) ==
  IF \E i \in DOMAIN pattern : pattern[i] = "(" THEN Error("pattern")
  ELSE Bool(Occurs(pattern, text))

evaluateCheckedBinary(operator, left, right) ==
  LET strings == left.k = "string" /\ right.k = "string"
      bools == left.k = "bool" /\ right.k = "bool"
  IN
  CASE operator = "equal" -> Bool(checkedEqual(left, right))
    [] operator = "not_equal" -> Bool(~checkedEqual(left, right))
    [] operator = "and" -> IF bools THEN Bool(left.v /\ right.v) ELSE Error("type")
    [] operator = "or" -> IF bools THEN Bool(left.v \/ right.v) ELSE Error("type")
    [] operator \in Comparisons -> compareCheckedValues(operator, left, right)
    [] operator = "contains" -> checkedContains(left, right)
    [] operator = "in" -> checkedContains(right, left)
    [] operator \in StringTests ->
         (CASE ~strings -> Error("type")
            [] operator = "starts_with" -> Bool(IsPrefix(right.v, left.v))
            [] operator = "ends_with" -> Bool(IsSuffix(right.v, left.v))
            [] operator = "matches" -> MatchString(right.v, left.v))
    [] operator = "add" /\ left.k = "string" ->
         IF strings THEN Text(left.v \o right.v) ELSE Error("type")
    [] operator \in Arithmetic -> checkedArithmetic(operator, left, right)
    [] OTHER -> Error("type")

-----------------------------------------------------------------------------
(* Facts.                                                                  *)

Missing == [k |-> "missing"]

\* A name is looked up as it stands, then segment by segment through objects.
RECURSIVE Walk(_, _)
Walk(value, path) ==
  IF path = <<>> THEN value
  ELSE IF value.k = "object" /\ <<Head(path)>> \in DOMAIN value.v
  THEN Walk(value.v[<<Head(path)>>], Tail(path))
  ELSE Missing

lookupWorkflowFact(facts, path) ==
  IF path \in DOMAIN facts THEN facts[path] ELSE Walk(Object(facts), path)

\* Mutant: objects are searched before the name is taken as it stands.
NestedFirst(facts, path) ==
  LET nested == Walk(Object(facts), path) IN
  IF nested # Missing THEN nested ELSE IF path \in DOMAIN facts THEN facts[path] ELSE Missing

\* schema has its own copy of the lookup.
lookupCheckedSagaFact(facts, path) ==
  IF path \in DOMAIN facts THEN facts[path] ELSE Walk(Object(facts), path)

\* Names without a dot come first.
orderedWorkflowFactKeys(object) ==
  Sorted(DOMAIN object,
    LAMBDA p, q : \/ Len(p) = 1 /\ Len(q) > 1
                  \/ (Len(p) = 1) = (Len(q) = 1) /\ TextBefore(p, q))

Put(facts, path, value) == (path :> value) @@ facts

\* An object also gives its members, under the name of the object.
RECURSIVE flattenWorkflowFact(_, _, _)
flattenWorkflowFact(target, prefix, value) ==
  IF value.k # "object" THEN target
  ELSE FoldLeft(LAMBDA t, key :
                  flattenWorkflowFact(Put(t, prefix \o key, value.v[key]),
                                      prefix \o key, value.v[key]),
                target, orderedWorkflowFactKeys(value.v))

mergeWorkflowFactOverrides(target, overrides) ==
  FoldLeft(LAMBDA t, path : flattenWorkflowFact(Put(t, path, overrides[path]), path, overrides[path]),
           target, orderedWorkflowFactKeys(overrides))

\* JSON: what is decoded after it was encoded.  Numbers come back as they are
\* written, raw bytes as base64.
RECURSIVE throughJSON(_)
throughJSON(value) ==
  CASE value.k \in {"int64", "float64", "number"} -> [k |-> "number", v |-> value.v]
    [] value.k = "bytes" -> Text(EncodeToString(value.v))
    [] value.k \in {"list", "object"} ->
         [value EXCEPT !.v = [i \in DOMAIN @ |-> throughJSON(@[i])]]
    [] OTHER -> value

Accepted(facts) == [ok |-> TRUE, v |-> facts]
NoFacts == [ok |-> FALSE, v |-> <<>>]

\* A fact that is present takes its declared type, or there are no facts.
Replaced(facts, path, normalized) ==
  IF normalized = NoValue THEN NoFacts ELSE Accepted(Put(facts, path, normalized))

validateFactType(env, sofar, path) ==
  LET value == lookupWorkflowFact(sofar.v, path) IN
  IF ~sofar.ok \/ value = Missing THEN sofar
  ELSE Replaced(sofar.v, path, NormalizeValue(env, env.facts[path], value))

\* One declared fact after the other.
validateAdmissionFactTypes(env, facts) ==
  FoldLeft(LAMBDA sofar, path : validateFactType(env, sofar, path),
           Accepted(facts), Sorted(DOMAIN env.facts, TextBefore))

\* The execution's own copy, flattened and typed again.
Flattened(env, typed) ==
  IF ~typed.ok THEN NoFacts
  ELSE validateAdmissionFactTypes(env,
         mergeWorkflowFactOverrides(<<>>, throughJSON(Object(typed.v)).v))

\* The facts an execution works with.
normalizedWorkflowFacts(env, facts) == Flattened(env, validateAdmissionFactTypes(env, facts))

-----------------------------------------------------------------------------
(* Expressions and arguments.                                              *)

RECURSIVE evaluateCheckedExpression(_, _)
evaluateCheckedExpression(e, facts) ==
  LET a == evaluateCheckedExpression(e.a, facts)
      b == evaluateCheckedExpression(e.b, facts)
  IN
  CASE e.k = "literal" -> checkedLiteralValue(e.literal)
    [] e.k = "fact" ->
         LET value == lookupWorkflowFact(facts, e.path) IN
         IF value = Missing THEN Error("missing") ELSE value
    [] e.k = "unary" /\ IsError(a) -> a
    [] e.k = "unary" /\ e.operator = "not" ->
         IF a.k = "bool" THEN Bool(~a.v) ELSE Error("type")
    [] e.k = "unary" /\ e.operator = "negate" ->
         (CASE checkedInteger(a) -> IF a.v = MinInt THEN Error("overflow") ELSE Int64(-a.v)
            [] checkedFloat(a) -> Float64(-a.v)
            [] OTHER -> Error("type"))
    [] e.k = "binary" /\ IsError(a) -> a
    [] e.k = "binary" /\ e.operator = "and" /\ a.k = "bool" /\ a.v = FALSE -> Bool(FALSE)
    [] e.k = "binary" /\ e.operator = "or" /\ a.k = "bool" /\ a.v = TRUE -> Bool(TRUE)
    [] e.k = "binary" /\ IsError(b) -> b
    [] e.k = "binary" -> evaluateCheckedBinary(e.operator, a, b)
    [] OTHER -> Error("call")

evaluateCheckedPredicate(e, facts) ==
  LET value == evaluateCheckedExpression(e, facts) IN
  IF IsError(value) \/ value.k = "bool" THEN value ELSE Error("type")

resolveCheckedWorkflowValue(value, facts, slots) ==
  CASE value.k = "literal" -> checkedLiteralValue(value.literal)
    [] value.k = "fact" ->
         LET fact == lookupWorkflowFact(facts, value.path) IN
         IF fact = Missing THEN Error("missing") ELSE fact
    [] value.k = "slot" ->
         IF value.slot < Len(slots) THEN slots[value.slot + 1] ELSE Error("slot")

resolveCheckedStepValue(value, facts, slots) ==
  CASE value.k = "literal" -> checkedSagaLiteral(value.literal)
    [] value.k = "fact" ->
         LET fact == lookupCheckedSagaFact(facts, value.path) IN
         IF fact = Missing THEN Error("missing") ELSE fact
    [] value.k = "slot" ->
         IF value.slot < Len(slots) THEN slots[value.slot + 1] ELSE Error("slot")
=============================================================================
