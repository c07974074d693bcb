---------------------------- MODULE RuleCompiler ----------------------------
(***************************************************************************)
(* compiler.CompileChecked: from parsed rules and flows to checked IR      *)
(* (compiler/checked.go, compiler/frontend.go).                            *)
(*                                                                         *)
(* A bundle has source files in the order they were given, declarations    *)
(* and executors.  Predicates are the syntax trees of the expression       *)
(* parser; names of facts are sequences of segments, as in Evaluation.     *)
(***************************************************************************)
EXTENDS Evaluation

LOCAL INSTANCE SequencesExt

Rejected == [k |-> "rejected"]

Literal(literal) == [k |-> "literal", literal |-> literal]
FactPath(path) == [k |-> "fact", path |-> path]
Slot(slot) == [k |-> "slot", slot |-> slot]
Unary(operator, a) == [k |-> "unary", operator |-> operator, a |-> a]
Binary(operator, a, b) == [k |-> "binary", operator |-> operator, a |-> a, b |-> b]

-----------------------------------------------------------------------------
(* Predicates.                                                             *)

Plain(operator) == [operator |-> operator, negate |-> FALSE]
Negated(operator) == [operator |-> operator, negate |-> TRUE]

lowerBinaryOperator ==
  "==" :> Plain("equal") @@ "!=" :> Plain("not_equal")
    @@ ">" :> Plain("greater") @@ ">=" :> Plain("greater_equal")
    @@ "<" :> Plain("less") @@ "<=" :> Plain("less_equal")
    @@ "&&" :> Plain("and") @@ "and" :> Plain("and")
    @@ "||" :> Plain("or") @@ "or" :> Plain("or")
    @@ "in" :> Plain("in") @@ "not in" :> Negated("in")
    @@ "contains" :> Plain("contains") @@ "not contains" :> Negated("contains")
    @@ "+" :> Plain("add") @@ "-" :> Plain("subtract") @@ "*" :> Plain("multiply")
    @@ "/" :> Plain("divide") @@ "%" :> Plain("modulo")
    @@ "matches" :> Plain("matches") @@ "not matches" :> Negated("matches")
    @@ "startsWith" :> Plain("starts_with") @@ "not startsWith" :> Negated("starts_with")
    @@ "endsWith" :> Plain("ends_with") @@ "not endsWith" :> Negated("ends_with")

lowerUnaryOperator == "!" :> "not" @@ "not" :> "not" @@ "-" :> "negate"

\* a.b and a["b"] name the fact a.b, a[0] the fact "a[0]".
RECURSIVE expressionFactPath(_)
expressionFactPath(node) ==
  LET base == expressionFactPath(node.a) IN
  CASE node.k = "identifier" -> <<node.v>>
    [] node.k = "member" /\ ~node.optional /\ base # <<>> ->
         (CASE node.property.k = "string" -> Append(base, node.property.v)
            [] node.property.k = "int" ->
                 [base EXCEPT ![Len(base)] = @ \o "[" \o ToString(node.property.v) \o "]"]
            [] OTHER -> <<>>)
    [] OTHER -> <<>>

RECURSIVE lowerExprNode(_)
lowerExprNode(node) ==
  LET a == lowerExprNode(node.a)
      b == lowerExprNode(node.b)
      items == [i \in DOMAIN node.v |-> lowerExprNode(node.v[i])]
  IN
  CASE node.k = "nil" -> Literal([k |-> "null"])
    [] node.k \in {"bool", "int", "float", "string"} -> Literal([k |-> node.k, v |-> node.v])
    [] node.k = "array" ->
         IF \A i \in DOMAIN items : items[i].k = "literal"
         THEN Literal([k |-> "list", v |-> [i \in DOMAIN items |-> items[i].literal]])
         ELSE Rejected
    [] node.k \in {"identifier", "member"} ->
         LET path == expressionFactPath(node) IN
         IF path = <<>> THEN Rejected ELSE FactPath(path)
    [] node.k = "unary" ->
         IF a = Rejected \/ node.operator \notin DOMAIN lowerUnaryOperator THEN Rejected
         ELSE Unary(lowerUnaryOperator[node.operator], a)
    [] node.k = "binary" ->
         IF a = Rejected \/ b = Rejected \/ node.operator \notin DOMAIN lowerBinaryOperator
         THEN Rejected
         ELSE LET lowered == lowerBinaryOperator[node.operator]
                  result == Binary(lowered.operator, a, b)
              IN  IF lowered.negate THEN Unary("not", result) ELSE result
    [] OTHER -> Rejected   \* calls and builtins among them

trueExpression == Literal([k |-> "bool", v |-> TRUE])

conjunction(expressions) ==
  IF expressions = <<>> THEN trueExpression
  ELSE FoldLeft(LAMBDA x, y : Binary("and", x, y), Head(expressions), Tail(expressions))

-----------------------------------------------------------------------------
(* Steps.                                                                  *)

\* Literals of arguments; a map that repeats a key is refused.
RECURSIVE lowerASTLiteral(_)
lowerASTLiteral(literal) ==
  LET items == [i \in DOMAIN literal.v |-> lowerASTLiteral(literal.v[i])]
      keys == {literal.v[i].key : i \in DOMAIN literal.v}
      Entry(key) == literal.v[CHOOSE i \in DOMAIN literal.v : literal.v[i].key = key]
      fields == [key \in keys |-> lowerASTLiteral(Entry(key).value)]
      Bad(f) == \E i \in DOMAIN f : f[i] = Rejected
  IN
  CASE literal.k \in {"string", "int", "float", "bool"} -> literal
    [] literal.k = "list" -> IF Bad(items) THEN Rejected ELSE [k |-> "list", v |-> items]
    [] literal.k = "map" ->
         IF Cardinality(keys) < Len(literal.v) \/ Bad(fields) THEN Rejected
         ELSE [k |-> "object", v |-> fields]

\* `bindings' are the result names bound so far, in the order of their slots.
lowerArgumentValue(value, bindings) ==
  CASE value.k = "literal" ->
         LET literal == lowerASTLiteral(value.literal) IN
         IF literal = Rejected THEN Rejected ELSE Literal(literal)
    [] value.k = "path" -> FactPath(value.path)
    [] value.k = "reference" ->
         IF Contains(bindings, value.name)
         THEN Slot((CHOOSE i \in DOMAIN bindings : bindings[i] = value.name) - 1)
         ELSE Rejected

lowerArguments(arguments, bindings) ==
  LET names == {arguments[i].name : i \in DOMAIN arguments}
      Value(name) == arguments[CHOOSE i \in DOMAIN arguments : arguments[i].name = name].value
      Lower(name) == [name |-> name, value |-> lowerArgumentValue(Value(name), bindings)]
      sorted == Sorted(names, NameBefore)
      lowered == [i \in DOMAIN sorted |-> Lower(sorted[i])]
  IN  IF \/ Cardinality(names) < Len(arguments)
         \/ \E i \in DOMAIN lowered : lowered[i].value = Rejected
      THEN Rejected ELSE [k |-> "arguments", v |-> lowered]

freezeCompensation(env, contract, policy) ==
  IF /\ policy = Compensating
     /\ contract.inverse # "" /\ contract.inverse \in DOMAIN env.verbs
  THEN InverseOf(env, contract) ELSE NoCompensation

freezeStepPolicies(env, contract, policy) ==
  [retry |-> [RetryOf(contract) EXCEPT !.attempts = IF @ = 0 THEN 1 ELSE @],
   idempotency |-> IF contract.idempotency = "" THEN "none" ELSE contract.idempotency,
   fencing |-> FencingOf(contract),
   compensation |-> freezeCompensation(env, contract, policy)]

\* Required arguments are compared as they were declared, so that a list left
\* out counts as an empty one.
Declared(contract) == IF contract.required = AllRequired THEN {} ELSE contract.required

validateCompensationContract(env, contract) ==
  /\ contract.inverse \in DOMAIN env.verbs
  /\ contract.arguments = env.verbs[contract.inverse].arguments
  /\ Declared(contract) = Declared(env.verbs[contract.inverse])

\* An invocation is [verb, arguments, binding]; an unknown verb, a bad argument,
\* a binding that is taken or a missing inverse refuses the plan.
lowerInvocation(sofar, invocation, planID, env, policy) ==
  LET contract == env.verbs[invocation.verb]
      arguments == lowerArguments(invocation.arguments, sofar.bindings)
      frozen == freezeStepPolicies(env, contract, policy)
      index == Len(sofar.steps)
      bound == invocation.binding # ""
  IN
  IF ~sofar.ok THEN sofar
  ELSE IF \/ invocation.verb \notin DOMAIN env.verbs
          \/ arguments = Rejected
          \/ policy = Compensating /\ ~validateCompensationContract(env, contract)
          \/ bound /\ Contains(sofar.bindings, invocation.binding)
  THEN [sofar EXCEPT !.ok = FALSE]
  ELSE [ok |-> TRUE,
        bindings |-> IF bound THEN Append(sofar.bindings, invocation.binding) ELSE sofar.bindings,
        steps |-> Append(sofar.steps,
          [id |-> <<planID, index + 1>>, ordinal |-> index, verb |-> invocation.verb,
           hash |-> ContractHash(contract), arguments |-> arguments.v,
           slot |-> IF bound THEN Len(sofar.bindings) ELSE NoSlot] @@ frozen)]

lowerInvocations(planID, invocations, env, policy) ==
  FoldLeft(LAMBDA sofar, i : lowerInvocation(sofar, i, planID, env, policy),
           [ok |-> TRUE, bindings |-> <<>>, steps |-> <<>>], invocations)

-----------------------------------------------------------------------------
(* Rules, flows and bundles.                                               *)

LoweredPlan(declaration, dialect, order, expressions, invocations, env, policy) ==
  LET lowered == lowerInvocations(declaration.name, invocations, env, policy) IN
  IF ~lowered.ok \/ \E i \in DOMAIN expressions : expressions[i] = Rejected THEN Rejected
  ELSE [k |-> "plan", id |-> declaration.name, dialect |-> dialect, order |-> order,
        priority |-> declaration.priority, policy |-> policy,
        predicate |-> conjunction(expressions), steps |-> lowered.steps]

\* The predicates of all blocks guard the effects of all blocks.
lowerListRule(rule, order, env, policy) ==
  LET guarded == SelectSeq(rule.blocks, LAMBDA b : b.when.k # "empty")
      expressions == [i \in DOMAIN guarded |-> lowerExprNode(guarded[i].when)]
      effects == FlattenSeq([i \in DOMAIN rule.blocks |-> rule.blocks[i].then])
  IN  LoweredPlan(rule, "list", order, expressions, effects, env, policy)

lowerFlow(flow, order, env, policy) ==
  LoweredPlan(flow, "flow", order,
              IF flow.when.k = "empty" THEN <<>> ELSE <<lowerExprNode(flow.when)>>,
              flow.steps, env, policy)

\* A step names its result before or after the call, not both.
normalizeFlowBindings(flow) ==
  [flow EXCEPT !.steps = [i \in DOMAIN @ |->
     [@[i] EXCEPT !.binding = IF @ = "" THEN flow.steps[i].arrow ELSE @]]]

parseSources(files) ==
  LET Valid(file) ==
        /\ file.dialect = "list" => file.flows = <<>>
        /\ file.dialect = "flow" => file.rules = <<>>
        /\ \A i \in DOMAIN file.flows : \A j \in DOMAIN file.flows[i].steps :
             file.flows[i].steps[j].binding = "" \/ file.flows[i].steps[j].arrow = ""
      sorted == SortSeq(files, LAMBDA f, g : NameBefore(f.path, g.path))
  IN  IF \/ \E i, j \in DOMAIN files : i # j /\ files[i].path = files[j].path
         \/ \E i \in DOMAIN files : ~Valid(files[i])
      THEN [ok |-> FALSE, files |-> <<>>] ELSE [ok |-> TRUE, files |-> sorted]

\* Rules and flows are numbered in the order of files, then of declarations.
LoweredPlans(files, env, policy) ==
  LET rules == FlattenSeq([i \in DOMAIN files |-> files[i].rules])
      flows == FlattenSeq([i \in DOMAIN files |-> files[i].flows])
  IN  [i \in DOMAIN rules |-> lowerListRule(rules[i], i - 1, env, policy)]
        \o [i \in DOMAIN flows |->
              lowerFlow(normalizeFlowBindings(flows[i]), i - 1, env, policy)]

CheckedPlans(env, plans) ==
  IF \E i \in DOMAIN plans : plans[i] = Rejected THEN NotChecked
  ELSE Check(env, [environment |-> EnvironmentDigest(env),
                   plans |-> SortSeq(plans, comparePlans)])

CompileChecked(bundle, policy) ==
  LET parsed == parseSources(bundle.files) IN
  IF ~parsed.ok THEN NotChecked
  ELSE CheckedPlans(bundle.env, LoweredPlans(parsed.files, bundle.env, policy))
=============================================================================
