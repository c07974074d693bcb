------------------------------ MODULE CheckedIR ------------------------------
(***************************************************************************)
(* ir.Check: what a rule artifact must satisfy before it may run           *)
(* (ir/check.go).  An artifact is a sequence of plans, each with a         *)
(* predicate over facts and steps that invoke verbs.  A digest is what it  *)
(* is computed from; NoSlot, NoCompensation and "" are unset fields.       *)
(***************************************************************************)
EXTENDS CheckedTypes

LOCAL INSTANCE FiniteSetsExt

CONSTANTS Limits,              \* how large each part of an artifact may be
          NameBefore(_, _)     \* the order of strings

\* A set in the order of Less.
Sorted(S, Less(_, _)) ==
  SortSeq(FoldSet(LAMBDA s, sofar : Append(sofar, s), <<>>, S), Less)

NoSlot == -1
NoCompensation == [verb |-> "", hash |-> <<>>]
NoRetry == [attempts |-> 0, initial |-> 0, max |-> 0]

FailFast == "fail_fast"
Compensating == "compensating"

isNumeric(type) == type.kind \in Numeric

Comparisons == {"greater", "greater_equal", "less", "less_equal"}
Arithmetic == {"add", "subtract", "multiply", "divide", "modulo"}
StringTests == {"matches", "starts_with", "ends_with"}

\* The type of a binary expression, from those of its operands.
checkBinary(env, operator, left, right) ==
  LET compatible == assignable(env, left, right) \/ assignable(env, right, left)
      ElementOf(list, item) ==
        LET t == resolve(env, list) IN
        t.kind = "list" /\ assignable(env, item, t.element)
      strings == left.kind = "string" /\ right.kind = "string"
      accepted ==
        CASE operator \in {"equal", "not_equal"} -> compatible
          [] operator \in Comparisons ->
               compatible /\ ((isNumeric(left) /\ isNumeric(right)) \/ strings)
          [] operator \in {"and", "or"} -> left.kind = "bool" /\ right.kind = "bool"
          [] operator = "in" -> ElementOf(right, left)
          [] operator = "contains" -> strings \/ ElementOf(left, right)
          [] operator \in StringTests -> strings
          [] operator = "modulo" -> left.kind = "int" /\ right.kind = "int"
          [] operator \in Arithmetic ->
               (operator = "add" /\ strings) \/ (isNumeric(left) /\ isNumeric(right))
          [] OTHER -> FALSE
  IN  CASE ~accepted -> Invalid
        [] operator \notin Arithmetic -> Basic("bool")
        [] strings -> Basic("string")
        [] left.kind = "float" \/ right.kind = "float" \/ operator = "divide" -> Basic("float")
        [] OTHER -> Basic("int")

\* Mutant: any operand may be negated.
NegatesAnything(operator, operand) == operand

checkUnary(operator, operand) ==
  CASE operator = "not" /\ operand.kind = "bool" -> Basic("bool")
    [] operator = "negate" /\ isNumeric(operand) -> operand
    [] OTHER -> Invalid

\* A literal is not too deep and its collections are not too large.
RECURSIVE checkLiteralStructure(_, _)
checkLiteralStructure(literal, depth) ==
  /\ depth <= Limits.depth
  /\ literal.k \in {"list", "object"} =>
       /\ Cardinality(DOMAIN literal.v) <= Limits.items
       /\ \A i \in DOMAIN literal.v : checkLiteralStructure(literal.v[i], depth + 1)

\* The type of an expression, or Invalid.
RECURSIVE checkExpression(_, _, _)
checkExpression(env, e, depth) ==
  LET Sub(x) == checkExpression(env, x, depth + 1) IN
  CASE depth > Limits.depth -> Invalid
    [] e.k = "literal" ->
         IF checkLiteralStructure(e.literal, depth) THEN literalType(env, e.literal) ELSE Invalid
    [] e.k = "fact" ->
         IF e.path \in DOMAIN env.facts THEN parse(env, env.facts[e.path], FALSE) ELSE Invalid
    [] e.k = "unary" ->
         IF Sub(e.a) = Invalid THEN Invalid ELSE checkUnary(e.operator, Sub(e.a))
    [] e.k = "binary" ->
         IF Sub(e.a) = Invalid \/ Sub(e.b) = Invalid THEN Invalid
         ELSE checkBinary(env, e.operator, Sub(e.a), Sub(e.b))
    [] e.k = "call" ->
         IF /\ e.function \in DOMAIN env.functions
            /\ env.functions[e.function].pure /\ env.functions[e.function].total
            /\ Len(e.arguments) = Len(env.functions[e.function].arguments)
            /\ \A i \in DOMAIN e.arguments :
                 assignable(env, Sub(e.arguments[i]),
                            parse(env, env.functions[e.function].arguments[i], FALSE))
         THEN parse(env, env.functions[e.function].result, FALSE) ELSE Invalid
    [] OTHER -> Invalid

\* What is counted while an artifact is checked: the nodes of predicates and
\* of literals.
SumOver(f) == FoldFunction(+, 0, f)

RECURSIVE LiteralNodes(_)
LiteralNodes(literal) ==
  IF literal.k \notin {"list", "object"} THEN 1
  ELSE 1 + SumOver([i \in DOMAIN literal.v |-> LiteralNodes(literal.v[i])])

RECURSIVE Nodes(_)
Nodes(e) ==
  CASE e.k = "unary" -> 1 + Nodes(e.a)
    [] e.k = "binary" -> 1 + Nodes(e.a) + Nodes(e.b)
    [] e.k = "call" -> 1 + SumOver([i \in DOMAIN e.arguments |-> Nodes(e.arguments[i])])
    [] OTHER -> 1

RECURSIVE LiteralNodesIn(_)
LiteralNodesIn(e) ==
  CASE e.k = "literal" -> LiteralNodes(e.literal)
    [] e.k = "unary" -> LiteralNodesIn(e.a)
    [] e.k = "binary" -> LiteralNodesIn(e.a) + LiteralNodesIn(e.b)
    [] e.k = "call" -> SumOver([i \in DOMAIN e.arguments |-> LiteralNodesIn(e.arguments[i])])
    [] OTHER -> 0

-----------------------------------------------------------------------------
(* Steps.                                                                  *)

\* An argument: a literal, a declared fact, or the result of an earlier step.
checkValue(env, value, expected, slots) ==
  CASE value.k = "literal" ->
         /\ checkLiteralStructure(value.literal, 1)
         /\ literalAssignable(env, value.literal, expected)
    [] value.k = "fact" ->
         /\ value.path \in DOMAIN env.facts
         /\ assignable(env, parse(env, env.facts[value.path], FALSE), expected)
    [] value.k = "slot" ->
         /\ value.slot < Len(slots)
         /\ assignable(env, slots[value.slot + 1], expected)
    [] OTHER -> FALSE

RetryOf(contract) ==
  [attempts |-> contract.attempts, initial |-> contract.initialBackoff,
   max |-> contract.maxBackoff]

FencingOf(contract) == IF contract.fencing THEN "required" ELSE "none"

InverseOf(env, contract) ==
  [verb |-> contract.inverse, hash |-> ContractHash(env.verbs[contract.inverse])]

\* Policies left unset are filled in from the contract...
freezeUnset(env, step, contract, policy) ==
  [step EXCEPT
     !.retry = IF @ = NoRetry THEN RetryOf(contract) ELSE @,
     !.idempotency = IF @ = "" THEN contract.idempotency ELSE @,
     !.fencing = IF @ = "" THEN FencingOf(contract) ELSE @,
     !.compensation =
        IF @ = NoCompensation /\ contract.inverse # "" /\ policy = Compensating
        THEN InverseOf(env, contract) ELSE @]

\* ... and those that are set agree with it.
checkStepPolicies(env, step, contract) ==
  /\ step.retry \in {NoRetry, RetryOf(contract)}
  /\ step.idempotency \in {"", contract.idempotency}
  /\ step.fencing \in {"", FencingOf(contract)}
  /\ IF contract.inverse = "" THEN step.compensation = NoCompensation
     ELSE /\ contract.inverse \in DOMAIN env.verbs
          /\ step.compensation \in {NoCompensation, InverseOf(env, contract)}

\* Every argument is declared and of its type, none that is required is
\* missing, and a result is bound to the next slot.
checkStep(env, step, index, slots) ==
  LET known == step.verb \in DOMAIN env.verbs
      contract == env.verbs[step.verb]
      names == {step.arguments[i].name : i \in DOMAIN step.arguments}
  IN  /\ step.ordinal = index - 1
      /\ known
      /\ step.hash = ContractHash(contract)
      /\ checkStepPolicies(env, step, contract)
      /\ Len(step.arguments) <= Limits.arguments
      /\ \A i \in DOMAIN step.arguments :
           /\ i > 1 => NameBefore(step.arguments[i-1].name, step.arguments[i].name)
           /\ step.arguments[i].name \in DOMAIN contract.arguments
           /\ checkValue(env, step.arguments[i].value,
                         parse(env, contract.arguments[step.arguments[i].name], FALSE), slots)
      /\ contract.required \subseteq names
      /\ step.slot # NoSlot =>
           /\ parse(env, contract.result, TRUE).kind # "void"
           /\ step.slot = Len(slots)

\* The types of the result slots after the first n steps of a plan.
RECURSIVE slotsAfter(_, _, _)
slotsAfter(env, steps, n) ==
  IF n = 0 THEN <<>>
  ELSE LET before == slotsAfter(env, steps, n - 1) IN
       IF steps[n].slot = NoSlot THEN before
       ELSE Append(before, parse(env, env.verbs[steps[n].verb].result, TRUE))

-----------------------------------------------------------------------------
(* Plans and artifacts.                                                    *)

\* Dialect, then descending priority, then source order, then identity.
comparePlans(left, right) ==
  \/ left.dialect = "list" /\ right.dialect = "flow"
  \/ /\ left.dialect = right.dialect
     /\ \/ left.priority > right.priority
        \/ left.priority = right.priority /\ left.order < right.order
        \/ /\ left.priority = right.priority /\ left.order = right.order
           /\ NameBefore(left.id, right.id)

checkPlan(env, plan) ==
  /\ plan.dialect \in {"list", "flow"}
  /\ plan.policy \in {FailFast, Compensating}
  /\ Nodes(plan.predicate) <= Limits.nodes
  /\ checkExpression(env, plan.predicate, 1) = Basic("bool")
  /\ Len(plan.steps) <= Limits.stepsPerPlan
  /\ \A n \in DOMAIN plan.steps :
       checkStep(env, plan.steps[n], n, slotsAfter(env, plan.steps, n - 1))

check(env, artifact) ==
  LET plans == artifact.plans
      Steps(i) == {<<i, n>> : n \in DOMAIN plans[i].steps}
      steps == UNION {Steps(i) : i \in DOMAIN plans}
      Id(s) == plans[s[1]].steps[s[2]].id
      Literals(i) ==
        LiteralNodesIn(plans[i].predicate)
          + SumOver([n \in DOMAIN plans[i].steps |->
              SumOver([a \in DOMAIN plans[i].steps[n].arguments |->
                LiteralNodesIn(plans[i].steps[n].arguments[a].value)])])
  IN  /\ artifact.environment = EnvironmentDigest(env)
      /\ Len(plans) <= Limits.plans
      /\ \A i \in DOMAIN plans : checkPlan(env, plans[i])
      /\ \A i, j \in DOMAIN plans :
           i # j => /\ plans[i].id # plans[j].id
                    /\ plans[i].dialect = plans[j].dialect => plans[i].order # plans[j].order
      /\ \A i \in DOMAIN plans : i > 1 => comparePlans(plans[i-1], plans[i])
      /\ Cardinality(steps) <= Limits.steps
      /\ SumOver([i \in DOMAIN plans |-> Literals(i)]) <= Limits.literalNodes
      /\ \A s, t \in steps : s # t => Id(s) # Id(t)

NotChecked == [ok |-> FALSE, plans |-> <<>>]

\* Check: an artifact that passes is returned with its policies filled in.
Check(env, artifact) ==
  LET normal == normalizeEnvironment(env)
      Frozen(plan) ==
        [plan EXCEPT !.steps = [n \in DOMAIN @ |->
            freezeUnset(normal, @[n], normal.verbs[@[n].verb], plan.policy)]]
  IN  IF ValidEnvironment(env) /\ check(normal, artifact)
      THEN [ok |-> TRUE, plans |-> [i \in DOMAIN artifact.plans |-> Frozen(artifact.plans[i])]]
      ELSE NotChecked
=============================================================================
