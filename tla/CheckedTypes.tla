---------------------------- MODULE CheckedTypes ----------------------------
(***************************************************************************)
(* The closed types of checked IR and the values they admit (ir/types.go,  *)
(* ir/value.go, ir/environment.go).                                        *)
(*                                                                         *)
(* A type name is the sequence of its constructors and its base name:      *)
(* list<map<int>> is <<"list", "map", "int">>.  Numbers are counted in     *)
(* halves, so that 1.5 is 3: an int64 is an even number between MinInt and *)
(* MaxInt, a float64 any number up to MaxFloat.  A string is a sequence of *)
(* letters, an object a function from field names.                         *)
(***************************************************************************)
EXTENDS Integers, Sequences, FiniteSets, Functions, TLC

LOCAL INSTANCE SequencesExt

CONSTANTS MaxInt,           \* the largest int64, in halves
          MaxFloat,         \* the largest float64, in halves
          MaxTypeDepth      \* nesting at which the checker gives up (64)

MinInt == -MaxInt - 2

Invalid == [kind |-> "invalid"]

Basic(kind) == [kind |-> kind]
ListOf(element) == IF element = Invalid THEN Invalid ELSE [kind |-> "list", element |-> element]
MapOf(element) == IF element = Invalid THEN Invalid ELSE [kind |-> "map", element |-> element]
Named(name) == [kind |-> "named", name |-> name]

Numeric == {"int", "float"}
Scalars == {"bool", "int", "float", "string", "bytes", "null"}
OpenTypes == {"any", "unknown", "object", "list", "map"}

Builtin(name) ==
  CASE name \in {"bool", "boolean"} -> "bool"
    [] name \in {"int", "integer"} -> "int"
    [] name \in {"float", "double", "number"} -> "float"
    [] OTHER -> name

isReservedTypeName(name) ==
  Builtin(name) \in Scalars \cup {"void"} \cup OpenTypes

\* The type a name stands for, or Invalid.
RECURSIVE parse(_, _, _)
parse(env, name, allowVoid) ==
  LET base == Head(name) IN
  CASE name = <<>> \/ Len(name) > MaxTypeDepth + 1 -> Invalid
    [] Len(name) > 1 /\ base \in {"[]", "list"} -> ListOf(parse(env, Tail(name), FALSE))
    [] Len(name) > 1 /\ base = "map" -> MapOf(parse(env, Tail(name), FALSE))
    [] Len(name) = 1 /\ Builtin(base) \in Scalars -> Basic(Builtin(base))
    [] Len(name) = 1 /\ base = "void" /\ allowVoid -> Basic("void")
    [] Len(name) = 1 /\ ~isReservedTypeName(base)
         /\ base \in DOMAIN env.types -> Named(base)
    [] OTHER -> Invalid

\* A named type unfolded once.
resolve(env, ref) ==
  IF ref.kind # "named" THEN ref
  ELSE LET definition == env.types[ref.name] IN
       IF definition.kind = "object"
       THEN [kind |-> "object", name |-> ref.name,
             fields |-> [f \in DOMAIN definition.fields |->
                            parse(env, definition.fields[f], FALSE)]]
       ELSE [kind |-> definition.kind,
             element |-> parse(env, definition.element, FALSE)]

\* The object type of a literal has no name, and all its fields are required.
requiredObjectFields(env, ref) ==
  IF ref.name = "" THEN DOMAIN ref.fields ELSE env.types[ref.name].required

\* May a value of type `actual' be used where `expected' is asked for?
RECURSIVE assignableDepth(_, _, _, _)
\* ... where both are unfolded.
assignableResolved(env, a, e, depth) ==
  \/ a.kind = "int" /\ e.kind = "float"
  \/ a.kind = e.kind /\ a.kind \in Scalars
  \/ /\ a.kind = e.kind /\ a.kind \in {"list", "map"}
     /\ assignableDepth(env, a.element, e.element, depth + 1)
  \/ /\ a.kind = "object" /\ e.kind = "object"
     /\ \A f \in DOMAIN a.fields :
          /\ f \in DOMAIN e.fields
          /\ assignableDepth(env, a.fields[f], e.fields[f], depth + 1)
     /\ requiredObjectFields(env, e) \subseteq requiredObjectFields(env, a)

assignableDepth(env, actual, expected, depth) ==
  /\ depth <= MaxTypeDepth
  /\ \/ actual.kind = "named" /\ actual = expected
     \/ assignableResolved(env, resolve(env, actual), resolve(env, expected), depth)

assignable(env, actual, expected) ==
  /\ actual # Invalid /\ expected # Invalid
  /\ assignableDepth(env, actual, expected, 0)

-----------------------------------------------------------------------------
(* Literals.                                                               *)

\* The smallest type of a literal: the element type of a list is the widest
\* of the types of its items.
wider(env, sofar, current) ==
  CASE assignable(env, current, sofar) -> sofar
    [] assignable(env, sofar, current) -> current
    [] OTHER -> Invalid

Anonymous(fields) ==
  IF \E f \in DOMAIN fields : fields[f] = Invalid THEN Invalid
  ELSE [kind |-> "object", name |-> "", fields |-> fields]

RECURSIVE literalType(_, _)
literalType(env, literal) ==
  CASE literal.k \in Scalars -> Basic(literal.k)
    [] literal.k = "list" ->
         IF literal.v = <<>> THEN Invalid
         ELSE ListOf(FoldLeft(LAMBDA sofar, item : wider(env, sofar, literalType(env, item)),
                              literalType(env, Head(literal.v)), Tail(literal.v)))
    [] literal.k = "object" ->
         Anonymous([f \in DOMAIN literal.v |-> literalType(env, literal.v[f])])

\* A literal where a type is expected: collections are compared item by item,
\* so that empty ones have a type.
RECURSIVE literalAssignable(_, _, _)
literalMatches(env, literal, type) ==
  CASE type.kind = "object" ->
         /\ literal.k = "object"
         /\ \A f \in DOMAIN literal.v :
              f \in DOMAIN type.fields /\ literalAssignable(env, literal.v[f], type.fields[f])
         /\ env.types[type.name].required \subseteq DOMAIN literal.v
    [] type.kind = "list" ->
         /\ literal.k = "list"
         /\ \A i \in DOMAIN literal.v : literalAssignable(env, literal.v[i], type.element)
    [] type.kind = "map" ->
         /\ literal.k = "object"
         /\ \A f \in DOMAIN literal.v : literalAssignable(env, literal.v[f], type.element)
    [] OTHER -> assignable(env, literalType(env, literal), type)

literalAssignable(env, literal, expected) == literalMatches(env, literal, resolve(env, expected))

-----------------------------------------------------------------------------
(* Values.  A number is a JSON number as it was written; int64 and float64 *)
(* are what the runtime works with.                                        *)

NoValue == [k |-> "none"]
Nil == [k |-> "nil"]
Bool(v) == [k |-> "bool", v |-> v]
Int64(v) == [k |-> "int64", v |-> v]
Float64(v) == [k |-> "float64", v |-> v]
Text(v) == [k |-> "string", v |-> v]
List(v) == [k |-> "list", v |-> v]
Object(v) == [k |-> "object", v |-> v]

\* base64: injective, and its image is recognised.
EncodeToString(bytes) == IF bytes = <<>> THEN <<>> ELSE <<"base64">> \o bytes
CanonicalBase64(text) == text = <<>> \/ text[1] = "base64"

IsInteger(v) == v % 2 = 0 /\ v \in MinInt .. MaxInt

\* NormalizeValue: the value as its declared type, or NoValue.
RECURSIVE normalizeValue(_, _, _, _)
Collected(kind, items) ==
  IF \E i \in DOMAIN items : items[i] = NoValue THEN NoValue ELSE [k |-> kind, v |-> items]

normalizeResolved(env, type, value, depth) ==
  CASE type.kind = "null" /\ value.k = "nil" -> Nil
    [] type.kind = "bool" /\ value.k = "bool" -> value
    [] type.kind = "string" /\ value.k = "string" -> value
    [] type.kind = "bytes" /\ value.k = "bytes" -> Text(EncodeToString(value.v))
    [] type.kind = "bytes" /\ value.k = "string" ->
         IF CanonicalBase64(value.v) THEN value ELSE NoValue
    [] type.kind = "int" /\ value.k \in {"int64", "float64", "number"} ->
         IF IsInteger(value.v) THEN Int64(value.v) ELSE NoValue
    [] type.kind = "float" /\ value.k \in {"int64", "float64", "number"} ->
         IF value.v \in -MaxFloat .. MaxFloat THEN Float64(value.v) ELSE NoValue
    [] \/ type.kind = "list" /\ value.k = "list"
       \/ type.kind = "map" /\ value.k = "object" ->
         Collected(value.k, [i \in DOMAIN value.v |->
                               normalizeValue(env, type.element, value.v[i], depth + 1)])
    [] type.kind = "object" /\ value.k = "object" ->
         IF DOMAIN value.v \subseteq DOMAIN type.fields
              /\ env.types[type.name].required \subseteq DOMAIN value.v
         THEN Collected("object", [f \in DOMAIN value.v |->
                                     normalizeValue(env, type.fields[f], value.v[f], depth + 1)])
         ELSE NoValue
    [] OTHER -> NoValue

normalizeValue(env, ref, value, depth) ==
  IF ref = Invalid \/ depth > MaxTypeDepth THEN NoValue
  ELSE normalizeResolved(env, resolve(env, ref), value, depth)

NormalizeValue(env, name, value) == normalizeValue(env, parse(env, name, FALSE), value, 0)

-----------------------------------------------------------------------------
(* Environments: declared facts, verbs, functions and types.               *)

AllRequired == {"<all>"}   \* required_args left out

normalizeVerbContract(contract) ==
  [contract EXCEPT
     !.required = IF @ = AllRequired THEN DOMAIN contract.arguments ELSE @,
     !.attempts = IF @ = 0 THEN 1 ELSE @,
     !.idempotency = IF @ = "" THEN "none" ELSE @]

ValidContract(env, contract) ==
  LET c == normalizeVerbContract(contract) IN
  /\ c.required \subseteq DOMAIN c.arguments
  /\ c.maxBackoff # 0 => c.initialBackoff <= c.maxBackoff
  /\ c.idempotency \in {"none", "key_required", "sink_guaranteed"}
  /\ \A a \in DOMAIN c.arguments : parse(env, c.arguments[a], FALSE) # Invalid
  /\ parse(env, c.result, TRUE) # Invalid

ValidDefinition(env, name) ==
  LET d == env.types[name] IN
  /\ ~isReservedTypeName(name)
  /\ \/ /\ d.kind = "object" /\ d.element = <<>>
        /\ d.required \subseteq DOMAIN d.fields
        /\ \A f \in DOMAIN d.fields : parse(env, d.fields[f], FALSE) # Invalid
     \/ /\ d.kind \in {"list", "map"} /\ DOMAIN d.fields = {} /\ d.required = {}
        /\ parse(env, d.element, FALSE) # Invalid

\* normalizeEnvironment: its defaults and its refusals.
normalizeEnvironment(env) ==
  [env EXCEPT !.verbs = [v \in DOMAIN @ |-> normalizeVerbContract(@[v])]]

ValidEnvironment(env) ==
  /\ \A name \in DOMAIN env.types : ValidDefinition(env, name)
  /\ \A p \in DOMAIN env.facts : parse(env, env.facts[p], FALSE) # Invalid
  /\ \A v \in DOMAIN env.verbs : ValidContract(env, env.verbs[v])
  /\ \A f \in DOMAIN env.functions :
       /\ \A i \in DOMAIN env.functions[f].arguments :
            parse(env, env.functions[f].arguments[i], FALSE) # Invalid
       /\ parse(env, env.functions[f].result, FALSE) # Invalid

\* SHA-256 of the canonical form: equal exactly when the normal forms are.
ContractHash(contract) == normalizeVerbContract(contract)
EnvironmentDigest(env) == normalizeEnvironment(env)
=============================================================================
