------------------------------ MODULE Programs ------------------------------
(***************************************************************************)
(* Small bundles and requests for ProgramPipeline: every predicate of one  *)
(* or two operators over facts of each type, and bundles whose steps use   *)
(* facts, literals and results.                                            *)
(***************************************************************************)
EXTENDS Integers, Sequences, FiniteSets, TLC

LOCAL INSTANCE Functions

\* The order of the letters and names used here.
Alphabet ==
  <<"(", "1", "2", "a", "all.eff", "any.effx", "b", "base64", "blob", "c", "f", "flow", "id",
    "l", "m", "n", "note", "o", "rule", "s", "ticket", "total", "u", "x", "y">>

Place == [s \in Range(Alphabet) |-> CHOOSE i \in DOMAIN Alphabet : Alphabet[i] = s]

Before(s, t) == Place[s] < Place[t]

SmallLimits ==
  [depth |-> 8, nodes |-> 16, items |-> 4, literalNodes |-> 16, plans |-> 4, steps |-> 6,
   stepsPerPlan |-> 4, arguments |-> 4]

-----------------------------------------------------------------------------
(* One predicate.                                                          *)

Ident(name) == [k |-> "identifier", v |-> name]
FieldOf(name, field) ==
  [k |-> "member", a |-> Ident(name), optional |-> FALSE,
   property |-> [k |-> "string", v |-> field]]
Lit(kind, v) == [k |-> kind, v |-> v]
Op(operator, a, b) == [k |-> "binary", operator |-> operator, a |-> a, b |-> b]
Not(a) == [k |-> "unary", operator |-> "!", a |-> a]
Minus(a) == [k |-> "unary", operator |-> "-", a |-> a]

PredicateFacts ==
  (<<"n">> :> <<"int">>) @@ (<<"x">> :> <<"float">>) @@ (<<"s">> :> <<"string">>)
    @@ (<<"b">> :> <<"bool">>) @@ (<<"l">> :> <<"list", "int">>) @@ (<<"y">> :> <<"bytes">>)
    @@ (<<"o">> :> <<"Order">>) @@ (<<"o", "n">> :> <<"int">>)
    @@ (<<"m">> :> <<"map", "float">>)

Order ==
  [kind |-> "object", element |-> <<>>, required |-> {<<"n">>},
   fields |-> (<<"n">> :> <<"int">>) @@ (<<"x">> :> <<"float">>)]

PredicateEnvironment ==
  [facts |-> PredicateFacts, verbs |-> <<>>, functions |-> <<>>, types |-> "Order" :> Order]

Numbers == {Ident("n"), Ident("x"), FieldOf("o", "n"), Lit("int", 2), Lit("int", 6), Lit("float", 3)}
Others ==
  {Ident("s"), Ident("b"), Ident("l"), Ident("o"), Ident("m"), Ident("y"),
   [k |-> "nil"], Lit("bool", TRUE), Lit("string", <<"a">>), Lit("string", <<"(">>),
   Lit("array", <<Lit("int", 2), Lit("float", 3)>>), Lit("array", <<>>)}
Leaves == Numbers \cup Others

Tests ==
  {"==", "!=", ">", "<=", "&&", "||", "in", "not in", "contains", "startsWith", "not endsWith",
   "matches"}
Sums == {"+", "-", "*", "/", "%"}

Predicates ==
  {Op(operator, a, b) : operator \in Tests, a \in Leaves, b \in Leaves}
    \cup {Op("==", Op(operator, a, b), b) : operator \in Sums, a \in Leaves, b \in Leaves}
    \cup {Not(a) : a \in Leaves} \cup {Op("<", Minus(a), a) : a \in Leaves}
    \cup {Op(operator, Op("in", a, Ident("l")), Op(">", b, Lit("int", 2))) :
            operator \in {"&&", "||"}, a \in Numbers, b \in Numbers}

PredicateBundle(predicate) ==
  [identity |-> <<"rules", "1">>, source |-> "predicate", env |-> PredicateEnvironment,
   executors |-> {},
   files |-> <<[path |-> "all.eff", dialect |-> "list", flows |-> <<>>,
                rules |-> <<[name |-> "rule", priority |-> 0,
                             blocks |-> <<[when |-> predicate, then |-> <<>>]>>]>>]>>]

Number(v) == [k |-> "number", v |-> v]
Double(v) == [k |-> "float64", v |-> v]
Str(v) == [k |-> "string", v |-> v]
Obj(v) == [k |-> "object", v |-> v]
Lst(v) == [k |-> "list", v |-> v]

FullFacts(n, x, on) ==
  (<<"n">> :> n) @@ (<<"x">> :> x) @@ (<<"s">> :> Str(<<"a", "b">>))
    @@ (<<"b">> :> [k |-> "bool", v |-> TRUE]) @@ (<<"l">> :> Lst(<<n>>))
    @@ (<<"o">> :> Obj((<<"n">> :> on) @@ (<<"x">> :> x))) @@ (<<"m">> :> Obj(<<"a">> :> n))
    @@ (<<"y">> :> Str(<<"base64", "a">>))

PredicateRequests ==
  {FullFacts(Number(2), Number(3), Number(0)),
   FullFacts(Double(-8), Double(0), Double(6)),
   FullFacts(Number(6), Number(20), Double(2)),
   FullFacts(Number(0), Number(2), Number(3)),                \* o.n is not an integer
   (<<"o", "n">> :> Number(6)) @@ FullFacts(Number(2), Number(3), Number(0)),
   (<<"n">> :> Number(2)) @@ (<<"s">> :> Str(<<"(">>)) @@ (<<"u">> :> Number(2)),
   <<"n">> :> Str(<<"a">>)}

-----------------------------------------------------------------------------
(* Steps.                                                                  *)

Contract(arguments, required, result, inverse) ==
  [arguments |-> arguments, required |-> required, result |-> result, attempts |-> 0,
   initialBackoff |-> 1, maxBackoff |-> 2, idempotency |-> "", inverse |-> inverse,
   fencing |-> inverse # ""]

ReviewArguments == ("id" :> <<"string">>) @@ ("total" :> <<"float">>)
RecordArguments == ("ticket" :> <<"string">>) @@ ("blob" :> <<"bytes">>) @@ ("note" :> <<"map", "float">>)

OrderEnvironment(required) ==
  [facts |-> (<<"o", "id">> :> <<"string">>) @@ (<<"o", "total">> :> <<"float">>)
               @@ (<<"blob">> :> <<"bytes">>) @@ (<<"y">> :> <<"bytes">>)
               @@ (<<"m">> :> <<"map", "float">>)
               @@ (<<"o", "a", "b">> :> <<"int">>),
   functions |-> <<>>, types |-> <<>>,
   verbs |-> ("Review" :> Contract(ReviewArguments, {"id", "total"}, <<"string">>, "Cancel"))
          @@ ("Cancel" :> Contract(ReviewArguments, {"id", "total"}, <<"string">>, "Review"))
          @@ ("Record" :> Contract(RecordArguments, required, <<"int">>, "Record"))]

Argument(name, value) == [name |-> name, value |-> value]
Path(path) == [k |-> "path", path |-> path]
Value(literal) == [k |-> "literal", literal |-> literal]
Ref(name) == [k |-> "reference", name |-> name]
Invoke(verb, arguments, binding) == [verb |-> verb, arguments |-> arguments, binding |-> binding]
Arrow(verb, arguments, arrow) ==
  [verb |-> verb, arguments |-> arguments, binding |-> "", arrow |-> arrow]

Review == <<Argument("total", Path(<<"o", "total">>)), Argument("id", Path(<<"o", "id">>))>>
Note == <<Argument("ticket", Ref("t")), Argument("blob", Path(<<"y">>)),
          Argument("note", Value(Lit("map", <<[key |-> <<"a">>, value |-> Lit("int", 2)]>>)))>>
Blob == <<Argument("note", Path(<<"m">>)), Argument("blob", Path(<<"blob">>))>>

Expensive == Op(">", FieldOf("o", "total"), Lit("int", 2))
Deep ==
  Op("==", [k |-> "member", a |-> FieldOf("o", "a"), optional |-> FALSE,
            property |-> [k |-> "string", v |-> "b"]], Lit("int", 2))

StepsBundle(source, version, required) ==
  [identity |-> <<"orders", version>>, source |-> source, env |-> OrderEnvironment(required),
   executors |-> {"Review", "Cancel", "Record"},
   files |->
     <<[path |-> "any.effx", dialect |-> "flow", rules |-> <<>>,
        flows |-> <<[name |-> "flow", priority |-> 1, when |-> Expensive,
                     steps |-> <<Arrow("Review", Review, "t"), Arrow("Record", Note, "")>>]>>],
       [path |-> "all.eff", dialect |-> "list", flows |-> <<>>,
        rules |-> <<[name |-> "rule", priority |-> 0,
                     blocks |-> <<[when |-> [k |-> "empty"],
                                   then |-> <<Invoke("Record", Blob, "")>>],
                                  [when |-> Deep, then |-> <<>>]>>]>>]>>]

Orders == StepsBundle("orders 1", "1", {"blob"})
NewOrders == StepsBundle("orders 2", "2", {"blob", "note"})

OrderFacts(total, blob, nested) ==
  (<<"o">> :> Obj((<<"id">> :> Str(<<"a">>)) @@ (<<"total">> :> total)
                     @@ (<<"a">> :> Obj(<<"b">> :> nested))))
    @@ (<<"blob">> :> blob) @@ (<<"m">> :> Obj(<<"a">> :> nested))

StepsRequests ==
  LET text == Str(<<"base64", "a">>)
      base == (<<"y">> :> text) @@ OrderFacts(Number(3), text, Number(2)) IN
  {base,
   (<<"y">> :> text) @@ OrderFacts(Double(3), [k |-> "bytes", v |-> <<"a">>], Double(2)),
   OrderFacts(Number(2), text, Number(2)),    \* too cheap for the flow, which needs y
   OrderFacts(Number(3), text, Number(2)),    \* the second step of the flow lacks y
   (<<"o", "total">> :> Number(6)) @@ base,
   (<<"o", "a">> :> Obj(<<"b">> :> Number(4))) @@ base,
   (<<"o", "a", "b">> :> Number(4)) @@ base,
   (<<"m", "a">> :> Number(2)) @@ (<<"m">> :> Obj(<<"a">> :> Number(4))) @@ base,
   (<<"u">> :> Obj(<<"a", "b">> :> Number(1))) @@ base}

-----------------------------------------------------------------------------

AllBundles == {PredicateBundle(p) : p \in Predicates} \cup {Orders}

SomeReplacements(source) == IF source = "predicate" THEN {} ELSE {Orders, NewOrders}

SomePolicies(source) ==
  IF source = "orders 1" THEN {"fail_fast", "compensating"} ELSE {"fail_fast"}

SomeRequests(source) == IF source = "predicate" THEN PredicateRequests ELSE StepsRequests

SomeRepeats(source) == IF source = "predicate" THEN {} ELSE StepsRequests

SomeResults == {Str(<<"a">>), Number(2)}

\* A bundle in which a verb declares that none of its arguments is required.
OptionalOrders == {StepsBundle("orders 1", "1", {})}
OptionalReplacements(source) == OptionalOrders \cup {NewOrders}
=============================================================================
