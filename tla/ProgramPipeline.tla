-------------------------- MODULE ProgramPipeline --------------------------
(***************************************************************************)
(* What becomes of a rule bundle: it is compiled into a generation, a      *)
(* request is admitted under that generation, and the steps of the plans   *)
(* it selects are enqueued, now or by a process that finds the execution   *)
(* after a crash, possibly under a newer generation.                       *)
(*                                                                         *)
(* One execution; leases and concurrent workers are in ExecutionEngine,    *)
(* outcomes other than success in SagaOutbox.  The spelling of a number    *)
(* is not modelled: JSON writes equal numbers alike.                       *)
(***************************************************************************)
EXTENDS RuleCompiler

LOCAL INSTANCE SequencesExt

CONSTANTS Bundles,          \* the bundles a first process may be given
          Replacements(_),  \* ... and those a later one may be, by source
          Policies(_),      \* execution policies, by source
          Requests(_),      \* the facts clients may send, by source
          Repeats(_),       \* ... and may send again
          Results           \* what executors may answer, as JSON

VARIABLES generation,   \* of the running process
          record,       \* the execution in the ledger, with its artifact
          outbox,       \* steps in the outbox, by plan and position
          run,          \* the process's work on the execution
          answer        \* to the last request

vars == <<generation, record, outbox, run, answer>>

-----------------------------------------------------------------------------
(* Generations.                                                            *)

NoGeneration == [k |-> "none"]

\* An empty list of required arguments is copied as one that was left out.
cloneGenerationEnvironment(env) ==
  [env EXCEPT !.verbs = [v \in DOMAIN @ |->
     [@[v] EXCEPT !.required = IF @ = {} THEN AllRequired ELSE @]]]

RECURSIVE validateGenerationExpression(_)
validateGenerationExpression(e) ==
  CASE e.k = "call" -> FALSE
    [] e.k = "unary" -> validateGenerationExpression(e.a)
    [] e.k = "binary" -> validateGenerationExpression(e.a) /\ validateGenerationExpression(e.b)
    [] OTHER -> TRUE

VerbsOf(step) ==
  {step.verb} \cup (IF step.compensation = NoCompensation THEN {} ELSE {step.compensation.verb})

validateResolvedGenerationVerb(verb, executors) == verb \in executors

\* `identity' is the name and version of a bundle, `executors' the verbs whose
\* descriptors resolve.
NewGeneration(checked, env, identity, executors, source) ==
  IF /\ checked.environment = EnvironmentDigest(env)
     /\ \A i \in DOMAIN checked.plans :
          /\ validateGenerationExpression(checked.plans[i].predicate)
          /\ \A n \in DOMAIN checked.plans[i].steps :
               \A verb \in VerbsOf(checked.plans[i].steps[n]) :
                 validateResolvedGenerationVerb(verb, executors)
  THEN [k |-> "generation", checked |-> checked, identity |-> identity,
        environment |-> cloneGenerationEnvironment(env), executors |-> executors,
        source |-> source]
  ELSE NoGeneration

\* The digest of a generation is that of the environment it was given, which
\* is the one its IR was checked in.
Digest(g) == <<g.checked, g.identity, g.executors, g.source>>

GenerationOf(checked, bundle) ==
  IF ~checked.ok THEN NoGeneration
  ELSE NewGeneration([environment |-> EnvironmentDigest(bundle.env), plans |-> checked.plans],
                     bundle.env, bundle.identity, bundle.executors, bundle.source)

CompileGeneration(bundle, policy) == GenerationOf(CompileChecked(bundle, policy), bundle)

executionArtifactForGeneration(g) ==
  [digest |-> Digest(g), ir |-> g.checked, environment |-> g.environment,
   executors |-> g.executors, identity |-> g.identity, source |-> g.source]

\* ManifestArtifactResolver: nothing but the artifact is needed.
ResolveGeneration(artifact) ==
  LET g == NewGeneration(artifact.ir, artifact.environment, artifact.identity,
                         artifact.executors, artifact.source)
  IN  IF /\ Check(artifact.environment, artifact.ir) = [ok |-> TRUE, plans |-> artifact.ir.plans]
         /\ artifact.executors \subseteq DOMAIN artifact.environment.verbs
         /\ g # NoGeneration
         /\ Digest(g) = artifact.digest
      THEN g ELSE NoGeneration

-----------------------------------------------------------------------------
(* Admission.                                                              *)

NoRecord == [k |-> "none"]
Idle == [k |-> "idle"]
Answer(k, why) == [k |-> k, why |-> why]

\* Mutant: every object is dropped from the identity of a request.
WithoutObjects(env, normal) ==
  IF ~normal.ok THEN NoFacts
  ELSE Accepted(Restrict(throughJSON(Object(normal.v)).v,
                         {p \in DOMAIN normal.v : normal.v[p].k # "object"}))

\* Facts, less the objects that only repeat them.
WithoutRedundancy(env, normal) ==
  LET Redundant(p) == /\ p \notin DOMAIN env.facts
                      /\ normal.v[p].k = "object" /\ DOMAIN normal.v[p].v # {}
  IN  IF ~normal.ok THEN NoFacts
      ELSE Accepted(Restrict(throughJSON(Object(normal.v)).v,
                             {p \in DOMAIN normal.v : ~Redundant(p)}))

\* The identity of a request.
semanticAdmissionHash(env, facts) == WithoutRedundancy(env, normalizedWorkflowFacts(env, facts))

StepRequest(step, policy, arguments) ==
  IF IsError(arguments) THEN arguments ELSE
  [k |-> "step", id |-> step.id, sequence |-> step.ordinal + 1, verb |-> step.verb, hash |-> step.hash,
   arguments |-> arguments,
   compensation |-> IF policy = Compensating THEN step.compensation ELSE NoCompensation,
   fencing |-> IF step.fencing = "required" THEN {step.verb} ELSE {}]

Failed(values) == {i \in DOMAIN values : IsError(values[i])}
Least(indices) == CHOOSE i \in indices : \A j \in indices : i <= j

\* Arguments as they are stored, or the error of the first that fails.
Resolved(step, Value(_)) ==
  LET values == [i \in DOMAIN step.arguments |-> Value(step.arguments[i].value)] IN
  IF Failed(values) # {} THEN values[Least(Failed(values))]
  ELSE throughJSON(Object([name \in {step.arguments[i].name : i \in DOMAIN values} |->
         values[CHOOSE i \in DOMAIN values : step.arguments[i].name = name]]))

durableInitialStep(plan, facts) ==
  StepRequest(plan.steps[1], plan.policy,
              Resolved(plan.steps[1], LAMBDA v : resolveCheckedWorkflowValue(v, facts, <<>>)))

\* What a plan is admitted with: nothing, no step, or its first step.
Begun(plan, facts, matches) ==
  CASE IsError(matches) -> matches
    [] matches.k = "bool" /\ ~matches.v -> [k |-> "unselected"]
    [] plan.steps = <<>> -> [k |-> "empty"]
    [] OTHER -> durableInitialStep(plan, facts)

Assembled(plans, facts, begun) ==
  LET Among(kinds) == {plans[i].id : i \in {j \in DOMAIN plans : begun[j].k \in kinds}} IN
  IF Failed(begun) # {} THEN begun[Least(Failed(begun))]
  ELSE [k |-> "admission", facts |-> facts,
        plans |-> Among({"empty", "step"}),
        steps |-> [p \in Among({"step"}) \X {1} |->
                     begun[CHOOSE i \in DOMAIN plans : plans[i].id = p[1]]]]

AdmissionOf(plans, normal) ==
  IF ~normal.ok THEN Error("facts")
  ELSE Assembled(plans, normal.v,
         [i \in DOMAIN plans |->
            Begun(plans[i], normal.v, evaluateCheckedPredicate(plans[i].predicate, normal.v))])

\* What is admitted: the plans whose predicates hold, in order, and the first
\* step of each.  The first error refuses the request.
buildDurableAdmission(g, facts) ==
  AdmissionOf(g.checked.plans, normalizedWorkflowFacts(g.environment, facts))

-----------------------------------------------------------------------------
(* Working on an execution.                                                *)

Started(g, normal, plans) ==
  IF ~normal.ok THEN Idle
  ELSE [k |-> "running", generation |-> g, facts |-> normal.v,
        plans |-> SelectSeq(g.checked.plans, LAMBDA p : p.id \in plans),
        phase |-> "first", plan |-> 1, step |-> 1, slots |-> <<>>]

\* executeCheckedWorkflow brings the facts into their normal form again.
Begin(g, facts, plans) == Started(g, normalizedWorkflowFacts(g.environment, facts), plans)

\* loadExecutionRecord: a process whose generation is another one resolves
\* the artifact.
GenerationFor(rec) ==
  IF Digest(generation) = rec.artifact.digest THEN generation
  ELSE ResolveGeneration(rec.artifact)

\* The facts of a record were encoded when it was written.
LoadWith(g) ==
  IF g = NoGeneration
  THEN /\ record' = [record EXCEPT !.state = "blocked_dependency"]
       /\ answer' = Answer("blocked", "generation")
       /\ UNCHANGED run
  ELSE /\ run' = Begin(g, record.facts, record.plans)
       /\ answer' = Answer("loaded", "")
       /\ UNCHANGED record

Load == LoadWith(GenerationFor(record))

Deployable == IF record = NoRecord THEN Bundles ELSE Replacements(record.artifact.source)

\* A process starts with the bundle it is given, if that compiles.
Deploy(bundle, policy) ==
  /\ generation = NoGeneration
  /\ \E g \in {CompileGeneration(bundle, policy)} \ {NoGeneration} : generation' = g
  /\ answer' = Answer("deployed", "")
  /\ UNCHANGED <<record, outbox, run>>

\* An execution without steps is complete when it is admitted.
Record(hash, admission) ==
  /\ record' = [k |-> "execution", hash |-> hash.v, plans |-> admission.plans,
                facts |-> throughJSON(Object(admission.facts)).v,
                artifact |-> executionArtifactForGeneration(generation),
                state |-> IF admission.steps = <<>> THEN "completed" ELSE "accepted"]
  /\ outbox' = [p \in DOMAIN admission.steps |->
                  [request |-> admission.steps[p], result |-> NoValue]]
  /\ run' = IF admission.steps = <<>> THEN Idle
            ELSE Begin(generation, admission.facts, admission.plans)
  /\ answer' = Answer("accepted", "")

Admit(facts) ==
  /\ generation # NoGeneration /\ record = NoRecord /\ answer.k # "refused"
  /\ \E hash \in {semanticAdmissionHash(generation.environment, facts)},
        admission \in {buildDurableAdmission(generation, facts)} :
       CASE ~hash.ok ->
              /\ answer' = Answer("refused", "facts")
              /\ UNCHANGED <<record, outbox, run>>
         [] hash.ok /\ IsError(admission) ->
              /\ answer' = Answer("refused", admission.why)
              /\ UNCHANGED <<record, outbox, run>>
         [] OTHER -> Record(hash, admission)
  /\ UNCHANGED generation

\* The same identity again, perhaps with other facts, perhaps in another process.
MatchHash(rec, hash) ==
  CASE ~hash.ok -> "facts"
    [] hash.v = rec.hash -> "match"
    [] semanticAdmissionHash(rec.artifact.environment, rec.facts) = hash -> "match"
    [] OTHER -> "conflict"

matchReplay(rec, facts) ==
  MatchHash(rec, semanticAdmissionHash(rec.artifact.environment, facts))

Replay(facts) ==
  /\ record # NoRecord /\ run = Idle /\ generation # NoGeneration
  /\ \E match \in {matchReplay(record, facts)} :
       IF match # "match"
       THEN answer' = Answer("refused", match) /\ UNCHANGED <<record, run>>
       ELSE IF record.state # "accepted"
       THEN answer' = Answer("observed", "") /\ UNCHANGED <<record, run>>
       ELSE Load
  /\ UNCHANGED <<generation, outbox>>

\* The recovery worker.
Recover ==
  /\ record # NoRecord /\ record.state = "accepted"
  /\ run = Idle /\ generation # NoGeneration
  /\ Load
  /\ UNCHANGED <<generation, outbox>>

\* A process ends, with or without notice.
Crash ==
  /\ generation # NoGeneration /\ record # NoRecord
  /\ run' = Idle
  /\ generation' = NoGeneration
  /\ UNCHANGED <<record, outbox, answer>>

CurrentPlan == run.plans[run.plan]

EnqueueCheckedStep(step) ==
  StepRequest(step, CurrentPlan.policy,
              Resolved(step, LAMBDA v : resolveCheckedStepValue(v, run.facts, run.slots)))

Stopped(state, k, why) ==
  /\ run' = Idle
  /\ record' = [record EXCEPT !.state = state]
  /\ answer' = Answer(k, why)

\* The outbox accepts the same step again, and refuses another in its place.
Enqueue(request, place) ==
  CASE IsError(request) -> "unresolved"
    [] place \in DOMAIN outbox /\ outbox[place].request # request -> "conflict"
    [] OTHER -> "enqueued"

Enqueued(request, place) ==
  outbox' = IF place \in DOMAIN outbox THEN outbox
            ELSE (place :> [request |-> request, result |-> NoValue]) @@ outbox

\* First the first steps of all plans, ...
EnqueueFirst ==
  LET place == <<CurrentPlan.id, 1>>
      request == EnqueueCheckedStep(CurrentPlan.steps[1])
      last == run.plan = Len(run.plans)
      onward == [run EXCEPT !.plan = IF last THEN 1 ELSE @ + 1,
                            !.phase = IF last THEN "steps" ELSE "first"]
  IN
  /\ run # Idle /\ run.phase = "first" /\ run.plan <= Len(run.plans)
  /\ IF CurrentPlan.steps = <<>>
     THEN run' = onward /\ UNCHANGED <<outbox, record, answer>>
     ELSE IF Enqueue(request, place) = "enqueued"
     THEN Enqueued(request, place) /\ run' = onward /\ UNCHANGED <<record, answer>>
     ELSE Stopped(record.state, "stopped", Enqueue(request, place)) /\ UNCHANGED outbox
  /\ UNCHANGED generation

\* ... then plan by plan each step, which waits for its answer.
EnqueueNext ==
  LET place == <<CurrentPlan.id, run.step>>
      request == EnqueueCheckedStep(CurrentPlan.steps[run.step])
  IN
  /\ run # Idle /\ run.phase = "steps"
  /\ run.plan <= Len(run.plans) /\ run.step <= Len(CurrentPlan.steps)
  /\ IF Enqueue(request, place) = "enqueued"
     THEN /\ Enqueued(request, place)
          /\ run' = [run EXCEPT !.phase = "dispatch"]
          /\ UNCHANGED <<record, answer>>
     ELSE Stopped(record.state, "stopped", Enqueue(request, place)) /\ UNCHANGED outbox
  /\ UNCHANGED generation

\* The executor's answer is recorded once, and used in its declared type.
Dispatched(result) ==
  LET place == <<CurrentPlan.id, run.step>>
      step == CurrentPlan.steps[run.step]
      durable == IF outbox[place].result = NoValue THEN result ELSE outbox[place].result
      env == run.generation.environment
      normal == NormalizeValue(env, env.verbs[step.verb].result, durable)
      onward == [run EXCEPT !.phase = "steps", !.step = @ + 1]
  IN
  /\ run # Idle /\ run.phase = "dispatch"
  /\ durable = result
  /\ outbox' = [outbox EXCEPT ![place].result = durable]
  /\ CASE step.slot = NoSlot -> run' = onward /\ UNCHANGED <<record, answer>>
       [] step.slot # NoSlot /\ normal = NoValue ->
            Stopped("blocked_dependency", "blocked", "result")
       [] OTHER ->
            /\ run' = [onward EXCEPT !.slots = Append(@, normal)]
            /\ UNCHANGED <<record, answer>>
  /\ UNCHANGED generation

CompletePlan ==
  /\ run # Idle /\ run.phase = "steps"
  /\ run.plan <= Len(run.plans) /\ run.step > Len(CurrentPlan.steps)
  /\ run' = [run EXCEPT !.plan = @ + 1, !.step = 1, !.slots = <<>>]
  /\ UNCHANGED <<generation, record, outbox, answer>>

Finish ==
  /\ run # Idle /\ run.plan > Len(run.plans)
  /\ Stopped("completed", "completed", "")
  /\ UNCHANGED <<generation, outbox>>

Init ==
  /\ generation = NoGeneration
  /\ record = NoRecord
  /\ outbox = <<>>
  /\ run = Idle
  /\ answer = Answer("none", "")

Next ==
  \/ \E bundle \in Deployable : \E policy \in Policies(bundle.source) : Deploy(bundle, policy)
  \/ /\ generation # NoGeneration
     /\ \E facts \in Requests(generation.source) : Admit(facts)
  \/ /\ record # NoRecord
     /\ \E facts \in Repeats(record.artifact.source) : Replay(facts)
  \/ Recover
  \/ Crash
  \/ EnqueueFirst
  \/ EnqueueNext
  \/ \E result \in Results : Dispatched(result)
  \/ CompletePlan
  \/ Finish

Spec == Init /\ [][Next]_vars

-----------------------------------------------------------------------------

\* A predicate that passed the checker runs on admitted facts without an error
\* of types: what is left is arithmetic out of range or by zero, a pattern that
\* does not compile, and a fact that was not sent (checked_workflow.go,
\* evaluateCheckedExpression; its type errors are unreachable).
TypeSound ==
  answer.k = "refused" =>
    answer.why \in {"facts", "overflow", "zero", "pattern", "missing", "conflict"}

\* A step after the first of a selected plan that was never enqueued, although
\* the one before it is answered, and that names a fact the request lacks.
LacksFact(plan, n) ==
  /\ plan.id \in record.plans
  /\ <<plan.id, n>> \notin DOMAIN outbox
  /\ <<plan.id, n - 1>> \in DOMAIN outbox /\ outbox[<<plan.id, n - 1>>].result # NoValue
  /\ \E i \in DOMAIN plan.steps[n].arguments :
       LET value == plan.steps[n].arguments[i].value IN
       value.k = "fact" /\ lookupWorkflowFact(record.facts, value.path) = Missing

\* Work that is taken up again finds in the outbox exactly the steps it would
\* enqueue: facts survive the ledger, and arguments are the same whether they
\* were computed at admission or from the record, in the process that admitted
\* the execution or in a later one.  It stops only before a later step whose
\* fact was not sent, which admission does not ask for.
ReplayAgrees ==
  answer.k = "stopped" =>
    /\ answer.why = "unresolved"
    /\ LET plans == record.artifact.ir.plans IN
       \E i \in DOMAIN plans : \E n \in 2 .. Len(plans[i].steps) : LacksFact(plans[i], n)

IsWorkOf(rec, admission) ==
  /\ ~IsError(admission)
  /\ admission.plans = rec.plans
  /\ \A p \in DOMAIN admission.steps : outbox[p].request = admission.steps[p]

\* A request that is taken for an earlier one asks for the same work: under the
\* generation of that execution it selects the same plans and begins them with
\* the same steps.  (Asked in the process that admitted the execution; its
\* record, its plans and its first steps do not change afterwards.)
SameIdentitySameWork ==
  answer.k = "accepted" /\ generation # NoGeneration =>
    \A facts \in Repeats(record.artifact.source) :
      matchReplay(record, facts) = "match" =>
        IsWorkOf(record, buildDurableAdmission(generation, facts))

\* An execution's own artifact is enough to continue it: a process with another
\* active generation resolves the pinned one.
PinnedGenerationResolves == answer # Answer("blocked", "generation")
=============================================================================
