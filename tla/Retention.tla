----------------------------- MODULE Retention ------------------------------
(***************************************************************************)
(* PruneTerminalRecords (schema/prune.go) beside the admissions and the    *)
(* executions that go on.  A pass is one READ COMMITTED transaction: each  *)
(* candidate query has a snapshot of its own, and the deletions work on    *)
(* the candidates that were selected some statements before.  The deletes  *)
(* are one step: an admission that commits between two of them runs into a *)
(* lock or a foreign key, and the pass fails (AbortPrune).                 *)
(***************************************************************************)
EXTENDS Naturals, FiniteSets, FiniteSetsExt

CONSTANTS
  SagasOf,      \* execution -> the sagas of its plans
  DigestOf,     \* execution -> the generation it is admitted with
  Deliveries,   \* Kafka deliveries
  BatchSize     \* PruneOptions.BatchSize

VARIABLES
  executions,   \* execution -> row
  sagas,        \* saga -> row, its steps, dispatches and attempts included
  plans,        \* effectus_execution_plans: pairs of execution and saga
  artifacts,    \* digest -> row
  generations,  \* digest -> row
  deliveries,   \* delivery -> row
  prune         \* the pass: where it is and its candidates

retentionVars == <<executions, sagas, plans, artifacts, generations, deliveries, prune>>

Digests == {DigestOf[e] : e \in DOMAIN DigestOf}
Sagas == UNION {SagasOf[e] : e \in DOMAIN SagasOf}

\* old: the row's time is before the cutoff.  quiet: no unfinished or leased
\* dispatch and no open attempt of the saga.
NoRow == [state |-> "absent", old |-> FALSE, leased |-> FALSE, quiet |-> TRUE]
Row(state) == [NoRow EXCEPT !.state = state]
NoPrune == [at |-> "idle", executions |-> {}, sagas |-> {}, generations |-> {},
            artifacts |-> {}, deliveries |-> {}]

Present(table) == {x \in DOMAIN table : table[x].state # "absent"}
Settled == {"completed", "failed"}
SettledSaga == {"completed", "compensated", "failed"}

RetentionInit ==
  /\ executions = [e \in DOMAIN SagasOf |-> NoRow]
  /\ sagas = [s \in Sagas |-> NoRow]
  /\ plans = {}
  /\ artifacts = [d \in Digests |-> NoRow]
  /\ generations = [d \in Digests |-> NoRow]
  /\ deliveries = [k \in Deliveries |-> NoRow]
  /\ prune = NoPrune

-----------------------------------------------------------------------------
(* The rest of the system.                                                 *)

\* admitExecutionAtomicOnce: an artifact, a saga or a step that is there is
\* kept, and the other generations of the ruleset retire.
AdmitExecution(e) ==
  /\ executions[e].state = "absent"
  /\ executions' = [executions EXCEPT ![e] = Row("running")]
  /\ artifacts' = [artifacts EXCEPT ![DigestOf[e]] =
                     IF @.state = "absent" THEN Row("stored") ELSE @]
  /\ generations' = [d \in Digests |->
       IF d = DigestOf[e] THEN Row("active")
       ELSE IF generations[d].state = "active" THEN Row("retired") ELSE generations[d]]
  /\ sagas' = [s \in Sagas |->
       IF s \in SagasOf[e] /\ sagas[s].state = "absent"
         THEN [Row("running") EXCEPT !.quiet = FALSE] ELSE sagas[s]]
  /\ plans' = plans \cup ({e} \X SagasOf[e])
  /\ UNCHANGED <<deliveries, prune>>

\* A saga ends (a compensated one is pruned like a failed one), or stops in a
\* state that waits for an operator; its open attempt may have been abandoned.
SettleSaga(s, state, quiet) ==
  /\ sagas[s].state = "running"
  /\ state = "blocked" => ~ quiet
  /\ sagas' = [sagas EXCEPT ![s] = [Row(state) EXCEPT !.quiet = quiet]]
  /\ UNCHANGED <<executions, plans, artifacts, generations, deliveries, prune>>

\* The execution follows its sagas; a recovery worker may lease it before.
SettleExecution(e) ==
  /\ executions[e].state = "running"
  /\ \A s \in SagasOf[e] : sagas[s].state # "running"
  /\ executions' = [executions EXCEPT ![e] = Row(
       IF \E s \in SagasOf[e] : sagas[s].state = "blocked" THEN "blocked"
       ELSE IF \A s \in SagasOf[e] : sagas[s].state = "completed" THEN "completed"
       ELSE "failed")]
  /\ UNCHANGED <<sagas, plans, artifacts, generations, deliveries, prune>>

LeaseExecution(e) ==
  /\ executions[e].state = "running" /\ ~ executions[e].leased
  /\ executions' = [executions EXCEPT ![e].leased = TRUE]
  /\ UNCHANGED <<sagas, plans, artifacts, generations, deliveries, prune>>

\* RecordFailure and ClearAttempts of a delivery, and the acknowledgement of a
\* poison record in its row.
Deliver(k, state) ==
  /\ <<deliveries[k].state, state>> \in
       {<<"absent", "failing">>, <<"failing", "poison_acknowledged">>, <<"failing", "absent">>}
  /\ deliveries' = [deliveries EXCEPT ![k] = Row(state)]
  /\ UNCHANGED <<executions, sagas, plans, artifacts, generations, prune>>

\* Between two passes the cutoff moves past every row there is.
Older(table) ==
  [x \in DOMAIN table |-> [table[x] EXCEPT !.old = table[x].state # "absent"]]

Later ==
  /\ prune.at = "idle"
  /\ executions' = Older(executions) /\ sagas' = Older(sagas)
  /\ artifacts' = Older(artifacts) /\ generations' = Older(generations)
  /\ deliveries' = Older(deliveries)
  /\ UNCHANGED <<plans, prune>>

-----------------------------------------------------------------------------
(* The pass.                                                               *)

\* LIMIT of a candidate query: some of the eligible rows, as many as fit.
Limit(S) == IF Cardinality(S) <= BatchSize THEN {S} ELSE kSubset(BatchSize, S)

SagaIsOld(s) == sagas[s].state \in SettledSaga /\ sagas[s].old /\ sagas[s].quiet

ExecutionEligible(e) ==
  /\ executions[e].state \in Settled /\ executions[e].old /\ ~ executions[e].leased
  /\ \A s \in Sagas : <<e, s>> \in plans => SagaIsOld(s)

\* Mutant: the sagas of an execution that stays are selected as well.
SagaEligibleAlone(s) == SagaIsOld(s)

SagaEligible(s) ==
  /\ SagaIsOld(s)
  /\ \A p \in plans : p[2] = s => p[1] \in prune.executions

\* Every execution of the digest is a candidate.
Unused(d) ==
  \A e \in Present(executions) : DigestOf[e] = d => e \in prune.executions

SelectExecutions ==
  /\ prune.at = "idle"
  /\ \E S \in Limit({e \in DOMAIN SagasOf : ExecutionEligible(e)}) :
       prune' = [prune EXCEPT !.at = "executions", !.executions = S]
  /\ UNCHANGED <<executions, sagas, plans, artifacts, generations, deliveries>>

SelectSagas ==
  /\ prune.at = "executions"
  /\ \E S \in Limit({s \in Sagas : SagaEligible(s)}) :
       prune' = [prune EXCEPT !.at = "sagas", !.sagas = S]
  /\ UNCHANGED <<executions, sagas, plans, artifacts, generations, deliveries>>

SelectKafka ==
  /\ prune.at = "sagas"
  /\ \E S \in Limit({k \in Deliveries : deliveries[k].state = "poison_acknowledged"
                                        /\ deliveries[k].old}) :
       prune' = [prune EXCEPT !.at = "kafka", !.deliveries = S]
  /\ UNCHANGED <<executions, sagas, plans, artifacts, generations, deliveries>>

SelectGenerations ==
  /\ prune.at = "kafka"
  /\ \E S \in Limit({d \in Digests : generations[d].state = "retired"
                                     /\ generations[d].old /\ Unused(d)}) :
       prune' = [prune EXCEPT !.at = "generations", !.generations = S]
  /\ UNCHANGED <<executions, sagas, plans, artifacts, generations, deliveries>>

SelectArtifacts ==
  /\ prune.at = "generations"
  /\ \E S \in Limit({d \in Digests :
               /\ artifacts[d].state = "stored" /\ artifacts[d].old /\ Unused(d)
               /\ generations[d].state = "absent" \/ d \in prune.generations}) :
       prune' = [prune EXCEPT !.at = "selected", !.artifacts = S]
  /\ UNCHANGED <<executions, sagas, plans, artifacts, generations, deliveries>>

\* The report of a dry run, or a statement that fails.
AbortPrune ==
  /\ prune.at # "idle"
  /\ prune' = NoPrune
  /\ UNCHANGED <<executions, sagas, plans, artifacts, generations, deliveries>>

Without(table, S) == [x \in DOMAIN table |-> IF x \in S THEN NoRow ELSE table[x]]

\* Plans go with their execution or their saga; generations and artifacts are
\* looked at again.
DeleteCandidates ==
  LET left == Present(executions) \ prune.executions
      used == {DigestOf[e] : e \in left}
      goneGenerations == {d \in prune.generations \ used :
                            generations[d].state = "retired" /\ generations[d].old}
      goneArtifacts == {d \in prune.artifacts \ used :
                          generations[d].state = "absent" \/ d \in goneGenerations}
  IN  /\ prune.at = "selected"
      /\ sagas' = Without(sagas, prune.sagas)
      /\ plans' = {p \in plans : p[1] \notin prune.executions /\ p[2] \notin prune.sagas}
      /\ executions' = Without(executions, prune.executions)
      /\ deliveries' = Without(deliveries, prune.deliveries)
      /\ generations' = Without(generations, goneGenerations)
      /\ artifacts' = Without(artifacts, goneArtifacts)
      /\ prune' = NoPrune

RetentionNext ==
  \/ \E e \in DOMAIN SagasOf :
       AdmitExecution(e) \/ SettleExecution(e) \/ LeaseExecution(e)
  \/ \E s \in Sagas, state \in {"completed", "failed", "blocked"}, quiet \in BOOLEAN :
       SettleSaga(s, state, quiet)
  \/ \E k \in Deliveries, state \in {"failing", "poison_acknowledged", "absent"} :
       Deliver(k, state)
  \/ Later
  \/ SelectExecutions \/ SelectSagas \/ SelectKafka \/ SelectGenerations
  \/ SelectArtifacts \/ DeleteCandidates \/ AbortPrune

-----------------------------------------------------------------------------
\* A pass takes an execution whole or not at all, whatever is admitted and
\* settled while it selects: an execution that is still recorded has its
\* generation, its artifact, every plan and every saga, so that a replay, a
\* recovery or an operator finds all of it.
ExecutionsStayWhole ==
  \A e \in Present(executions) :
    /\ artifacts[DigestOf[e]].state = "stored"
    /\ generations[DigestOf[e]].state # "absent"
    /\ \A s \in SagasOf[e] : <<e, s>> \in plans /\ sagas[s].state # "absent"
=============================================================================
