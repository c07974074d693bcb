-------------------------- MODULE ExecutionEngine --------------------------
(***************************************************************************)
(* Engine.Execute over the ledger and the outbox.  Callers admit an        *)
(* execution and drive it; recovery workers of other replicas lease        *)
(* whatever is not settled and drive it too, so two processes may be       *)
(* inside one workflow at a time.  Admission is the atomic one of the      *)
(* PostgreSQL store, which creates the selected sagas and their first      *)
(* steps with the record.  Within one process the calls for an execution   *)
(* are serial (executionGate), so a process has one call.                  *)
(*                                                                         *)
(* A dispatch is claimed, called and completed; its fences and timeouts    *)
(* are the subject of Dispatcher and FencedWorkers.  A fault is a crash, a *)
(* cancelled context, a failing store call or a lease that lapses under a  *)
(* working holder.                                                         *)
(***************************************************************************)
EXTENDS SagaOutbox

CONSTANTS
    Process,        \* the processes of all replicas
    Caller, Worker, \* the processes by what they do
    Nobody,         \* no recovery token
    Plans,          \* the selected plans' sagas of an execution, in order
    Shapes,         \* the checked plans considered: steps, inverses and policy, and the
                    \* first step that names a fact the request did not send, or 0
    MayBlock,       \* whether a pinned generation or a recorded result may be unusable
    MaxAttempts,    \* the retry budget of a step
    MaxFaults       \* bound: faults in a behaviour

\* The sagas of an execution's plans are its own; a plan has at most as many
\* steps as are modelled.  Admission resolves the arguments of first steps only.
ASSUME EngineAssumption ==
    /\ Caller \subseteq Process /\ Worker \subseteq Process /\ Nobody \notin Process
    /\ Execution # {}
    /\ Plans \in [Execution -> Seq(Saga)]
    /\ \A e \in Execution : \A i \in DOMAIN Plans[e] : ExecutionOf[Plans[e][i]] = e
    /\ Shapes \subseteq [Saga -> [steps : 0..MaxSteps, inverse : BOOLEAN,
                                  policy : {"fail_fast", "compensating"},
                                  unresolved : {0} \cup 2..MaxSteps]]

VARIABLES
    execution,      \* the ledger's records
    known,          \* the reads that hold a record's stored revision
    shape,          \* the checked plan of each saga
    proc,           \* the call of Execute each process is in
    faults          \* faults so far

INSTANCE ExecutionLedger

ledger == <<execution, known>>

engineVars == <<saga, step, inverse, dispatch, timer, granted, attempts,
                execution, known, shape, proc, faults>>

-----------------------------------------------------------------------------
Idle == [pc |-> "idle", id |-> CHOOSE e \in Execution : TRUE, lease |-> FALSE,
         plan |-> 1, step |-> 1, target |-> <<>>, attempt |-> 0,
         verdict |-> "open", tries |-> 0, undisposed |-> FALSE]

At(p, pc) == proc[p].pc = pc
Go(p, pc) == proc' = [proc EXCEPT ![p].pc = pc]
ExecutionOfCall(p) == proc[p].id
SagaOfCall(p) == Plans[ExecutionOfCall(p)][proc[p].plan]
StepOfCall(p) == Forward(SagaOfCall(p), proc[p].step)

\* Where the work on a plan begins: one without steps only completes its saga.
Begin(s) == IF shape[s].steps = 0 THEN "complete" ELSE "enqueue"

\* The workflow returned an error: look at the sagas, from the first plan.
Classifying(call) ==
    [call EXCEPT !.pc = "read", !.plan = 1, !.step = 1, !.verdict = "open",
                 !.target = <<>>, !.attempt = 0]
Classify(p) == proc' = [proc EXCEPT ![p] = Classifying(@)]

EngineInit ==
    /\ Init /\ LedgerInit
    /\ shape \in Shapes
    /\ proc = [p \in Process |-> Idle]
    /\ faults = 0

Return(p) == proc' = [proc EXCEPT ![p] = Idle]

\* RunOnce hands ErrDurableDisposition to Run, which ends the worker.
ReturnUndisposed(p) ==
    proc' = [proc EXCEPT ![p] = [Idle EXCEPT !.pc = IF p \in Worker THEN "exited" ELSE "idle"]]

\* The supervisor restarts the process of a worker that ended.
Restart(p) ==
    /\ At(p, "exited") /\ Return(p)
    /\ UNCHANGED <<vars, ledger, shape, faults>>

-----------------------------------------------------------------------------
(* Entering Execute.                                                       *)

Selected(e) == {Plans[e][i] : i \in DOMAIN Plans[e]}
FirstSteps(e) == {s \in Selected(e) : shape[s].steps > 0}

\* Ledger row, sagas and first steps in one transaction; without steps it is all done.
AdmitExecutionAtomic(p, e) ==
    /\ AdmitExecution(p, e, IF FirstSteps(e) = {} THEN "completed" ELSE "accepted")
    /\ saga' = [s \in Saga |-> IF s \in FirstSteps(e) THEN "running"
                               ELSE IF s \in Selected(e) THEN "completed" ELSE saga[s]]
    /\ step' = [s \in Saga |-> IF s \in FirstSteps(e)
                               THEN [step[s] EXCEPT ![1] = "pending"] ELSE step[s]]
    /\ inverse' = [s \in Saga |-> IF s \in FirstSteps(e)
                                  THEN [inverse[s] EXCEPT ![1] = shape[s].inverse] ELSE inverse[s]]
    /\ dispatch' = [d \in Dispatch |-> IF \E s \in FirstSteps(e) : d = Forward(s, 1)
                                       THEN "queued" ELSE dispatch[d]]
    /\ UNCHANGED <<timer, granted, attempts>>

\* A new admission: WaitAccepted returns its record, WaitTerminal goes on to drive it.
ExecuteAdmission(p, e, wait) ==
    /\ At(p, "idle") /\ AdmitExecutionAtomic(p, e)
    /\ IF wait = "terminal" /\ FirstSteps(e) # {}
       THEN proc' = [proc EXCEPT ![p] = [Idle EXCEPT !.pc = "refresh", !.id = e]]
       ELSE UNCHANGED proc
    /\ UNCHANGED <<shape, faults>>

\* A replayed admission or a resume finds the record and waits for its end.
ExecuteReplay(p, e) ==
    /\ At(p, "idle") /\ execution[e].state # "absent" /\ ~IsTerminal(execution[e].state)
    /\ GetExecution(p, e)
    /\ proc' = [proc EXCEPT ![p] = [Idle EXCEPT !.pc = "load", !.id = e]]
    /\ UNCHANGED <<vars, shape, faults>>

RunOnce(p, e) ==
    /\ At(p, "idle") /\ LeaseExecution(p, e)
    /\ proc' = [proc EXCEPT ![p] = [Idle EXCEPT !.pc = "confirm", !.id = e, !.lease = TRUE]]
    /\ UNCHANGED <<vars, shape, faults>>

\* executeLease renews before it starts; a lost lease ends the batch.
executeLease(p) ==
    /\ At(p, "confirm")
    /\ \/ RenewExecutionLease(p, ExecutionOfCall(p)) /\ Go(p, "load")
       \/ ~HoldsLease(p, ExecutionOfCall(p)) /\ Return(p) /\ UNCHANGED ledger
    /\ UNCHANGED <<vars, shape, faults>>

loadExecution(p) ==
    /\ At(p, "load") /\ GetExecution(p, ExecutionOfCall(p))
    /\ IF IsTerminal(execution[ExecutionOfCall(p)].state) THEN Return(p) ELSE Go(p, "refresh")
    /\ UNCHANGED <<vars, shape, faults>>

\* The pinned generation cannot be resolved.
blockDependency(p) ==
    /\ MayBlock /\ At(p, "load") /\ GetExecution(p, ExecutionOfCall(p))
    /\ ~IsTerminal(execution[ExecutionOfCall(p)].state)
    /\ proc' = [proc EXCEPT ![p].pc = "finalize", ![p].verdict = "blocked_dependency"]
    /\ UNCHANGED <<vars, shape, faults>>

\* Another holder turns a caller away; a worker must still hold its lease.
refreshExecution(p) ==
    LET e == ExecutionOfCall(p) IN
    /\ At(p, "refresh") /\ GetExecution(p, e)
    /\ IF IsTerminal(execution[e].state) THEN Return(p)
       ELSE IF proc[p].lease
       THEN IF HoldsLease(p, e) THEN Go(p, Begin(SagaOfCall(p))) ELSE ReturnUndisposed(p)
       ELSE IF execution[e].holder # Nobody THEN Return(p)
       ELSE Go(p, IF execution[e].state = "accepted" THEN "start" ELSE Begin(SagaOfCall(p)))
    /\ UNCHANGED <<vars, shape, faults>>

-----------------------------------------------------------------------------
(* commitExecutionState: a caller compares and swaps the revision, at most *)
(* three times; a worker finishes its lease.                               *)

CompareAndSwap(p, state, next) ==
    LET e == ExecutionOfCall(p) IN
    IF <<p, e>> \in known
    THEN IF IsTerminal(execution[e].state) \/ execution[e].holder # Nobody
         THEN Return(p) /\ UNCHANGED ledger
         ELSE /\ SetExecutionState(p, e, state)
              /\ IF next = "idle" THEN Return(p) ELSE Go(p, next)
    ELSE /\ GetExecution(p, e)
         /\ IF IsTerminal(execution[e].state) \/ execution[e].holder # Nobody \/ proc[p].tries = 2
            THEN Return(p)
            ELSE proc' = [proc EXCEPT ![p].tries = @ + 1]

StartRunning(p) ==
    /\ At(p, "start") /\ CompareAndSwap(p, "running", Begin(SagaOfCall(p)))
    /\ UNCHANGED <<vars, shape, faults>>

Verdict(p) ==
    IF proc[p].verdict = "open" THEN execution[ExecutionOfCall(p)].state ELSE proc[p].verdict

FinishLease(p) ==
    LET e == ExecutionOfCall(p) IN
    /\ At(p, "persist") /\ proc[p].lease
    /\ IF HoldsLease(p, e)
       THEN /\ FinishExecutionLease(p, e, Verdict(p))
            /\ IF proc[p].undisposed THEN ReturnUndisposed(p) ELSE Return(p)
       ELSE /\ UNCHANGED ledger
            /\ IF IsTerminal(execution[e].state) /\ ~proc[p].undisposed
               THEN Return(p) ELSE ReturnUndisposed(p)
    /\ UNCHANGED <<vars, shape, faults>>

SwapState(p) ==
    /\ At(p, "persist") /\ ~proc[p].lease
    /\ CompareAndSwap(p, Verdict(p), "idle")
    /\ UNCHANGED <<vars, shape, faults>>

-----------------------------------------------------------------------------
(* executeCheckedWorkflow: plans in order, and the steps of a plan in      *)
(* order.                                                                  *)

\* Arguments that cannot be resolved are an error like any other.  A step that
\* is stored is replayed; a new one needs a running saga.
EnqueueCheckedStep(p) ==
    LET s == SagaOfCall(p)  n == proc[p].step IN
    /\ At(p, "enqueue")
    /\ IF n = shape[s].unresolved THEN Classify(p) /\ UNCHANGED vars
       ELSE IF step[s][n] # "absent" THEN Go(p, "dispatch") /\ UNCHANGED vars
       ELSE IF saga[s] = "running"
       THEN EnqueueStep(s, n, shape[s].inverse) /\ Go(p, "dispatch")
       ELSE Classify(p) /\ UNCHANGED vars
    /\ UNCHANGED <<ledger, shape, faults>>

StepSucceeded(p) ==
    /\ At(p, "dispatch") /\ dispatch[StepOfCall(p)] = "succeeded"
    /\ IF proc[p].step < shape[SagaOfCall(p)].steps
       THEN proc' = [proc EXCEPT ![p].pc = "enqueue", ![p].step = @ + 1]
       ELSE Go(p, "complete")
    /\ UNCHANGED <<vars, ledger, shape, faults>>

\* The recorded result cannot be used: ErrBlockedDependency, success stays recorded.
ResultUnusable(p) ==
    /\ MayBlock /\ At(p, "dispatch") /\ dispatch[StepOfCall(p)] = "succeeded"
    /\ proc' = [proc EXCEPT ![p].pc = "finalize", ![p].verdict = "blocked_dependency"]
    /\ UNCHANGED <<vars, ledger, shape, faults>>

\* A failed step ends its plan: compensate, or look at what the saga became.
FailPlan(p) ==
    proc' = [proc EXCEPT ![p].pc = IF shape[SagaOfCall(p)].policy = "compensating"
                                   THEN "compensate" ELSE "failed",
                         ![p].target = <<>>, ![p].attempt = 0]

StepFailed(p) ==
    /\ At(p, "dispatch")
    /\ dispatch[StepOfCall(p)] \in {"failed_permanent", "blocked_unknown", "blocked_fence", "canceled"}
    /\ FailPlan(p)
    /\ UNCHANGED <<vars, ledger, shape, faults>>

\* The open inverse that driveCheckedCompensation dispatches.
CompensationOfCall(p) ==
    {d \in Dispatch : /\ SagaOf(d) = SagaOfCall(p) /\ DirectionOf(d) = "compensation"
                      /\ dispatch[d] \in {"queued", "retry_wait", "in_flight"}}

Target(p) ==
    IF At(p, "dispatch") THEN {StepOfCall(p)}
    ELSE IF At(p, "compensate") /\ saga[SagaOfCall(p)] = "compensating" THEN CompensationOfCall(p)
    ELSE {}

\* The PostgreSQL claim also asks that the execution is not settled.
Claim(p) ==
    /\ ~IsTerminal(execution[ExecutionOfCall(p)].state)
    /\ \E d \in Target(p) :
          /\ ClaimDispatch(d)
          /\ proc' = [proc EXCEPT ![p].pc = "invoking", ![p].target = d,
                                  ![p].attempt = Len(attempts[d]) + 1]
    /\ UNCHANGED <<ledger, shape, faults>>

\* Back to the loop that dispatched, or out of it with an error.
Resume(p) ==
    proc' = [proc EXCEPT ![p].pc = IF DirectionOf(proc[p].target) = "forward"
                                   THEN "dispatch" ELSE "compensate",
                         ![p].target = <<>>, ![p].attempt = 0]
Fail(p) ==
    IF DirectionOf(proc[p].target) = "forward" THEN FailPlan(p) ELSE Classify(p)

\* An unknown outcome is retried within the budget when the sink guarantees idempotency.
Exhausted(a, outcome) ==
    IF outcome = "unknown" /\ a < MaxAttempts THEN BOOLEAN
    ELSE {a >= MaxAttempts /\ outcome \in {"retryable", "unknown"}}

Invoke(p, outcome) ==
    LET d == proc[p].target  a == proc[p].attempt IN
    /\ At(p, "invoking") /\ a <= MaxAttempts
    /\ \E x \in Exhausted(a, outcome) : CompleteDispatch(d, a, outcome, x)
    /\ Resume(p)
    /\ UNCHANGED <<ledger, shape, faults>>

\* A fence is refused: known not committed, and Dispatch returns the error.
FenceRefused(p) ==
    LET d == proc[p].target  a == proc[p].attempt IN
    /\ At(p, "invoking") /\ a <= MaxAttempts
    /\ CompleteDispatch(d, a, "retryable", a >= MaxAttempts)
    /\ Fail(p)
    /\ UNCHANGED <<ledger, shape, faults>>

completeExhaustedClaim(p) ==
    LET d == proc[p].target  a == proc[p].attempt IN
    /\ At(p, "invoking") /\ a > MaxAttempts
    /\ CompleteDispatch(d, a, IF priorAttemptsKnownNotCommitted(d) THEN "retryable" ELSE "unknown", TRUE)
    /\ Resume(p)
    /\ UNCHANGED <<ledger, shape, faults>>

\* The completion of a lease that was lost is refused.
StaleLease(p) ==
    /\ At(p, "invoking") /\ ~currentLeaseAt(proc[p].target, proc[p].attempt)
    /\ Fail(p)
    /\ UNCHANGED <<vars, ledger, shape, faults>>

NextPlan(p) ==
    IF proc[p].plan < Len(Plans[ExecutionOfCall(p)])
    THEN proc' = [proc EXCEPT ![p].pc = Begin(Plans[ExecutionOfCall(p)][proc[p].plan + 1]),
                              ![p].plan = @ + 1, ![p].step = 1]
    ELSE proc' = [proc EXCEPT ![p].pc = "persist", ![p].verdict = "completed"]

\* Mutant: the plan's saga is taken as completed.
CompletePlanBlindly(p) ==
    /\ At(p, "complete") /\ NextPlan(p)
    /\ IF saga[SagaOfCall(p)] = "running"
       THEN CompleteSaga(SagaOfCall(p)) ELSE UNCHANGED vars
    /\ UNCHANGED <<ledger, shape, faults>>

\* CompleteSaga would not refuse.
MayComplete(s) ==
    /\ saga[s] = "running"
    /\ \A d \in Dispatch : SagaOf(d) = s => dispatch[d] \in {"absent", "succeeded"}

CompletePlan(p) ==
    LET s == SagaOfCall(p) IN
    /\ At(p, "complete")
    /\ \/ CompleteSaga(s) /\ NextPlan(p)
       \/ saga[s] = "completed" /\ NextPlan(p) /\ UNCHANGED vars
       \/ /\ saga[s] # "completed" /\ ~MayComplete(s)
          /\ Classify(p) /\ UNCHANGED vars
    /\ UNCHANGED <<ledger, shape, faults>>

-----------------------------------------------------------------------------
(* A failed plan: compensate, or stop without running an inverse.          *)

PlanFailed(p) ==
    LET s == SagaOfCall(p) IN
    /\ At(p, "failed")
    /\ IF saga[s] = "compensating" THEN Go(p, "block")
       ELSE IF saga[s] = "blocked_compensation" THEN Go(p, "failfast")
       ELSE Classify(p)
    /\ UNCHANGED <<vars, ledger, shape, faults>>

\* An active lease is revisited later; any other refusal is ErrDurableDisposition.
Refused(p, refusal) ==
    proc' = [proc EXCEPT ![p] = [Classifying(@) EXCEPT !.undisposed = refusal]]

StopCompensation(p) ==
    LET s == SagaOfCall(p) IN
    /\ At(p, "block")
    /\ \/ BlockSagaCompensation(s) /\ Classify(p)
       \/ /\ saga[s] # "compensating"
          /\ Refused(p, saga[s] # "blocked_compensation") /\ UNCHANGED vars
       \/ saga[s] = "compensating" /\ hasActiveLease(s) /\ Refused(p, FALSE) /\ UNCHANGED vars
    /\ UNCHANGED <<ledger, shape, faults>>

\* FinalizeFailFastSaga would not refuse.
MayFinishFailFast(s) ==
    /\ saga[s] = "blocked_compensation"
    /\ \A d \in Dispatch : SagaOf(d) = s =>
          /\ dispatch[d] # "in_flight"
          /\ DirectionOf(d) = "compensation" => dispatch[d] = "absent"

FinishFailFast(p) ==
    LET s == SagaOfCall(p) IN
    /\ At(p, "failfast")
    /\ \/ FinalizeFailFastSaga(s) /\ Classify(p)
       \/ saga[s] = "failed" /\ Classify(p) /\ UNCHANGED vars
       \/ /\ saga[s] # "failed" /\ ~MayFinishFailFast(s)
          /\ Refused(p, TRUE) /\ UNCHANGED vars
    /\ UNCHANGED <<ledger, shape, faults>>

driveCheckedCompensation(p) ==
    /\ At(p, "compensate") /\ saga[SagaOfCall(p)] # "compensating"
    /\ Classify(p)
    /\ UNCHANGED <<vars, ledger, shape, faults>>

-----------------------------------------------------------------------------
(* The verdict on a failed call: read every saga, close what is still      *)
(* runnable, read again, then persist the worst.                           *)

failureStateRank(state) ==
    CASE state = "blocked_unknown" -> 5
      [] state = "blocked_fence" -> 4
      [] state = "blocked_dependency" -> 3
      [] state = "blocked_compensation" -> 2
      [] state = "failed" -> 1
      [] OTHER -> 0

\* What one saga says about the execution.
FailureState(s) ==
    IF saga[s] \in Blocked THEN saga[s]
    ELSE IF saga[s] \in {"failed", "compensated"} THEN "failed"
    ELSE "open"

Worse(a, b) == IF failureStateRank(b) > failureStateRank(a) THEN b ELSE a

\* executionFailureState reads the sagas one by one.
ReadSaga(p) ==
    LET verdict == Worse(proc[p].verdict, FailureState(SagaOfCall(p)))
        last == proc[p].plan = Len(Plans[ExecutionOfCall(p)])
        then == IF At(p, "observe") \/ verdict = "open" THEN "persist" ELSE "finalize"
    IN
    /\ At(p, "read") \/ At(p, "observe")
    /\ proc' = [proc EXCEPT ![p].verdict = verdict,
                            ![p].pc = IF last THEN then ELSE @,
                            ![p].plan = IF last THEN 1 ELSE @ + 1]
    /\ UNCHANGED <<vars, ledger, shape, faults>>

\* Mutant: the ledger is settled without closing the work that is still runnable.
SkipFinalize(p) ==
    /\ At(p, "finalize")
    /\ proc' = [proc EXCEPT ![p].pc = "observe", ![p].plan = 1, ![p].step = 1]
    /\ UNCHANGED <<vars, ledger, shape, faults>>

\* Mutant: the verdict is not read again after the close.
FinalizeUnobserved(p) ==
    LET e == ExecutionOfCall(p) IN
    /\ At(p, "finalize")
    /\ \/ /\ FinalizeStoppedExecution(e)
          /\ proc' = [proc EXCEPT ![p].pc = "persist", ![p].plan = 1, ![p].step = 1]
       \/ /\ \E s \in Selected(e) : hasActiveLease(s)
          /\ proc' = [proc EXCEPT ![p].pc = "persist", ![p].verdict = "open",
                                  ![p].plan = 1, ![p].step = 1]
          /\ UNCHANGED vars
    /\ UNCHANGED <<ledger, shape, faults>>

finalizeStoppedExecution(p) ==
    LET e == ExecutionOfCall(p) IN
    /\ At(p, "finalize")
    /\ \/ /\ FinalizeStoppedExecution(e)
          /\ proc' = [proc EXCEPT ![p].pc = "observe", ![p].plan = 1, ![p].step = 1]
       \/ /\ \E s \in Selected(e) : hasActiveLease(s)
          /\ proc' = [proc EXCEPT ![p].pc = "persist", ![p].verdict = "open",
                                  ![p].plan = 1, ![p].step = 1]
          /\ UNCHANGED vars
    /\ UNCHANGED <<ledger, shape, faults>>

-----------------------------------------------------------------------------
(* Time and faults.                                                        *)

Fault == faults < MaxFaults /\ faults' = faults + 1

Crash(p) ==
    /\ Fault /\ ~At(p, "idle") /\ Return(p)
    /\ UNCHANGED <<vars, ledger, shape>>

\* A cancelled context or a failing store call, by what the call was doing.
Interrupt(p) ==
    /\ Fault
    /\ \/ /\ proc[p].pc \in {"enqueue", "dispatch", "invoking", "failed", "compensate", "complete"}
          /\ Classify(p)
       \/ /\ proc[p].pc \in {"read", "finalize", "observe"} \/ (At(p, "load") /\ proc[p].lease)
          /\ proc' = [proc EXCEPT ![p].pc = "persist", ![p].verdict = "open",
                                  ![p].plan = 1, ![p].step = 1]
       \/ proc[p].pc \in {"refresh", "start", "persist"} /\ ReturnUndisposed(p)
    /\ UNCHANGED <<vars, ledger, shape>>

Working(p, d) == At(p, "invoking") /\ proc[p].target = d /\ proc[p].attempt = Len(attempts[d])

\* A dispatch lease passes when nobody works under it, and as a fault otherwise.
DispatchTime(d) ==
    /\ TimePasses({d})
    /\ IF timer[d] = "live" /\ \E p \in Process : Working(p, d) THEN Fault ELSE UNCHANGED faults
    /\ UNCHANGED <<ledger, shape, proc>>

LedgerTime(e) ==
    /\ LeaseExpires(e)
    /\ IF \E p \in Process : proc[p].lease /\ execution[e].holder = p /\ ExecutionOfCall(p) = e
       THEN Fault ELSE UNCHANGED faults
    /\ UNCHANGED <<vars, shape, proc>>

-----------------------------------------------------------------------------
\* The rest of a call, once it has entered Execute.
Drive(p) ==
    \/ executeLease(p) \/ loadExecution(p) \/ blockDependency(p) \/ refreshExecution(p)
    \/ StartRunning(p) \/ FinishLease(p) \/ SwapState(p)
    \/ EnqueueCheckedStep(p) \/ StepSucceeded(p) \/ ResultUnusable(p) \/ StepFailed(p)
    \/ Claim(p) \/ (\E o \in Outcome : Invoke(p, o)) \/ FenceRefused(p)
    \/ completeExhaustedClaim(p) \/ StaleLease(p)
    \/ CompletePlan(p) \/ PlanFailed(p) \/ StopCompensation(p) \/ FinishFailFast(p)
    \/ driveCheckedCompensation(p)
    \/ ReadSaga(p) \/ finalizeStoppedExecution(p)
    \/ Restart(p)

EngineNext ==
    \/ \E p \in Caller, e \in Execution :
          \/ \E wait \in {"accepted", "terminal"} : ExecuteAdmission(p, e, wait)
          \/ ExecuteReplay(p, e)
    \/ \E p \in Worker, e \in Execution : RunOnce(p, e)
    \/ \E p \in Process : Drive(p) \/ Crash(p) \/ Interrupt(p)
    \/ \E d \in Dispatch : DispatchTime(d)
    \/ \E e \in Execution : LedgerTime(e)

EngineSpec == EngineInit /\ [][EngineNext]_engineVars

\* Workers poll, calls that entered go on, and time passes.
FairEngineSpec ==
    /\ EngineSpec
    /\ \A p \in Process : WF_engineVars(Drive(p))
    /\ \A p \in Worker, e \in Execution : SF_engineVars(RunOnce(p, e))
    /\ \A d \in Dispatch : WF_engineVars(DispatchTime(d))
    /\ \A e \in Execution : WF_engineVars(LedgerTime(e))

-----------------------------------------------------------------------------
Ended(e) == IsTerminal(execution[e].state)

\* An execution recorded as completed has completed every selected plan: a
\* caller and a recovery worker inside the same workflow, or a worker that
\* resumes after a crash, never record success for work that was not done.
CompletedIsDone ==
    \A e \in Execution : execution[e].state = "completed" =>
        \A s \in Selected(e) : saga[s] = "completed"

\* Once an execution is recorded as stopped nothing of it can still run: its
\* sagas are settled, no dispatch is open, and no attempt is under way that
\* could still be completed.
StoppedIsQuiet ==
    \A e \in Execution : Ended(e) =>
        /\ \A s \in Selected(e) : saga[s] \in TerminalSaga
        /\ \A d \in Dispatch : SagaOf(d) \in Selected(e) =>
              dispatch[d] \notin {"queued", "retry_wait", "in_flight"}

\* The recorded failure never understates what a saga knows: an execution with
\* a saga whose effect is unknown is not recorded as merely failed.
VerdictCoversSagas ==
    \A e \in Execution : Ended(e) /\ execution[e].state # "completed" =>
        \A s \in Selected(e) :
            failureStateRank(FailureState(s)) <= failureStateRank(execution[e].state)

\* A settled record is never written again, whoever still drives the workflow.
SettledOnce ==
    [][\A e \in Execution : Ended(e) => execution'[e] = execution[e]]_engineVars

\* The plan came to a step whose arguments cannot be resolved: every step before
\* it succeeded, and it is not enqueued.
Starved(s) ==
    LET n == shape[s].unresolved IN
    /\ n \in 2..shape[s].steps
    /\ saga[s] = "running" /\ step[s][n] = "absent"
    /\ \A k \in 1..(n - 1) : step[s][k] = "succeeded"

\* Every admitted execution is settled: whatever a caller leaves behind, and
\* wherever a crash or a lost lease strikes, recovery drives it to an end.  The
\* one exception is a plan with a later step that names a fact the request did
\* not send: its execution stays open, and only once every step before that
\* one has succeeded.
EventuallySettled ==
    \A e \in Execution : execution[e].state # "absent" ~>
        Ended(e) \/ \E s \in Selected(e) : Starved(s)

\* "Known business failures do not stop unrelated recovery work": a worker that
\* recorded the end of its execution goes on to the next one.
BusinessFailureKeepsWorker ==
    [][\A p \in Worker : ~At(p, "exited") /\ At(p, "exited")' =>
          ~(IsTerminal(execution'[ExecutionOfCall(p)].state)
            /\ execution' # execution)]_engineVars
=============================================================================
