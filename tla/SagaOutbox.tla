----------------------------- MODULE SagaOutbox -----------------------------
(***************************************************************************)
(* The durable saga outbox: the state machine behind workflow.OutboxStore  *)
(* and workflow.ExecutionFinalizer, as schema/saga_outbox_memory.go        *)
(* implements it (the PostgreSQL store runs the same checks in one         *)
(* transaction per operation).  Every store operation is one atomic action *)
(* because the code runs it under one mutex.  Operations that return an    *)
(* error leave the store unchanged and are not actions.                    *)
(*                                                                         *)
(* A dispatch is named by its saga, step sequence and direction: the       *)
(* identity that IdempotencyKey hashes.  A claim draws a random lease      *)
(* token and increments the attempt number in the same step, so the pair   *)
(* (attempt, token) is named by the attempt number alone.  Clock readings  *)
(* are abstracted to what the guards ask of them: a lease deadline that    *)
(* has or has not passed, a retry time that has or has not come.           *)
(***************************************************************************)
EXTENDS Naturals, Sequences

CONSTANTS
    Saga,           \* saga identities
    Execution,      \* execution identities
    ExecutionOf,    \* the execution each saga belongs to
    MaxSteps,       \* bound: steps enqueued per saga
    MaxClaims       \* bound: claims (attempt rows) per dispatch

ASSUME OutboxAssumption ==
    /\ ExecutionOf \in [Saga -> Execution]
    /\ MaxSteps \in Nat
    /\ MaxClaims \in Nat

VARIABLES
    saga,       \* effectus_saga_instances.state, "absent" before CreateSaga
    step,       \* effectus_saga_steps.state by saga and sequence
    inverse,    \* whether the step carries a compensation verb
    dispatch,   \* effectus_saga_outbox.state
    timer,      \* how the dispatch's lease deadline or retry time compares with now
    granted,    \* whether the current attempt's fencing grants are persisted
    attempts    \* effectus_saga_attempts: one outcome per claim, "open" until completed

vars == <<saga, step, inverse, dispatch, timer, granted, attempts>>

-----------------------------------------------------------------------------
Sequence == 1..MaxSteps

Direction == {"forward", "compensation"}

Dispatch == Saga \X Sequence \X Direction

SagaOf(d) == d[1]
SeqOf(d) == d[2]
DirectionOf(d) == d[3]

Forward(s, n) == <<s, n, "forward">>
Compensation(s, n) == <<s, n, "compensation">>

TerminalSaga == {"completed", "compensated", "failed", "blocked_unknown",
                 "blocked_dependency", "blocked_fence", "blocked_compensation"}

SagaState == {"running", "compensating"} \cup TerminalSaga

DispatchState == {"queued", "in_flight", "succeeded", "retry_wait",
                  "failed_permanent", "canceled", "blocked_unknown", "blocked_fence"}

StepState == {"pending", "succeeded", "failed", "compensated"}

Outcome == {"success", "retryable", "permanent", "unknown", "stale_fence"}

AttemptOutcome == Outcome \cup {"open"}

Timer == {"none", "live", "expired", "waiting", "due"}

TypeOK ==
    /\ saga \in [Saga -> SagaState \cup {"absent"}]
    /\ step \in [Saga -> [Sequence -> StepState \cup {"absent"}]]
    /\ inverse \in [Saga -> [Sequence -> BOOLEAN]]
    /\ dispatch \in [Dispatch -> DispatchState \cup {"absent"}]
    /\ timer \in [Dispatch -> Timer]
    /\ granted \in [Dispatch -> BOOLEAN]
    /\ attempts \in [Dispatch -> Seq(AttemptOutcome)]

Init ==
    /\ saga = [s \in Saga |-> "absent"]
    /\ step = [s \in Saga |-> [n \in Sequence |-> "absent"]]
    /\ inverse = [s \in Saga |-> [n \in Sequence |-> FALSE]]
    /\ dispatch = [d \in Dispatch |-> "absent"]
    /\ timer = [d \in Dispatch |-> "none"]
    /\ granted = [d \in Dispatch |-> FALSE]
    /\ attempts = [d \in Dispatch |-> <<>>]

-----------------------------------------------------------------------------
(* Admission of sagas and steps.                                           *)

CreateSaga(s) ==
    /\ saga[s] = "absent"
    /\ saga' = [saga EXCEPT ![s] = "running"]
    /\ UNCHANGED <<step, inverse, dispatch, timer, granted, attempts>>

\* Mutant: any free sequence is accepted.
IsFreeSequence(s, n) == step[s][n] = "absent"

\* Sequences are dense: the next step is the first one not yet stored.
IsNextSequence(s, n) ==
    /\ step[s][n] = "absent"
    /\ \A m \in Sequence : m < n => step[s][m] # "absent"

EnqueueStep(s, n, hasInverse) ==
    /\ saga[s] = "running"
    /\ IsNextSequence(s, n)
    /\ step' = [step EXCEPT ![s][n] = "pending"]
    /\ inverse' = [inverse EXCEPT ![s][n] = hasInverse]
    /\ dispatch' = [dispatch EXCEPT ![Forward(s, n)] = "queued"]
    /\ UNCHANGED <<saga, timer, granted, attempts>>

CompleteSaga(s) ==
    /\ saga[s] = "running"
    /\ \A d \in Dispatch : SagaOf(d) = s => dispatch[d] \in {"absent", "succeeded"}
    /\ saga' = [saga EXCEPT ![s] = "completed"]
    /\ UNCHANGED <<step, inverse, dispatch, timer, granted, attempts>>

-----------------------------------------------------------------------------
(* Claims.                                                                 *)

Running == {d \in Dispatch : timer[d] \in {"live", "waiting"}}

\* The clock comes to the lease deadlines and the retry times of some dispatches.
TimePasses(D) ==
    /\ D # {} /\ D \subseteq Running
    /\ timer' = [d \in Dispatch |-> IF d \notin D THEN timer[d]
                                   ELSE IF timer[d] = "live" THEN "expired" ELSE "due"]
    /\ UNCHANGED <<saga, step, inverse, dispatch, granted, attempts>>

hasOtherInFlight(d) ==
    \E e \in Dispatch : /\ SagaOf(e) = SagaOf(d)
                        /\ e # d
                        /\ dispatch[e] = "in_flight"
                        /\ timer[e] = "live"

\* Mutant: an earlier step waiting for its retry does not hold back later ones.
hasActiveEarlierForward(d) ==
    \E e \in Dispatch : /\ SagaOf(e) = SagaOf(d)
                        /\ DirectionOf(e) = "forward"
                        /\ SeqOf(e) < SeqOf(d)
                        /\ dispatch[e] \in {"queued", "in_flight"}

hasUnfinishedEarlierForward(d) ==
    \E e \in Dispatch : /\ SagaOf(e) = SagaOf(d)
                        /\ DirectionOf(e) = "forward"
                        /\ SeqOf(e) < SeqOf(d)
                        /\ dispatch[e] \notin {"absent", "succeeded"}

\* A running saga drives its forward dispatches, a compensating one its inverses.
SagaDrives(d) ==
    \/ saga[SagaOf(d)] = "running" /\ DirectionOf(d) = "forward"
    \/ saga[SagaOf(d)] = "compensating" /\ DirectionOf(d) = "compensation"

\* Mutant: an expired claim is never taken over.
EligibleWithoutTakeover(d) ==
    /\ SagaDrives(d)
    /\ \/ dispatch[d] = "queued"
       \/ dispatch[d] = "retry_wait" /\ timer[d] = "due"
    /\ ~hasOtherInFlight(d)
    /\ DirectionOf(d) = "forward" => ~hasUnfinishedEarlierForward(d)

\* Mutant: an inverse is claimed once and never retried.
EligibleInverseOnce(d) ==
    /\ SagaDrives(d)
    /\ \/ dispatch[d] = "queued"
       \/ dispatch[d] = "retry_wait" /\ timer[d] = "due" /\ DirectionOf(d) = "forward"
       \/ dispatch[d] = "in_flight" /\ timer[d] = "expired"
    /\ ~hasOtherInFlight(d)
    /\ DirectionOf(d) = "forward" => ~hasUnfinishedEarlierForward(d)

Eligible(d) ==
    /\ SagaDrives(d)
    /\ \/ dispatch[d] = "queued"
       \/ dispatch[d] = "retry_wait" /\ timer[d] = "due"
       \/ dispatch[d] = "in_flight" /\ timer[d] = "expired"
    /\ ~hasOtherInFlight(d)
    /\ DirectionOf(d) = "forward" => ~hasUnfinishedEarlierForward(d)

\* The creation-time order among eligible dispatches is left open.
ClaimDispatch(d) ==
    /\ Eligible(d)
    /\ Len(attempts[d]) < MaxClaims
    /\ dispatch' = [dispatch EXCEPT ![d] = "in_flight"]
    /\ timer' = [timer EXCEPT ![d] = "live"]
    /\ granted' = [granted EXCEPT ![d] = FALSE]
    /\ attempts' = [attempts EXCEPT ![d] = Append(@, "open")]
    /\ UNCHANGED <<saga, step, inverse>>

currentLeaseAt(d, attempt) ==
    /\ dispatch[d] = "in_flight"
    /\ attempt = Len(attempts[d])
    /\ timer[d] = "live"

SaveFencingGrants(d, attempt) ==
    /\ currentLeaseAt(d, attempt)
    /\ granted' = [granted EXCEPT ![d] = TRUE]
    /\ UNCHANGED <<saga, step, inverse, dispatch, timer, attempts>>

-----------------------------------------------------------------------------
(* Completion of an attempt, with the compensation it may start.           *)

priorAttemptsKnownNotCommitted(d) ==
    \A i \in 1..(Len(attempts[d]) - 1) : attempts[d][i] = "retryable"

\* Mutant: an exhausted retry budget is taken for a known failure.
onlyPermanentMayMask(outcome, exhausted) == outcome \in {"permanent", "stale_fence"}

terminalOutcomeMayMaskPriorUnknown(outcome, exhausted) ==
    outcome \in {"permanent", "stale_fence"} \/ (outcome = "retryable" /\ exhausted)

PriorUnresolved(d, outcome, exhausted) ==
    /\ terminalOutcomeMayMaskPriorUnknown(outcome, exhausted)
    /\ ~priorAttemptsKnownNotCommitted(d)

Succeeded(steps, s) == {n \in Sequence : steps[s][n] = "succeeded"}

\* Succeeded steps with an inverse: compensationCandidateLocked takes the last.
Candidates(steps, s) == {n \in Succeeded(steps, s) : inverse[s][n]}

\* Mutant: any candidate will do.
IsAny(n, S) == n \in S

IsLast(n, S) == n \in S /\ \A m \in S : m <= n

\* Mutant: steps without an inverse are forgotten.
UncompensableIgnored(s, steps, dispatches, done) ==
    /\ Candidates(steps, s) = {}
    /\ saga' = [saga EXCEPT ![s] = done]
    /\ dispatch' = dispatches

\* With no candidate left the saga rests: `done`, unless a step is still succeeded.
Uncompensable(s, steps, dispatches, done) ==
    /\ Candidates(steps, s) = {}
    /\ saga' = [saga EXCEPT ![s] = IF Succeeded(steps, s) = {}
                                   THEN done ELSE "blocked_compensation"]
    /\ dispatch' = dispatches

enqueueCompensation(s, n, dispatches) ==
    dispatch' = [dispatches EXCEPT
                   ![Compensation(s, n)] = IF @ = "absent" THEN "queued" ELSE @]

startCompensation(s, steps, dispatches) ==
    \/ Uncompensable(s, steps, dispatches, "failed")
    \/ \E n \in Sequence :
          /\ IsLast(n, Candidates(steps, s))
          /\ saga' = [saga EXCEPT ![s] = "compensating"]
          /\ enqueueCompensation(s, n, dispatches)

enqueueNextCompensation(s, steps, dispatches) ==
    \/ Uncompensable(s, steps, dispatches, "compensated")
    \/ \E n \in Sequence :
          /\ IsLast(n, Candidates(steps, s))
          /\ enqueueCompensation(s, n, dispatches)
          /\ UNCHANGED saga

\* The dispatch and its saga stop in the given states.
Block(d, dispatchState, sagaState) ==
    /\ dispatch' = [dispatch EXCEPT ![d] = dispatchState]
    /\ saga' = [saga EXCEPT ![SagaOf(d)] = sagaState]
    /\ timer' = [timer EXCEPT ![d] = "none"]
    /\ UNCHANGED step

\* Mutant: the saga's state is written to the dispatch as well.
BlockUnknownSwapped(d) ==
    Block(d, IF DirectionOf(d) = "forward" THEN "blocked_unknown" ELSE "blocked_compensation",
          "blocked_unknown")

BlockUnknown(d) ==
    Block(d, "blocked_unknown",
          IF DirectionOf(d) = "forward" THEN "blocked_unknown" ELSE "blocked_compensation")

\* Mutant: the step row is not updated.
ForwardSucceedsUnrecorded(d) ==
    /\ DirectionOf(d) = "forward"
    /\ dispatch' = [dispatch EXCEPT ![d] = "succeeded"]
    /\ timer' = [timer EXCEPT ![d] = "none"]
    /\ UNCHANGED <<saga, step>>

ForwardSucceeds(d) ==
    /\ DirectionOf(d) = "forward"
    /\ dispatch' = [dispatch EXCEPT ![d] = "succeeded"]
    /\ step' = [step EXCEPT ![SagaOf(d)][SeqOf(d)] = "succeeded"]
    /\ timer' = [timer EXCEPT ![d] = "none"]
    /\ UNCHANGED saga

CompensationSucceeds(d) ==
    /\ DirectionOf(d) = "compensation"
    /\ step' = [step EXCEPT ![SagaOf(d)][SeqOf(d)] = "compensated"]
    /\ timer' = [timer EXCEPT ![d] = "none"]
    /\ enqueueNextCompensation(SagaOf(d), step', [dispatch EXCEPT ![d] = "succeeded"])

ForwardFails(d) ==
    /\ DirectionOf(d) = "forward"
    /\ step' = [step EXCEPT ![SagaOf(d)][SeqOf(d)] = "failed"]
    /\ timer' = [timer EXCEPT ![d] = "none"]
    /\ startCompensation(SagaOf(d), step', [dispatch EXCEPT ![d] = "failed_permanent"])

CompensationFails(d) ==
    /\ DirectionOf(d) = "compensation"
    /\ Block(d, "failed_permanent", "blocked_compensation")

Retry(d) ==
    /\ dispatch' = [dispatch EXCEPT ![d] = "retry_wait"]
    /\ timer' = [timer EXCEPT ![d] = "waiting"]
    /\ UNCHANGED <<saga, step>>

applyCompletion(d, outcome, exhausted) ==
    \/ PriorUnresolved(d, outcome, exhausted) /\ BlockUnknown(d)
    \/ /\ ~PriorUnresolved(d, outcome, exhausted)
       /\ \/ outcome = "success" /\ (ForwardSucceeds(d) \/ CompensationSucceeds(d))
          \/ outcome \in {"retryable", "unknown"} /\ ~exhausted /\ Retry(d)
          \/ /\ outcome = "permanent" \/ (outcome = "retryable" /\ exhausted)
             /\ ForwardFails(d) \/ CompensationFails(d)
          \/ outcome = "unknown" /\ exhausted /\ BlockUnknown(d)
          \/ outcome = "stale_fence" /\ Block(d, "blocked_fence", "blocked_fence")

CompleteDispatch(d, attempt, outcome, exhausted) ==
    /\ currentLeaseAt(d, attempt)
    /\ attempts' = [attempts EXCEPT ![d][attempt] = outcome]
    /\ applyCompletion(d, outcome, exhausted)
    /\ UNCHANGED <<inverse, granted>>

-----------------------------------------------------------------------------
(* Finalizers: closing work that no worker will drive any more.            *)

hasActiveLease(s) ==
    \E d \in Dispatch : SagaOf(d) = s /\ dispatch[d] = "in_flight" /\ timer[d] = "live"

\* Mutant: only the last attempt is examined.
isUncertainLastRetry(d) ==
    /\ dispatch[d] = "retry_wait"
    /\ attempts[d][Len(attempts[d])] \in {"unknown", "open"}

isUncertainRetry(d) ==
    /\ dispatch[d] = "retry_wait"
    /\ \E i \in 1..Len(attempts[d]) : attempts[d][i] \in {"unknown", "open"}

\* An attempt may have committed at the destination and nobody knows.
Uncertain(d) == dispatch[d] = "in_flight" \/ isUncertainRetry(d)

\* What closing an unfinished dispatch turns it into.
Closed(d) ==
    IF Uncertain(d) THEN "blocked_unknown"
    ELSE IF dispatch[d] \in {"queued", "retry_wait"} THEN "canceled"
    ELSE dispatch[d]

CloseDispatches(D) ==
    /\ dispatch' = [d \in Dispatch |-> IF d \in D THEN Closed(d) ELSE dispatch[d]]
    /\ timer' = [d \in Dispatch |-> IF d \in D THEN "none" ELSE timer[d]]

\* Mutant: a terminal saga is finalized again.
FinalizedAgain(s) ==
    IF \E d \in Dispatch : SagaOf(d) = s /\ (Uncertain(d) \/ dispatch[d] = "blocked_unknown")
    THEN "blocked_unknown"
    ELSE IF \/ saga[s] = "compensating"
            \/ \E d \in Dispatch : /\ SagaOf(d) = s
                                   /\ DirectionOf(d) = "forward"
                                   /\ dispatch[d] = "succeeded"
         THEN "blocked_dependency"
    ELSE "failed"

\* Mutant: a saga with nothing to close is left as it is.
FinalizedIfOpen(s) ==
    IF \E d \in Dispatch : SagaOf(d) = s /\ (Uncertain(d) \/ dispatch[d] = "blocked_unknown")
    THEN "blocked_unknown"
    ELSE IF \E d \in Dispatch : SagaOf(d) = s /\ Closed(d) # dispatch[d] THEN "failed"
    ELSE saga[s]

FinalizedSaga(s) ==
    IF \E d \in Dispatch : SagaOf(d) = s /\ (Uncertain(d) \/ dispatch[d] = "blocked_unknown")
    THEN "blocked_unknown"
    ELSE IF saga[s] \in TerminalSaga THEN saga[s]
    ELSE IF \/ saga[s] = "compensating"
            \/ \E d \in Dispatch : /\ SagaOf(d) = s
                                   /\ DirectionOf(d) = "forward"
                                   /\ dispatch[d] = "succeeded"
         THEN "blocked_dependency"
    ELSE "failed"

FinalizeStoppedExecution(e) ==
    LET stopped == {s \in Saga : ExecutionOf[s] = e /\ saga[s] # "absent"} IN
    /\ \A s \in stopped : ~hasActiveLease(s)
    /\ CloseDispatches({d \in Dispatch : SagaOf(d) \in stopped})
    /\ saga' = [s \in Saga |-> IF s \in stopped THEN FinalizedSaga(s) ELSE saga[s]]
    /\ UNCHANGED <<step, inverse, granted, attempts>>

BlockSagaCompensation(s) ==
    LET inverses == {d \in Dispatch : SagaOf(d) = s /\ DirectionOf(d) = "compensation"} IN
    /\ saga[s] = "compensating"
    /\ ~hasActiveLease(s)
    /\ CloseDispatches(inverses)
    /\ saga' = [saga EXCEPT ![s] = IF \E d \in inverses : Uncertain(d)
                                   THEN "blocked_unknown" ELSE "blocked_compensation"]
    /\ UNCHANGED <<step, inverse, granted, attempts>>

FinalizeFailFastSaga(s) ==
    /\ saga[s] = "blocked_compensation"
    /\ \A d \in Dispatch : SagaOf(d) = s =>
          /\ dispatch[d] # "in_flight"
          /\ DirectionOf(d) = "compensation" => dispatch[d] = "absent"
    /\ saga' = [saga EXCEPT ![s] = "failed"]
    /\ UNCHANGED <<step, inverse, dispatch, timer, granted, attempts>>

-----------------------------------------------------------------------------
Next ==
    \/ \E s \in Saga :
          \/ CreateSaga(s)
          \/ \E n \in Sequence, hasInverse \in BOOLEAN : EnqueueStep(s, n, hasInverse)
          \/ CompleteSaga(s)
          \/ BlockSagaCompensation(s)
          \/ FinalizeFailFastSaga(s)
    \/ \E D \in SUBSET Running : TimePasses(D)
    \/ \E d \in Dispatch :
          \/ ClaimDispatch(d)
          \/ \E a \in 1..MaxClaims : SaveFencingGrants(d, a)
          \/ \E a \in 1..MaxClaims, o \in Outcome, x \in BOOLEAN :
                CompleteDispatch(d, a, o, x)
    \/ \E e \in Execution : FinalizeStoppedExecution(e)

Spec == Init /\ [][Next]_vars

-----------------------------------------------------------------------------
(* Correctness properties.                                                 *)

Settled == {"completed", "compensated", "failed"}

Unresolved == {"in_flight", "retry_wait", "blocked_unknown", "blocked_fence"}

\* The step table and the outbox table tell the same story, although
\* CompleteDispatch writes them separately: a step exists exactly when its
\* forward dispatch does, is succeeded or failed only as that dispatch is, and
\* is compensated exactly when its inverse succeeded.
StepsAgree ==
    \A s \in Saga, n \in Sequence :
        LET f == dispatch[Forward(s, n)]
            c == dispatch[Compensation(s, n)]
        IN  /\ step[s][n] = "absent" <=> f = "absent"
            /\ step[s][n] \in {"succeeded", "compensated"} <=> f = "succeeded"
            /\ step[s][n] = "failed" <=> f = "failed_permanent"
            /\ step[s][n] = "compensated" <=> c = "succeeded"
            /\ c # "absent" => inverse[s][n] /\ f = "succeeded"

\* A terminal saga has no dispatch in flight or waiting for a retry, so no
\* worker holds or can obtain a claim on it: completions and finalizers never
\* leave a straggler behind, whatever the expired lease of an earlier claim.
TerminalQuiescent ==
    \A d \in Dispatch :
        saga[SagaOf(d)] \in TerminalSaga => dispatch[d] \notin {"in_flight", "retry_wait"}

\* A known failure never hides an unknown one: a dispatch recorded as failed
\* or canceled has no attempt that was abandoned by its worker or ended
\* unknown (CompleteDispatch and the finalizers block such a dispatch).
NoMaskedUnknown ==
    \A d \in Dispatch :
        dispatch[d] \in {"failed_permanent", "canceled"} =>
            \A i \in 1..Len(attempts[d]) : attempts[d][i] \in {"retryable", "permanent"}

\* Compensation runs in strict reverse order: once the inverse of step n is
\* queued, every later step that has an inverse has already been compensated.
CompensationOrder ==
    \A s \in Saga : \A m, n \in Sequence :
        (dispatch[Compensation(s, n)] # "absent" /\ n < m /\ inverse[s][m])
            => step[s][m] # "succeeded"

\* An inverse is queued only because a forward step failed for certain, and
\* never while some forward dispatch of the saga may still have an effect
\* nobody has accounted for.
CompensationAfterKnownFailure ==
    \A s \in Saga, n \in Sequence :
        dispatch[Compensation(s, n)] # "absent" =>
            /\ \E m \in Sequence : m > n /\ dispatch[Forward(s, m)] = "failed_permanent"
            /\ \A m \in Sequence : dispatch[Forward(s, m)] \notin Unresolved

\* What the three settled states mean: nothing is unresolved; a completed saga
\* kept every step and queued no inverse; a compensated saga undid every step
\* that had succeeded before one failed; a failed saga queued no inverse.
SettledMeaning ==
    \A s \in Saga :
        /\ saga[s] \in Settled =>
              \A d \in Dispatch : SagaOf(d) = s => dispatch[d] \notin Unresolved
        /\ saga[s] = "completed" => \A n \in Sequence : step[s][n] \in {"absent", "succeeded"}
        /\ saga[s] = "compensated" =>
              /\ Succeeded(step, s) = {}
              /\ \E m, n \in Sequence : step[s][n] = "compensated" /\ step[s][m] = "failed"
        /\ saga[s] \in {"completed", "failed"} =>
              \A n \in Sequence : dispatch[Compensation(s, n)] = "absent"

\* A settled saga is settled for good.  FinalizeStoppedExecution may rewrite a
\* terminal saga to blocked_unknown, but never one whose outcome was reported
\* as completed, compensated or failed.
SettledForever ==
    [][\A s \in Saga : saga[s] \in Settled => saga'[s] = saga[s]]_vars

\* An execution stops as a whole: in the step that cancels a forward dispatch,
\* every saga of the same execution is or becomes terminal.
ExecutionStopsTogether ==
    [][\A d \in Dispatch, s \in Saga :
          /\ DirectionOf(d) = "forward"
          /\ dispatch[d] # "canceled" /\ dispatch'[d] = "canceled"
          /\ ExecutionOf[s] = ExecutionOf[SagaOf(d)]
          => saga'[s] \in TerminalSaga \cup {"absent"}]_vars

-----------------------------------------------------------------------------
(* The strengthening that makes the properties inductive.                  *)

\* What the attempt rows of a dispatch may hold in each of its states.
AttemptHistory ==
    \A d \in Dispatch :
        /\ dispatch[d] \in {"absent", "queued"} => attempts[d] = <<>>
        /\ dispatch[d] \in {"succeeded", "failed_permanent"} \cup Unresolved
              => attempts[d] # <<>>
        /\ dispatch[d] \in {"in_flight", "retry_wait"} =>
              \A i \in 1..Len(attempts[d]) : attempts[d][i] \in {"open", "retryable", "unknown"}

\* Forward steps are stored densely and attempted strictly in order.
ForwardOrder ==
    \A s \in Saga : \A m, n \in Sequence : m < n =>
        /\ dispatch[Forward(s, n)] # "absent" => dispatch[Forward(s, m)] # "absent"
        /\ attempts[Forward(s, n)] # <<>> => dispatch[Forward(s, m)] = "succeeded"

\* Which dispatch states each saga state allows.
SagaPhase ==
    \A s \in Saga, n \in Sequence :
        LET f == dispatch[Forward(s, n)]
            c == dispatch[Compensation(s, n)]
        IN  /\ saga[s] = "absent" => f = "absent" /\ c = "absent"
            /\ saga[s] = "running" =>
                  /\ f \in {"absent", "queued", "in_flight", "retry_wait", "succeeded"}
                  /\ c = "absent"
            /\ saga[s] = "compensating" =>
                  /\ f \in {"absent", "queued", "succeeded", "failed_permanent"}
                  /\ c \in {"absent", "queued", "in_flight", "retry_wait", "succeeded"}
            /\ saga[s] \in Settled \cup {"blocked_compensation"} => f \notin Unresolved
            /\ saga[s] = "completed" => f \in {"absent", "succeeded"}
            /\ saga[s] \in {"completed", "failed"} => c = "absent"
            /\ saga[s] = "compensated" => c \in {"absent", "succeeded"} /\ step[s][n] # "succeeded"

\* A compensated saga has compensated at least one step.
CompensatedSome ==
    \A s \in Saga : saga[s] = "compensated" =>
        \E n \in Sequence : step[s][n] = "compensated"

OutboxInv ==
    /\ TypeOK
    /\ StepsAgree
    /\ AttemptHistory
    /\ ForwardOrder
    /\ SagaPhase
    /\ TerminalQuiescent
    /\ NoMaskedUnknown
    /\ CompensationOrder
    /\ CompensationAfterKnownFailure
    /\ CompensatedSome
=============================================================================
