----------------------------- MODULE Dispatcher -----------------------------
(***************************************************************************)
(* schema.Dispatcher on top of the saga outbox, and the destination its    *)
(* executor calls.  One run of Dispatcher.Dispatch is named by the claim   *)
(* it obtained: dispatch d, attempt a.  Any number of processes may run    *)
(* Dispatch at the same time, stop at any point, or outlive their lease.   *)
(*                                                                         *)
(* The destination is external.  A request it was sent is applied or       *)
(* refused at any later time, also after the caller gave up waiting; an    *)
(* executor reports success only for an applied request, and a known       *)
(* failure (retryable, permanent, stale fence) only for a refused one.     *)
(***************************************************************************)
EXTENDS SagaOutbox

CONSTANTS
    MaxAttempts,    \* DispatcherOptions.MaxAttempts
    RetryUnknown,   \* dispatches whose executor allows retrying an unknown outcome
    MaxFaults       \* bound: runs of Dispatch that stop early or outlive their lease

ASSUME DispatcherAssumption ==
    /\ MaxAttempts \in Nat \ {0}
    /\ RetryUnknown \subseteq Dispatch
    /\ MaxFaults \in Nat

VARIABLES
    call,       \* where the run of Dispatch for claim a of d stands
    request,    \* what became of the request that run sent
    faults      \* faults so far

dispatcherVars == <<call, request, faults>>
allVars == <<vars, dispatcherVars>>

-----------------------------------------------------------------------------
Claim == 1..MaxClaims

KnownNotCommitted == {"retryable", "permanent", "stale_fence"}

\* "malformed" is a returned outcome that fails validation or serialization.
Returned == Outcome \cup {"malformed"}

Phase == {"none", "claimed", "fenced", "granted", "invoking", "done"} \cup Returned

Request == {"unsent", "sent", "applied", "refused"}

DispatcherTypeOK ==
    /\ TypeOK
    /\ call \in [Dispatch -> [Claim -> Phase]]
    /\ request \in [Dispatch -> [Claim -> Request]]
    /\ faults \in 0..MaxFaults

DispatcherInit ==
    /\ Init
    /\ call = [d \in Dispatch |-> [a \in Claim |-> "none"]]
    /\ request = [d \in Dispatch |-> [a \in Claim |-> "unsent"]]
    /\ faults = 0

Enter(d, a, phase) == call' = [call EXCEPT ![d][a] = phase]

-----------------------------------------------------------------------------
(* Dispatch, in the order its calls are made.                              *)

Claims(d) ==
    /\ ClaimDispatch(d)
    /\ Enter(d, Len(attempts[d]) + 1, "claimed")
    /\ UNCHANGED <<request, faults>>

\* Past the retry budget: no fence and no invocation.  ListAttempts and the
\* completion are two store calls, but rows change between them only under a
\* newer claim, which makes the completion fail.
completeExhaustedClaim(d, a) ==
    /\ call[d][a] = "claimed" /\ a > MaxAttempts
    /\ CompleteDispatch(d, a, IF priorAttemptsKnownNotCommitted(d)
                              THEN "retryable" ELSE "unknown", TRUE)
    /\ Enter(d, a, "done")
    /\ UNCHANGED <<request, faults>>

acquireFences(d, a) ==
    /\ call[d][a] = "claimed" /\ a <= MaxAttempts
    /\ Enter(d, a, "fenced")
    /\ UNCHANGED <<vars, request, faults>>

\* A fence is held elsewhere or its provider fails: nothing was sent.
fencesUnavailable(d, a) ==
    /\ call[d][a] = "claimed" /\ a <= MaxAttempts
    /\ CompleteDispatch(d, a, "retryable", a >= MaxAttempts)
    /\ Enter(d, a, "done")
    /\ UNCHANGED <<request, faults>>

SavesGrants(d, a) ==
    /\ call[d][a] = "fenced"
    /\ SaveFencingGrants(d, a)
    /\ Enter(d, a, "granted")
    /\ UNCHANGED <<request, faults>>

\* The persisted arguments do not decode: recorded as unknown, nothing is sent.
undecodable(d, a) ==
    /\ call[d][a] = "granted"
    /\ CompleteDispatch(d, a, "unknown", TRUE)
    /\ Enter(d, a, "done")
    /\ UNCHANGED <<request, faults>>

\* Mutant: the destination is called before the grants are persisted.
InvokeUngranted(d, a) ==
    /\ call[d][a] \in {"fenced", "granted"}
    /\ Enter(d, a, "invoking")
    /\ request' = [request EXCEPT ![d][a] = "sent"]
    /\ UNCHANGED <<vars, faults>>

\* The lease is not consulted again: it may have expired since the local check.
Invoke(d, a) ==
    /\ call[d][a] = "granted"
    /\ Enter(d, a, "invoking")
    /\ request' = [request EXCEPT ![d][a] = "sent"]
    /\ UNCHANGED <<vars, faults>>

Return(d, a, outcome) ==
    /\ call[d][a] = "invoking"
    /\ outcome = "success" => request[d][a] = "applied"
    /\ outcome \in KnownNotCommitted => request[d][a] = "refused"
    /\ Enter(d, a, outcome)
    /\ UNCHANGED <<vars, request, faults>>

Exhausted(d, a, outcome) ==
    \/ outcome \in {"retryable", "unknown"} /\ a >= MaxAttempts
    \/ outcome = "unknown" /\ d \notin RetryUnknown

\* Mutant: an outcome that does not validate counts as not committed.
RecordsMalformedFailed(d, a) ==
    /\ \/ /\ call[d][a] \in Outcome
          /\ CompleteDispatch(d, a, call[d][a], Exhausted(d, a, call[d][a]))
       \/ call[d][a] = "malformed" /\ CompleteDispatch(d, a, "retryable", TRUE)
    /\ Enter(d, a, "done")
    /\ UNCHANGED <<request, faults>>

Records(d, a) ==
    /\ \/ /\ call[d][a] \in Outcome
          /\ CompleteDispatch(d, a, call[d][a], Exhausted(d, a, call[d][a]))
       \/ call[d][a] = "malformed" /\ CompleteDispatch(d, a, "unknown", TRUE)
    /\ Enter(d, a, "done")
    /\ UNCHANGED <<request, faults>>

\* The store refuses a write under a lease that expired or was taken over, and
\* the local deadline check refuses to invoke under one.
LeaseLost(d, a) ==
    /\ call[d][a] \in {"claimed", "fenced", "granted"} \cup Returned
    /\ ~currentLeaseAt(d, a)
    /\ Enter(d, a, "done")
    /\ UNCHANGED <<vars, request, faults>>

\* A crash, a cancelled context, a store error, or too little lease time left
\* to invoke: Dispatch ends and leaves its lease to expire.
Abandon(d, a) ==
    /\ call[d][a] \notin {"none", "done"}
    /\ faults < MaxFaults
    /\ faults' = faults + 1
    /\ Enter(d, a, "done")
    /\ UNCHANGED <<vars, request>>

-----------------------------------------------------------------------------
(* The destination, the clock and the engine.                              *)

Apply(d, a) ==
    /\ request[d][a] = "sent"
    /\ request' = [request EXCEPT ![d][a] = "applied"]
    /\ UNCHANGED <<vars, call, faults>>

Refuse(d, a) ==
    /\ request[d][a] = "sent"
    /\ request' = [request EXCEPT ![d][a] = "refused"]
    /\ UNCHANGED <<vars, call, faults>>

\* A lease that expires under a running Dispatch is a fault.
Outlived(d) == timer[d] = "live" /\ call[d][Len(attempts[d])] # "done"

Elapse(d) ==
    /\ TimePasses({d})
    /\ IF Outlived(d) THEN faults < MaxFaults /\ faults' = faults + 1
                      ELSE UNCHANGED faults
    /\ UNCHANGED <<call, request>>

EngineStep ==
    /\ \/ \E s \in Saga :
             \/ CreateSaga(s)
             \/ \E n \in Sequence, hasInverse \in BOOLEAN : EnqueueStep(s, n, hasInverse)
             \/ CompleteSaga(s)
             \/ BlockSagaCompensation(s)
             \/ FinalizeFailFastSaga(s)
       \/ \E e \in Execution : FinalizeStoppedExecution(e)
    /\ UNCHANGED dispatcherVars

\* Steps a live process takes without waiting for anything.
Proceed(d, a) ==
    \/ completeExhaustedClaim(d, a)
    \/ acquireFences(d, a)
    \/ fencesUnavailable(d, a)
    \/ SavesGrants(d, a)
    \/ undecodable(d, a)
    \/ Invoke(d, a)
    \/ \E outcome \in Returned : Return(d, a, outcome)
    \/ Records(d, a)
    \/ LeaseLost(d, a)

DispatcherNext ==
    \/ EngineStep
    \/ \E d \in Dispatch :
          \/ Claims(d)
          \/ Elapse(d)
          \/ \E a \in Claim : Proceed(d, a) \/ Abandon(d, a) \/ Apply(d, a) \/ Refuse(d, a)

DispatcherSpec == DispatcherInit /\ [][DispatcherNext]_allVars

\* Some process keeps polling for eligible dispatches, a process that has not
\* stopped takes its next step (the invocation deadline bounds the call), and
\* time passes.  Nothing is assumed of the destination or of the engine.
Fairness ==
    \A d \in Dispatch :
        /\ WF_allVars(Claims(d))
        /\ WF_allVars(Elapse(d))
        /\ \A a \in Claim : WF_allVars(Proceed(d, a))

FairDispatcherSpec == DispatcherSpec /\ Fairness

-----------------------------------------------------------------------------
(* Correctness properties.                                                 *)

\* No silent effect: a request that was applied at the destination, or still
\* may be, belongs to a dispatch recorded as succeeded once its saga is
\* reported completed, compensated or failed.  It holds across lost leases,
\* late applications, retries and finalizers.
NoSilentEffect ==
    \A d \in Dispatch, a \in Claim :
        /\ request[d][a] \in {"sent", "applied"}
        /\ saga[SagaOf(d)] \in Settled
        => dispatch[d] = "succeeded"

\* Nothing is undone behind its own back: while an inverse is queued or has
\* run, no forward request of that saga is outstanding or applied unless its
\* step was recorded as succeeded.
NoEffectEscapesCompensation ==
    \A s \in Saga : \A n, m \in Sequence : \A a \in Claim :
        /\ dispatch[Compensation(s, n)] # "absent"
        /\ request[Forward(s, m)][a] \in {"sent", "applied"}
        => dispatch[Forward(s, m)] = "succeeded"

\* Durable intent: the latest attempt of a dispatch reaches the destination
\* only after its claim and its fencing grants were committed, and within the
\* retry budget.
IntentBeforeEffect ==
    \A d \in Dispatch, a \in Claim :
        request[d][a] # "unsent" =>
            /\ a <= Len(attempts[d])
            /\ a = Len(attempts[d]) => granted[d]
            /\ a <= MaxAttempts

\* Every saga with work to do comes to rest: it becomes terminal, or all of
\* its dispatches have succeeded and it waits for the engine.
EventuallyAtRest ==
    \A s \in Saga :
        (saga[s] \in {"running", "compensating"})
            ~> \/ saga[s] \in TerminalSaga
               \/ \A d \in Dispatch : SagaOf(d) = s => dispatch[d] \in {"absent", "succeeded"}

-----------------------------------------------------------------------------
(* The strengthening that makes the properties inductive.                  *)

\* What a run of Dispatch that has not ended has done so far.
RunProgress ==
    \A d \in Dispatch, a \in Claim :
        LET phase == call[d][a] IN
        /\ phase = "none" <=> a > Len(attempts[d])
        /\ phase \in {"none", "claimed", "fenced", "granted"} => request[d][a] = "unsent"
        /\ phase \in KnownNotCommitted => request[d][a] = "refused"
        /\ phase \notin {"none", "done"} => attempts[d][a] = "open"
        /\ phase \notin {"none", "claimed", "done"} => a <= MaxAttempts
        /\ phase \notin {"none", "claimed", "fenced", "done"} /\ a = Len(attempts[d]) => granted[d]

\* A request that may have had an effect is never recorded as not committed.
EffectOnRecord ==
    \A d \in Dispatch, a \in Claim :
        request[d][a] \in {"sent", "applied"} => attempts[d][a] \in {"open", "unknown", "success"}

DispatcherInv ==
    /\ OutboxInv
    /\ DispatcherTypeOK
    /\ RunProgress
    /\ EffectOnRecord
    /\ IntentBeforeEffect
=============================================================================
