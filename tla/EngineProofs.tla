---------------------------- MODULE EngineProofs ----------------------------
(***************************************************************************)
(* Proofs about ExecutionEngine, for any executions, plans, processes and  *)
(* numbers of faults: what the ledger records of an execution is what its  *)
(* sagas came to, and it is recorded once.                                 *)
(***************************************************************************)
EXTENDS ExecutionEngine, SagaOutboxProofs

Failure == {"failed"} \cup Blocked

Shape == [steps : 0..MaxSteps, inverse : BOOLEAN, policy : {"fail_fast", "compensating"},
          unresolved : {0} \cup 2..MaxSteps]

\* Outside a call, and the places of a call up to the end of its workflow.
Outside == {"idle", "exited"}
Driving == {"confirm", "load", "refresh", "start", "enqueue", "dispatch", "invoking",
            "complete", "failed", "compensate", "block", "failfast"}
Judging == {"read", "finalize", "observe", "persist"}

Call == [pc : Outside \cup Driving \cup Judging, id : Execution, lease : BOOLEAN,
         plan : Nat, step : Nat, target : Dispatch \cup {<<>>}, attempt : Nat,
         verdict : {"open", "completed"} \cup Failure, tries : Nat, undisposed : BOOLEAN]

EngineTypeOK ==
    /\ LedgerTypeOK
    /\ shape \in [Saga -> Shape]
    /\ proc \in [Process -> Call]

\* A record without a lease has no deadline; only an open record has a lease.
RecordOK(e) ==
    /\ execution[e].holder = Nobody <=> execution[e].deadline = "none"
    /\ execution[e].state = "absent" \/ Ended(e) => execution[e].holder = Nobody

\* Nothing of the saga can run any more, and closing it again changes nothing.
QuietSaga(s) ==
    /\ saga[s] \in TerminalSaga
    /\ \A d \in Dispatch : SagaOf(d) = s =>
         /\ dispatch[d] \notin {"queued", "retry_wait", "in_flight"}
         /\ dispatch[d] = "blocked_unknown" => saga[s] = "blocked_unknown"

Covers(state, s) == failureStateRank(FailureState(s)) <= failureStateRank(state)

\* What a record says about the sagas of its execution.
ExecutionOK(e) ==
    /\ execution[e].state = "absent" => \A s \in Selected(e) : saga[s] = "absent"
    /\ execution[e].state # "absent" => \A s \in Selected(e) : saga[s] # "absent"
    /\ execution[e].state # "absent" /\ ~Ended(e) => Plans[e] # <<>>
    /\ execution[e].state = "completed" => \A s \in Selected(e) : saga[s] = "completed"
    /\ Ended(e) /\ execution[e].state # "completed" =>
         \A s \in Selected(e) : QuietSaga(s) /\ Covers(execution[e].state, s)

\* What the place of a call says about the sagas of its execution.
GoodCall(c) ==
    LET plans == Plans[c.id]
    IN  /\ c.pc \notin Outside =>
             execution[c.id].state # "absent" /\ c.plan \in 1..Len(plans)
        /\ c.pc \in Driving => \A j \in 1..Len(plans) : j < c.plan => saga[plans[j]] = "completed"
        /\ c.pc \in {"confirm", "load", "refresh", "start"} => c.step = 1
        /\ c.pc \in {"enqueue", "dispatch"} => c.step \in 1..shape[plans[c.plan]].steps
        /\ c.pc = "invoking" =>
             /\ c.target \in Dispatch /\ SagaOf(c.target) = plans[c.plan]
             /\ DirectionOf(c.target) = "forward" => c.step \in 1..shape[plans[c.plan]].steps
        /\ c.pc # "persist" => c.verdict # "completed"
        /\ c.pc \in {"finalize", "observe"} => c.verdict \in Failure
        /\ c.pc = "observe" =>
             /\ \A s \in Selected(c.id) : QuietSaga(s)
             /\ \A j \in 1..Len(plans) : j < c.plan => Covers(c.verdict, plans[j])
        /\ c.pc = "persist" =>
             /\ c.verdict = "completed" => \A s \in Selected(c.id) : saga[s] = "completed"
             /\ c.verdict \in Failure =>
                  \A s \in Selected(c.id) : QuietSaga(s) /\ Covers(c.verdict, s)

CallOK(p) == GoodCall(proc[p])

EngineInv ==
    /\ OutboxInv
    /\ EngineTypeOK
    /\ \A e \in Execution : RecordOK(e) /\ ExecutionOK(e)
    /\ \A p \in Process : CallOK(p)

-----------------------------------------------------------------------------
(* What a step of the store may do to the sagas.                           *)

\* Sagas do not vanish, a completed one stays so, and a quiet one stays quiet
\* and knows nothing worse than before.
SagasKept ==
    \A s \in Saga :
      /\ saga[s] # "absent" => saga'[s] # "absent"
      /\ saga[s] = "completed" => saga'[s] = "completed"
      /\ QuietSaga(s) => /\ QuietSaga(s)'
                         /\ failureStateRank(FailureState(s)') <= failureStateRank(FailureState(s))

\* No saga appears.
NoneCreated == \A s \in Saga : saga[s] = "absent" => saga'[s] = "absent"

\* The ranks are numbers.
LEMMA RankIsNat ==
    ASSUME NEW v
    PROVE  failureStateRank(v) \in 0..5
  BY DEF failureStateRank

\* They are ordered.
LEMMA RankOrder ==
    ASSUME NEW u, NEW v, NEW w, failureStateRank(u) <= failureStateRank(v),
           failureStateRank(v) <= failureStateRank(w)
    PROVE  failureStateRank(u) <= failureStateRank(w)
<1>1. \A i, j, k \in 0..5 : i <= j /\ j <= k => i <= k
  OBVIOUS
<1> QED
  BY <1>1, RankIsNat, Zenon

\* A saga whose rows do not change is kept.
LEMMA SameSaga ==
    ASSUME NEW s \in Saga, saga'[s] = saga[s],
           \A d \in Dispatch : SagaOf(d) = s => dispatch'[d] = dispatch[d]
    PROVE  /\ QuietSaga(s) => QuietSaga(s)'
           /\ failureStateRank(FailureState(s)') <= failureStateRank(FailureState(s))
<1>1. FailureState(s)' = FailureState(s)
  BY DEF FailureState
<1>2. failureStateRank(FailureState(s)) <= failureStateRank(FailureState(s))
  BY RankIsNat
<1> QED
  BY <1>1, <1>2 DEF QuietSaga

\* The steps that leave the states of sagas and dispatches alone.
LEMMA NothingMoves ==
    ASSUME UNCHANGED <<saga, dispatch>>
    PROVE  SagasKept /\ NoneCreated
  BY SameSaga DEF SagasKept, NoneCreated

\* A step on one saga that was not terminal.
LEMMA OneSagaMoves ==
    ASSUME NEW s \in Saga, saga[s] \notin TerminalSaga, saga[s] # "absent", saga'[s] # "absent",
           \A t \in Saga : t # s => saga'[t] = saga[t],
           \A d \in Dispatch : SagaOf(d) # s => dispatch'[d] = dispatch[d]
    PROVE  SagasKept /\ NoneCreated
<1>1. ~QuietSaga(s) /\ saga[s] # "completed"
  BY DEF QuietSaga, TerminalSaga
<1>2. ASSUME NEW t \in Saga, t # s
      PROVE  QuietSaga(t) => /\ QuietSaga(t)'
                             /\ failureStateRank(FailureState(t)') <= failureStateRank(FailureState(t))
  <2>1. saga'[t] = saga[t] /\ \A d \in Dispatch : SagaOf(d) = t => dispatch'[d] = dispatch[d]
    BY <1>2
  <2> QED
    BY <2>1, SameSaga
<1> QED
  BY <1>1, <1>2 DEF SagasKept, NoneCreated

\* EnqueueStep, a claim and CompleteSaga.
LEMMA ForwardKept ==
    ASSUME OutboxInv,
           \/ \E s \in Saga, n \in Sequence, i \in BOOLEAN : EnqueueStep(s, n, i)
           \/ \E d \in Dispatch : ClaimDispatch(d)
           \/ \E s \in Saga : CompleteSaga(s)
    PROVE  OutboxInv' /\ SagasKept /\ NoneCreated
<1>0. saga \in [Saga -> SagaState \cup {"absent"}] /\ dispatch \in [Dispatch -> DispatchState \cup {"absent"}]
  BY DEF OutboxInv, TypeOK
<1>1. ASSUME NEW s \in Saga, NEW n \in Sequence, NEW i \in BOOLEAN, EnqueueStep(s, n, i)
      PROVE  OutboxInv' /\ SagasKept /\ NoneCreated
  <2>1. /\ saga[s] = "running" /\ saga' = saga
        /\ dispatch' = [dispatch EXCEPT ![Forward(s, n)] = "queued"]
    BY <1>1 DEF EnqueueStep
  <2>2. SagaOf(Forward(s, n)) = s
    BY DispatchIds
  <2>3. \A d \in Dispatch : SagaOf(d) # s => dispatch'[d] = dispatch[d]
    BY <1>0, <2>1, <2>2
  <2>4. saga[s] \notin TerminalSaga
    BY <2>1 DEF TerminalSaga
  <2> QED
    BY <1>1, <2>1, <2>3, <2>4, OneSagaMoves, EnqueueStepInv
<1>2. ASSUME NEW d \in Dispatch, ClaimDispatch(d)
      PROVE  OutboxInv' /\ SagasKept /\ NoneCreated
  <2>1. /\ saga[SagaOf(d)] \in {"running", "compensating"} /\ saga' = saga
        /\ dispatch' = [dispatch EXCEPT ![d] = "in_flight"]
    BY <1>2 DEF ClaimDispatch, Eligible, SagaDrives
  <2>2. \A e \in Dispatch : SagaOf(e) # SagaOf(d) => dispatch'[e] = dispatch[e]
    BY <1>0, <2>1
  <2>3. saga[SagaOf(d)] \notin TerminalSaga /\ saga[SagaOf(d)] # "absent" /\ SagaOf(d) \in Saga
    BY <2>1, DispatchIds DEF TerminalSaga
  <2> QED
    BY <1>2, <2>1, <2>2, <2>3, OneSagaMoves, ClaimDispatchInv
<1>3. ASSUME NEW s \in Saga, CompleteSaga(s)
      PROVE  OutboxInv' /\ SagasKept /\ NoneCreated
  <2>1. saga[s] = "running" /\ saga' = [saga EXCEPT ![s] = "completed"] /\ dispatch' = dispatch
    BY <1>3 DEF CompleteSaga
  <2>2. saga'[s] = "completed" /\ \A t \in Saga : t # s => saga'[t] = saga[t]
    BY <1>0, <2>1
  <2>3. saga[s] \notin TerminalSaga
    BY <2>1 DEF TerminalSaga
  <2> QED
    BY <1>3, <2>1, <2>2, <2>3, OneSagaMoves, CompleteSagaInv
<1> QED
  BY <1>1, <1>2, <1>3

\* A completion touches no dispatch of another saga, and keeps its own.
LEMMA CompletionDispatches ==
    ASSUME OutboxInv, NEW d \in Dispatch, NEW a, NEW o, NEW x,
           CompleteDispatch(d, a, o, x)
    PROVE  /\ \A e \in Dispatch : SagaOf(e) # SagaOf(d) => dispatch'[e] = dispatch[e]
           /\ dispatch'[d] # "absent"
<1>1. dispatch \in [Dispatch -> DispatchState \cup {"absent"}]
  BY DEF OutboxInv, TypeOK
<1>2. ASSUME NEW v, v # "absent", NEW n \in Sequence,
             enqueueCompensation(SagaOf(d), n, [dispatch EXCEPT ![d] = v])
      PROVE  /\ \A e \in Dispatch : SagaOf(e) # SagaOf(d) => dispatch'[e] = dispatch[e]
             /\ dispatch'[d] # "absent"
  <2>1. SagaOf(d) \in Saga
    BY DispatchIds
  <2>2. Compensation(SagaOf(d), n) \in Dispatch /\ SagaOf(Compensation(SagaOf(d), n)) = SagaOf(d)
    BY <2>1, DispatchIds
  <2> QED
    BY <1>1, <1>2, <2>2 DEF enqueueCompensation
<1>3. \/ BlockUnknown(d) \/ ForwardSucceeds(d) \/ CompensationSucceeds(d) \/ Retry(d)
      \/ ForwardFails(d) \/ CompensationFails(d) \/ Block(d, "blocked_fence", "blocked_fence")
  BY DEF CompleteDispatch, applyCompletion
<1>4. CASE BlockUnknown(d) \/ CompensationFails(d) \/ Block(d, "blocked_fence", "blocked_fence")
  BY <1>1, <1>4 DEF BlockUnknown, CompensationFails, Block
<1>5. CASE ForwardSucceeds(d) \/ Retry(d)
  BY <1>1, <1>5 DEF ForwardSucceeds, Retry
<1>6. CASE ForwardFails(d)
  <2>1. CASE dispatch' = [dispatch EXCEPT ![d] = "failed_permanent"]
    BY <1>1, <2>1
  <2> QED
    BY <1>2, <1>6, <2>1 DEF ForwardFails, startCompensation, Uncompensable
<1>7. CASE CompensationSucceeds(d)
  <2>1. CASE dispatch' = [dispatch EXCEPT ![d] = "succeeded"]
    BY <1>1, <2>1
  <2> QED
    BY <1>2, <1>7, <2>1 DEF CompensationSucceeds, enqueueNextCompensation, Uncompensable
<1> QED
  BY <1>3, <1>4, <1>5, <1>6, <1>7

\* CompleteDispatch.
LEMMA CompletionKept ==
    ASSUME OutboxInv, NEW d \in Dispatch, NEW a, NEW o \in Outcome, NEW x \in BOOLEAN,
           CompleteDispatch(d, a, o, x)
    PROVE  OutboxInv' /\ SagasKept /\ NoneCreated
<1>1. OutboxInv'
  BY CompleteDispatchInv
<1>2. /\ SagaOf(d) \in Saga /\ SeqOf(d) \in Sequence
      /\ d = Forward(SagaOf(d), SeqOf(d)) \/ d = Compensation(SagaOf(d), SeqOf(d))
  BY DispatchIds DEF Direction
<1>3. dispatch[d] # "absent" /\ dispatch'[d] # "absent"
  BY CompletionDispatches, Zenon DEF CompleteDispatch, currentLeaseAt
<1>4. saga[SagaOf(d)] # "absent" /\ saga'[SagaOf(d)] # "absent"
  <2>1. SagaPhase /\ SagaPhase'
    BY <1>1, Zenon DEF OutboxInv
  <2>2. \A s \in Saga, n \in Sequence :
          /\ dispatch[Forward(s, n)] # "absent" \/ dispatch[Compensation(s, n)] # "absent" => saga[s] # "absent"
          /\ dispatch'[Forward(s, n)] # "absent" \/ dispatch'[Compensation(s, n)] # "absent" => saga'[s] # "absent"
    BY <2>1, Zenon DEF SagaPhase
  <2> QED
    BY <1>2, <1>3, <2>2, Zenon
<1> QED
  BY <1>1, <1>2, <1>4, CompletionSaga, CompletionDispatches, OneSagaMoves

\* BlockSagaCompensation and FinalizeFailFastSaga.
LEMMA StopKept ==
    ASSUME OutboxInv, NEW s \in Saga, BlockSagaCompensation(s) \/ FinalizeFailFastSaga(s)
    PROVE  OutboxInv' /\ SagasKept /\ NoneCreated
<1>0. saga \in [Saga -> SagaState \cup {"absent"}] /\ dispatch \in [Dispatch -> DispatchState \cup {"absent"}]
  BY DEF OutboxInv, TypeOK
<1>1. CASE BlockSagaCompensation(s)
  <2>1. /\ saga[s] = "compensating"
        /\ \E w \in {"blocked_unknown", "blocked_compensation"} : saga' = [saga EXCEPT ![s] = w]
    BY <1>1, Zenon DEF BlockSagaCompensation
  <2>2. saga'[s] # "absent" /\ \A t \in Saga : t # s => saga'[t] = saga[t]
    BY <1>0, <2>1
  <2>3. saga[s] \notin TerminalSaga
    BY <2>1 DEF TerminalSaga
  <2>4. \A d \in Dispatch : SagaOf(d) # s => dispatch'[d] = dispatch[d]
    BY <1>1, Zenon DEF BlockSagaCompensation, CloseDispatches
  <2> QED
    BY <1>1, <2>1, <2>2, <2>3, <2>4, OneSagaMoves, BlockSagaCompensationInv
<1>2. CASE FinalizeFailFastSaga(s)
  <2>1. /\ saga[s] = "blocked_compensation" /\ saga' = [saga EXCEPT ![s] = "failed"]
        /\ dispatch' = dispatch
    BY <1>2 DEF FinalizeFailFastSaga
  <2>2. saga'[s] = "failed" /\ \A t \in Saga : t # s => saga'[t] = saga[t]
    BY <1>0, <2>1
  <2>3. QuietSaga(s) => QuietSaga(s)'
    BY <2>1, <2>2 DEF QuietSaga, TerminalSaga
  <2>4. failureStateRank(FailureState(s)') <= failureStateRank(FailureState(s))
    <3>1. FailureState(s) = "blocked_compensation" /\ FailureState(s)' = "failed"
      BY <2>1, <2>2 DEF FailureState, Blocked
    <3>2. failureStateRank("blocked_compensation") = 2 /\ failureStateRank("failed") = 1
      BY DEF failureStateRank
    <3> QED
      BY <3>1, <3>2
  <2>5. SagasKept /\ NoneCreated
    BY <2>1, <2>2, <2>3, <2>4, SameSaga DEF SagasKept, NoneCreated
  <2> QED
    BY <1>2, <2>5, FinalizeFailFastSagaInv
<1> QED
  BY <1>1, <1>2

\* FinalizeStoppedExecution leaves quiet sagas alone and makes the others so.
LEMMA FinalizeKept ==
    ASSUME OutboxInv, NEW e \in Execution, FinalizeStoppedExecution(e)
    PROVE  /\ OutboxInv' /\ SagasKept /\ NoneCreated
           /\ \A s \in Saga : ExecutionOf[s] = e /\ saga[s] # "absent" => QuietSaga(s)'
<1> DEFINE stopped == {s \in Saga : ExecutionOf[s] = e /\ saga[s] # "absent"}
<1>0. /\ OutboxInv' /\ \A s \in Saga : saga[s] \in Settled => saga'[s] = saga[s]
  BY FinalizeStoppedExecutionInv
<1>1. /\ \A s \in Saga : saga'[s] = IF s \in stopped THEN FinalizedSaga(s) ELSE saga[s]
      /\ \A d \in Dispatch : dispatch'[d] = IF SagaOf(d) \in stopped THEN Closed(d) ELSE dispatch[d]
  BY DEF FinalizeStoppedExecution, CloseDispatches
<1>2. \A s \in Saga : FinalizedSaga(s) \in TerminalSaga
  BY DEF FinalizedSaga, TerminalSaga
<1>3. ASSUME NEW s \in stopped
      PROVE  QuietSaga(s)'
  <2>1. saga'[s] = FinalizedSaga(s) /\ saga'[s] \in TerminalSaga
    BY <1>1, <1>2
  <2>2. ASSUME NEW d \in Dispatch, SagaOf(d) = s
        PROVE  /\ dispatch'[d] \notin {"queued", "retry_wait", "in_flight"}
               /\ dispatch'[d] = "blocked_unknown" => saga'[s] = "blocked_unknown"
    <3>1. dispatch'[d] = Closed(d)
      BY <1>1, <2>2
    <3>2. Closed(d) \notin {"queued", "in_flight", "retry_wait"}
      BY ClosedState
    <3>3. Closed(d) = "blocked_unknown" => Uncertain(d) \/ dispatch[d] = "blocked_unknown"
      BY DEF Closed
    <3>4. Uncertain(d) \/ dispatch[d] = "blocked_unknown" => FinalizedSaga(s) = "blocked_unknown"
      BY <2>2 DEF FinalizedSaga
    <3> QED
      BY <2>1, <3>1, <3>2, <3>3, <3>4
  <2> QED
    BY <2>1, <2>2 DEF QuietSaga
<1>4. ASSUME NEW s \in Saga, QuietSaga(s)
      PROVE  saga'[s] = saga[s] /\ \A d \in Dispatch : SagaOf(d) = s => dispatch'[d] = dispatch[d]
  <2>1. \A d \in Dispatch : SagaOf(d) = s =>
          /\ ~Uncertain(d) /\ Closed(d) = dispatch[d]
          /\ dispatch[d] = "blocked_unknown" => saga[s] = "blocked_unknown"
    BY <1>4, ClosedState, Zenon DEF QuietSaga, Uncertain, isUncertainRetry
  <2>2. FinalizedSaga(s) = saga[s]
    BY <1>4, <2>1 DEF FinalizedSaga, QuietSaga
  <2> QED
    BY <1>1, <2>1, <2>2
<1>5. \A s \in Saga : saga[s] # "absent" => saga'[s] # "absent"
  BY <1>1, <1>2 DEF TerminalSaga
<1>6. SagasKept
  BY <1>0, <1>4, <1>5, SameSaga DEF SagasKept, Settled
<1>7. NoneCreated
  BY <1>1 DEF NoneCreated
<1> QED
  BY <1>0, <1>3, <1>6, <1>7

-----------------------------------------------------------------------------
(* The atomic admission creates the sagas of an execution.                 *)

\* Positions of a plan, counted from 1: what comes before the next one has come up to this one.
LEMMA UpTo ==
    ASSUME NEW k \in Nat, NEW i \in 1..k
    PROVE  /\ 1 \in 1..k /\ i \in Nat /\ i + 1 \in Nat
           /\ i < k => i + 1 \in 1..k
           /\ i # k => i + 1 \in 1..k
           /\ \A j \in 1..k : /\ ~(j < 1) /\ (j < i + 1 => j <= i) /\ (j <= i => j < i \/ j = i)
                              /\ (~(i < k) => j <= i) /\ (i = k => j <= i)
  OBVIOUS

\* A workflow has no more steps than there are sequence numbers.
LEMMA StepsInSequence ==
    ASSUME NEW m \in 0..MaxSteps
    PROVE  m \in Nat /\ \A i \in 1..m : i \in Sequence
  BY OutboxAssumption DEF Sequence

\* The selected sagas are the execution's own.
LEMMA SelectedFacts ==
    ASSUME NEW e \in Execution
    PROVE  /\ Plans[e] \in Seq(Saga) /\ Len(Plans[e]) \in Nat
           /\ Selected(e) = {Plans[e][i] : i \in 1..Len(Plans[e])}
           /\ \A i \in 1..Len(Plans[e]) : Plans[e][i] \in Selected(e) /\ ~(i < 1)
           /\ Plans[e] # <<>> => 1 \in 1..Len(Plans[e])
           /\ Selected(e) \subseteq Saga
           /\ \A s \in Selected(e) : ExecutionOf[s] = e
<1>1. /\ Plans[e] \in Seq(Saga)
      /\ \A i \in DOMAIN Plans[e] : ExecutionOf[Plans[e][i]] = e
  BY EngineAssumption
<1>2. /\ Len(Plans[e]) \in Nat /\ DOMAIN Plans[e] = 1..Len(Plans[e])
      /\ \A i \in 1..Len(Plans[e]) : Plans[e][i] \in Saga
  BY <1>1
<1>3. Selected(e) = {Plans[e][i] : i \in 1..Len(Plans[e])}
  BY <1>2 DEF Selected
<1>4. /\ Plans[e] # <<>> => 1 \in 1..Len(Plans[e])
      /\ \A i \in 1..Len(Plans[e]) : ~(i < 1)
  BY <1>1, <1>2
<1> QED
  BY <1>1, <1>2, <1>3, <1>4

\* What the admission writes.
LEMMA AdmissionFacts ==
    ASSUME OutboxInv, shape \in [Saga -> Shape], NEW e \in Execution, NEW p,
           \A s \in Selected(e) : saga[s] = "absent", AdmitExecutionAtomic(p, e)
    PROVE  /\ FirstSteps(e) \subseteq Selected(e) /\ Selected(e) \subseteq Saga
           /\ FirstSteps(e) # {} => 1 \in Sequence
           /\ \A s \in Saga :
                saga'[s] = IF s \in FirstSteps(e) THEN "running"
                           ELSE IF s \in Selected(e) THEN "completed" ELSE saga[s]
           /\ \A s \in Saga, n \in Sequence :
                /\ s \in FirstSteps(e) /\ n = 1 => dispatch'[Forward(s, n)] = "queued"
                /\ ~(s \in FirstSteps(e) /\ n = 1) => dispatch'[Forward(s, n)] = dispatch[Forward(s, n)]
                /\ dispatch'[Compensation(s, n)] = dispatch[Compensation(s, n)]
           /\ \A s \in Saga, n \in Sequence :
                /\ s \in FirstSteps(e) /\ n = 1 => step'[s][n] = "pending"
                /\ ~(s \in FirstSteps(e) /\ n = 1) =>
                     step'[s][n] = step[s][n] /\ inverse'[s][n] = inverse[s][n]
           /\ \A s \in Selected(e), n \in Sequence :
                /\ dispatch[Forward(s, n)] = "absent" /\ dispatch[Compensation(s, n)] = "absent"
                /\ step[s][n] = "absent" /\ attempts[Forward(s, n)] = <<>>
                /\ attempts[Compensation(s, n)] = <<>>
           /\ UNCHANGED <<timer, granted, attempts>>
           /\ TypeOK'
<1>0. TypeOK /\ SagaPhase /\ StepsAgree /\ AttemptHistory
  BY DEF OutboxInv
<1>1. FirstSteps(e) \subseteq Selected(e) /\ Selected(e) \subseteq Saga
  BY SelectedFacts DEF FirstSteps
<1>2. ASSUME NEW s \in FirstSteps(e)
      PROVE  1 \in Sequence
  <2>1. shape[s].steps \in 0..MaxSteps /\ shape[s].steps > 0
    BY <1>1 DEF FirstSteps, Shape
  <2> QED
    BY <2>1, OutboxAssumption DEF Sequence
<1>3. \A s \in Saga :
        saga'[s] = IF s \in FirstSteps(e) THEN "running"
                   ELSE IF s \in Selected(e) THEN "completed" ELSE saga[s]
  BY DEF AdmitExecutionAtomic
<1>4. \A s \in Saga, n \in Sequence :
        /\ s \in FirstSteps(e) /\ n = 1 => dispatch'[Forward(s, n)] = "queued"
        /\ ~(s \in FirstSteps(e) /\ n = 1) => dispatch'[Forward(s, n)] = dispatch[Forward(s, n)]
        /\ dispatch'[Compensation(s, n)] = dispatch[Compensation(s, n)]
  <2>1. \A d \in Dispatch : dispatch'[d] = IF \E s \in FirstSteps(e) : d = Forward(s, 1)
                                           THEN "queued" ELSE dispatch[d]
    BY DEF AdmitExecutionAtomic
  <2>2. ASSUME NEW s \in Saga, NEW n \in Sequence
        PROVE  /\ (\E t \in FirstSteps(e) : Forward(s, n) = Forward(t, 1)) <=>
                    s \in FirstSteps(e) /\ n = 1
               /\ ~ \E t \in FirstSteps(e) : Compensation(s, n) = Forward(t, 1)
               /\ Forward(s, n) \in Dispatch /\ Compensation(s, n) \in Dispatch
    BY DispatchIds DEF Forward, Compensation
  <2> QED
    BY <2>1, <2>2
<1>5. \A s \in Saga, n \in Sequence :
        /\ s \in FirstSteps(e) /\ n = 1 => step'[s][n] = "pending"
        /\ ~(s \in FirstSteps(e) /\ n = 1) => step'[s][n] = step[s][n] /\ inverse'[s][n] = inverse[s][n]
  <2>1. \A s \in Saga : /\ step'[s] = IF s \in FirstSteps(e)
                                      THEN [step[s] EXCEPT ![1] = "pending"] ELSE step[s]
                        /\ inverse'[s] = IF s \in FirstSteps(e)
                                         THEN [inverse[s] EXCEPT ![1] = shape[s].inverse] ELSE inverse[s]
    BY Zenon DEF AdmitExecutionAtomic
  <2>2. \A s \in Saga : /\ step[s] \in [Sequence -> StepState \cup {"absent"}]
                        /\ inverse[s] \in [Sequence -> BOOLEAN]
    BY <1>0 DEF TypeOK
  <2>3. ASSUME NEW s \in Saga, NEW n \in Sequence
        PROVE  step'[s][n] = IF s \in FirstSteps(e) /\ n = 1 THEN "pending" ELSE step[s][n]
    BY <2>1, <2>2, <2>3, Zenon
  <2>4. ASSUME NEW s \in Saga, NEW n \in Sequence, ~(s \in FirstSteps(e) /\ n = 1)
        PROVE  inverse'[s][n] = inverse[s][n]
    BY <2>1, <2>2, <2>4, Zenon
  <2> QED
    BY <2>3, <2>4, Zenon
<1>6. ASSUME NEW s \in Selected(e), NEW n \in Sequence
      PROVE  /\ dispatch[Forward(s, n)] = "absent" /\ dispatch[Compensation(s, n)] = "absent"
             /\ step[s][n] = "absent" /\ attempts[Forward(s, n)] = <<>>
             /\ attempts[Compensation(s, n)] = <<>>
  <2>1. s \in Saga /\ saga[s] = "absent"
    BY <1>1
  <2>2. dispatch[Forward(s, n)] = "absent" /\ dispatch[Compensation(s, n)] = "absent"
    BY <1>0, <2>1, Zenon DEF SagaPhase
  <2> QED
    BY <1>0, <2>1, <2>2, DispatchIds, Zenon DEF StepsAgree, AttemptHistory
<1>7. TypeOK'
  <2>1. saga' \in [Saga -> SagaState \cup {"absent"}]
    BY <1>0, Zenon DEF AdmitExecutionAtomic, TypeOK, SagaState, TerminalSaga
  <2>2. step' \in [Saga -> [Sequence -> StepState \cup {"absent"}]]
    <3>1. step' = [s \in Saga |-> IF s \in FirstSteps(e)
                                  THEN [step[s] EXCEPT ![1] = "pending"] ELSE step[s]]
      BY Zenon DEF AdmitExecutionAtomic
    <3>2. \A s \in Saga : [step[s] EXCEPT ![1] = "pending"] \in [Sequence -> StepState \cup {"absent"}]
      BY <1>0, Zenon DEF TypeOK, StepState
    <3> QED
      BY <1>0, <3>1, <3>2 DEF TypeOK
  <2>3. inverse' \in [Saga -> [Sequence -> BOOLEAN]]
    <3>1. inverse' = [s \in Saga |-> IF s \in FirstSteps(e)
                                     THEN [inverse[s] EXCEPT ![1] = shape[s].inverse] ELSE inverse[s]]
      BY Zenon DEF AdmitExecutionAtomic
    <3>2. \A s \in Saga : shape[s].inverse \in BOOLEAN
      BY DEF Shape
    <3>3. \A s \in Saga : [inverse[s] EXCEPT ![1] = shape[s].inverse] \in [Sequence -> BOOLEAN]
      BY <1>0, <3>2, Zenon DEF TypeOK
    <3> QED
      BY <1>0, <3>1, <3>3 DEF TypeOK
  <2>4. dispatch' \in [Dispatch -> DispatchState \cup {"absent"}]
    BY <1>0, Zenon DEF AdmitExecutionAtomic, TypeOK, DispatchState
  <2> QED
    BY <1>0, <2>1, <2>2, <2>3, <2>4, Zenon DEF AdmitExecutionAtomic, TypeOK
<1>8. UNCHANGED <<timer, granted, attempts>>
  BY Zenon DEF AdmitExecutionAtomic
<1>9. FirstSteps(e) # {} => 1 \in Sequence
  BY <1>2, Zenon
<1> QED
  BY <1>1, <1>3, <1>4, <1>5, <1>6, <1>7, <1>8, <1>9, Zenon

\* The admission keeps the invariant of the store.
LEMMA AdmissionKept ==
    ASSUME OutboxInv, shape \in [Saga -> Shape], NEW e \in Execution, NEW p,
           \A s \in Selected(e) : saga[s] = "absent", AdmitExecutionAtomic(p, e)
    PROVE  OutboxInv' /\ SagasKept
<1> DEFINE First == FirstSteps(e)
           New == Selected(e)
<1>0. /\ First \subseteq New /\ New \subseteq Saga
      /\ \A s \in Saga : saga'[s] = IF s \in First THEN "running"
                                    ELSE IF s \in New THEN "completed" ELSE saga[s]
      /\ UNCHANGED attempts /\ TypeOK'
  BY AdmissionFacts, Zenon
<1>1. \A s \in Saga, n \in Sequence :
        /\ s \in First /\ n = 1 => dispatch'[Forward(s, n)] = "queued"
        /\ ~(s \in First /\ n = 1) => dispatch'[Forward(s, n)] = dispatch[Forward(s, n)]
        /\ dispatch'[Compensation(s, n)] = dispatch[Compensation(s, n)]
  BY AdmissionFacts, Zenon
<1>12. \A s \in Saga, n \in Sequence :
         /\ s \in First /\ n = 1 => step'[s][n] = "pending"
         /\ ~(s \in First /\ n = 1) => step'[s][n] = step[s][n] /\ inverse'[s][n] = inverse[s][n]
  BY AdmissionFacts, Zenon
<1>13. \A s \in New, n \in Sequence :
         /\ dispatch[Forward(s, n)] = "absent" /\ dispatch[Compensation(s, n)] = "absent"
         /\ step[s][n] = "absent" /\ attempts[Forward(s, n)] = <<>>
         /\ attempts[Compensation(s, n)] = <<>>
  BY AdmissionFacts, Zenon
<1> HIDE DEF First, New
<1>2. \A d \in Dispatch :
        \/ dispatch'[d] = dispatch[d] /\ SagaOf(d) \notin New
        \/ SagaOf(d) \in New /\ dispatch'[d] \in {"absent", "queued"} /\ attempts[d] = <<>>
  <2> SUFFICES ASSUME NEW d \in Dispatch
               PROVE  \/ dispatch'[d] = dispatch[d] /\ SagaOf(d) \notin New
                      \/ SagaOf(d) \in New /\ dispatch'[d] \in {"absent", "queued"} /\ attempts[d] = <<>>
    OBVIOUS
  <2>1. /\ SagaOf(d) \in Saga /\ SeqOf(d) \in Sequence
        /\ d = Forward(SagaOf(d), SeqOf(d)) \/ d = Compensation(SagaOf(d), SeqOf(d))
    BY DispatchIds DEF Direction
  <2>2. CASE d = Forward(SagaOf(d), SeqOf(d))
    BY <1>0, <1>1, <1>13, <2>1, <2>2
  <2>3. CASE d = Compensation(SagaOf(d), SeqOf(d))
    BY <1>0, <1>1, <1>13, <2>1, <2>3
  <2> QED
    BY <2>1, <2>2, <2>3, Zenon
<1>3. StepsAgree'
  <2> SUFFICES ASSUME NEW s \in Saga, NEW n \in Sequence
               PROVE  StepsAgree!(s, n)'
    BY Zenon DEF StepsAgree
  <2>1. CASE s \in First /\ n = 1
    <3>1. /\ step'[s][n] = "pending" /\ dispatch'[Forward(s, n)] = "queued"
          /\ dispatch'[Compensation(s, n)] = "absent"
      BY <1>0, <1>1, <1>12, <1>13, <2>1
    <3> QED
      BY <3>1, Zenon
  <2>2. CASE ~(s \in First /\ n = 1)
    <3>1. /\ step'[s][n] = step[s][n] /\ inverse'[s][n] = inverse[s][n]
          /\ dispatch'[Forward(s, n)] = dispatch[Forward(s, n)]
          /\ dispatch'[Compensation(s, n)] = dispatch[Compensation(s, n)]
      BY <1>1, <1>12, <2>2, Zenon
    <3>2. StepsAgree!(s, n)
      BY Zenon DEF OutboxInv, StepsAgree
    <3> QED
      BY <3>1, <3>2, Zenon
  <2> QED
    BY <2>1, <2>2, Zenon
<1>4. AttemptHistory' /\ NoMaskedUnknown'
  <2> SUFFICES ASSUME NEW d \in Dispatch
               PROVE  AttemptHistory!(d)' /\ NoMaskedUnknown!(d)'
    BY Zenon DEF AttemptHistory, NoMaskedUnknown
  <2>1. attempts'[d] = attempts[d]
    BY <1>0, Zenon
  <2>2. CASE dispatch'[d] = dispatch[d]
    <3>1. AttemptHistory!(d) /\ NoMaskedUnknown!(d)
      BY Zenon DEF OutboxInv, AttemptHistory, NoMaskedUnknown
    <3> QED
      BY <2>1, <2>2, <3>1, Zenon
  <2>3. CASE dispatch'[d] \in {"absent", "queued"} /\ attempts[d] = <<>>
    BY <2>1, <2>3, Zenon DEF Unresolved
  <2> QED
    BY <1>2, <2>2, <2>3, Zenon
<1>5. TerminalQuiescent'
  BY <1>0, <1>2, DispatchIds, Zenon DEF OutboxInv, TerminalQuiescent
<1>6. ForwardOrder'
  <2> SUFFICES ASSUME NEW s \in Saga, NEW m \in Sequence, NEW n \in Sequence, m < n
               PROVE  /\ dispatch'[Forward(s, n)] # "absent" => dispatch'[Forward(s, m)] # "absent"
                      /\ attempts'[Forward(s, n)] # <<>> => dispatch'[Forward(s, m)] = "succeeded"
    BY DEF ForwardOrder
  <2>1. n # 1
    BY SequenceNat
  <2>2. CASE s \in New
    BY <1>0, <1>1, <1>13, <2>1, <2>2
  <2>3. CASE s \notin New
    BY <1>0, <1>1, <2>3 DEF OutboxInv, ForwardOrder
  <2> QED
    BY <2>2, <2>3
<1>7. SagaPhase'
  <2> SUFFICES ASSUME NEW s \in Saga, NEW n \in Sequence
               PROVE  SagaPhase!(s, n)'
    BY Zenon DEF SagaPhase
  <2>1. CASE s \in New
    <3>1. /\ dispatch'[Forward(s, n)] \in {"absent", "queued"}
          /\ dispatch'[Compensation(s, n)] = "absent"
          /\ saga'[s] = "running" \/ (saga'[s] = "completed" /\ dispatch'[Forward(s, n)] = "absent")
      <4>1. /\ saga'[s] = IF s \in First THEN "running" ELSE "completed"
            /\ dispatch'[Forward(s, n)] = IF s \in First /\ n = 1 THEN "queued" ELSE "absent"
        BY <1>0, <1>1, <1>13, <2>1
      <4>2. dispatch'[Compensation(s, n)] = "absent"
        BY <1>0, <1>1, <1>13, <2>1
      <4> QED
        BY <4>1, <4>2, Zenon
    <3> QED
      BY <3>1, Zenon DEF Settled, Unresolved
  <2>2. CASE s \notin New
    <3>1. /\ saga'[s] = saga[s] /\ step'[s][n] = step[s][n]
          /\ dispatch'[Forward(s, n)] = dispatch[Forward(s, n)]
          /\ dispatch'[Compensation(s, n)] = dispatch[Compensation(s, n)]
      BY <1>0, <1>1, <1>12, <2>2
    <3> QED
      BY <3>1, PhaseKept, Zenon
  <2> QED
    BY <2>1, <2>2, Zenon
<1>8. CompensationOrder'
  <2> SUFFICES ASSUME NEW s \in Saga, NEW m \in Sequence, NEW n \in Sequence,
                      dispatch'[Compensation(s, n)] # "absent", n < m, inverse'[s][m]
               PROVE  step'[s][m] # "succeeded"
    BY Zenon DEF CompensationOrder
  <2>0. dispatch'[Compensation(s, n)] = dispatch[Compensation(s, n)]
    BY <1>1, Zenon
  <2>1. dispatch[Compensation(s, n)] # "absent" /\ s \notin New
    BY <1>13, <2>0, Zenon
  <2>2. s \notin First
    BY <1>0, <2>1, Zenon
  <2> QED
    BY <1>12, <2>1, <2>2, SMTT(30) DEF OutboxInv, CompensationOrder
<1>9. CompensationAfterKnownFailure'
  <2> SUFFICES ASSUME NEW s \in Saga, NEW n \in Sequence, dispatch'[Compensation(s, n)] # "absent"
               PROVE  /\ \E m \in Sequence : m > n /\ dispatch'[Forward(s, m)] = "failed_permanent"
                      /\ \A m \in Sequence : dispatch'[Forward(s, m)] \notin Unresolved
    BY DEF CompensationAfterKnownFailure
  <2>0. dispatch'[Compensation(s, n)] = dispatch[Compensation(s, n)]
    BY <1>1, Zenon
  <2>1. dispatch[Compensation(s, n)] # "absent" /\ s \notin New
    BY <1>13, <2>0, Zenon
  <2>2. s \notin First
    BY <1>0, <2>1
  <2>3. \A m \in Sequence : dispatch'[Forward(s, m)] = dispatch[Forward(s, m)]
    BY <1>1, <2>2
  <2> QED
    BY <2>1, <2>3, Zenon DEF OutboxInv, CompensationAfterKnownFailure
<1>10. CompensatedSome'
  <2> SUFFICES ASSUME NEW s \in Saga, saga'[s] = "compensated"
               PROVE  \E n \in Sequence : step'[s][n] = "compensated"
    BY Zenon DEF CompensatedSome
  <2>1. saga'[s] = IF s \in First THEN "running"
                   ELSE IF s \in New THEN "completed" ELSE saga[s]
    BY <1>0
  <2>2. s \notin First /\ saga[s] = "compensated"
    BY <2>1
  <2>3. \A n \in Sequence : step'[s][n] = step[s][n]
    BY <1>12, <2>2, Zenon
  <2> QED
    BY <2>2, <2>3 DEF OutboxInv, CompensatedSome
<1>11. SagasKept
  <2> SUFFICES ASSUME NEW s \in Saga
               PROVE  /\ saga[s] # "absent" => saga'[s] # "absent"
                      /\ saga[s] = "completed" => saga'[s] = "completed"
                      /\ QuietSaga(s) =>
                           /\ QuietSaga(s)'
                           /\ failureStateRank(FailureState(s)') <= failureStateRank(FailureState(s))
    BY Zenon DEF SagasKept
  <2>1. CASE s \in New
    <3>1. saga[s] = "absent"
      BY <2>1 DEF New
    <3> QED
      BY <1>0, <2>1, <3>1, Zenon DEF QuietSaga, TerminalSaga
  <2>2. CASE s \notin New
    <3>1. saga'[s] = saga[s] /\ \A d \in Dispatch : SagaOf(d) = s => dispatch'[d] = dispatch[d]
      BY <1>0, <1>2, <2>2
    <3> QED
      BY <3>1, SameSaga, Zenon
  <2> QED
    BY <2>1, <2>2, Zenon
<1> QED
  BY <1>0, <1>3, <1>4, <1>5, <1>6, <1>7, <1>8, <1>9, <1>10, <1>11, Zenon DEF OutboxInv

-----------------------------------------------------------------------------
(* What holds of a step that writes one call, or one record.               *)

\* Records do not vanish, and a settled one is not written.
StatesKept == \A x \in Execution : execution[x].state # "absent" => execution'[x].state # "absent"
SettledKept == \A x \in Execution : Ended(x) => execution'[x] = execution[x]

\* A call that is where it should be stays so when the store moves on.
LEMMA CallStands ==
    ASSUME NEW c \in Call, GoodCall(c), SagasKept, StatesKept, UNCHANGED shape
    PROVE  GoodCall(c)'
<1> DEFINE plans == Plans[c.id]
<1>0. c.id \in Execution
  BY DEF Call
<1>1. /\ \A i \in 1..Len(plans) : plans[i] \in Saga
      /\ Selected(c.id) \subseteq Saga /\ Selected(c.id)' = Selected(c.id)
  BY <1>0, SelectedFacts DEF Selected
<1>2. \A s \in Saga : saga[s] = "completed" => saga'[s] = "completed"
  BY DEF SagasKept
<1>3. \A s \in Saga : QuietSaga(s) => QuietSaga(s)'
  BY DEF SagasKept
<1>4. ASSUME NEW s \in Saga, QuietSaga(s), NEW v, Covers(v, s)
      PROVE  Covers(v, s)'
  <2>1. failureStateRank(FailureState(s)') <= failureStateRank(FailureState(s))
    BY <1>4 DEF SagasKept
  <2>2. failureStateRank(FailureState(s)) <= failureStateRank(v)
    BY <1>4 DEF Covers
  <2>3. failureStateRank(FailureState(s)') <= failureStateRank(v)
    BY <2>1, <2>2, RankOrder, Zenon
  <2> QED
    BY <2>3 DEF Covers
<1>5. c.pc \notin Outside => execution'[c.id].state # "absent" /\ c.plan \in 1..Len(plans)
  BY <1>0, Zenon DEF GoodCall, StatesKept
<1>6. c.pc \in Driving => \A j \in 1..Len(plans) : j < c.plan => saga'[plans[j]] = "completed"
  BY <1>1, <1>2, Zenon DEF GoodCall
<1>7. /\ c.pc \in {"confirm", "load", "refresh", "start"} => c.step = 1
      /\ c.pc \in {"enqueue", "dispatch"} => c.step \in 1..shape'[plans[c.plan]].steps
      /\ c.pc = "invoking" =>
           /\ c.target \in Dispatch /\ SagaOf(c.target) = plans[c.plan]
           /\ DirectionOf(c.target) = "forward" => c.step \in 1..shape'[plans[c.plan]].steps
      /\ c.pc # "persist" => c.verdict # "completed"
      /\ c.pc \in {"finalize", "observe"} => c.verdict \in Failure
  BY Zenon DEF GoodCall
<1>8. c.pc = "observe" =>
        /\ \A s \in Selected(c.id)' : QuietSaga(s)'
        /\ \A j \in 1..Len(plans) : j < c.plan => Covers(c.verdict, plans[j])'
  <2> SUFFICES ASSUME c.pc = "observe"
               PROVE  /\ \A s \in Selected(c.id) : QuietSaga(s)'
                      /\ \A j \in 1..Len(plans) : j < c.plan => Covers(c.verdict, plans[j])'
    BY <1>1
  <2>1. /\ \A s \in Selected(c.id) : QuietSaga(s)
        /\ \A j \in 1..Len(plans) : j < c.plan => Covers(c.verdict, plans[j])
    BY Zenon DEF GoodCall
  <2>2. ASSUME NEW j \in 1..Len(plans), j < c.plan
        PROVE  Covers(c.verdict, plans[j])'
    <3>1. plans[j] \in Saga /\ plans[j] \in Selected(c.id)
      BY <1>0, <1>1, SelectedFacts, Zenon
    <3>2. PICK s \in Saga : s = plans[j]
      BY <3>1, Zenon
    <3>3. QuietSaga(s) /\ Covers(c.verdict, s)
      BY <2>1, <2>2, <3>1, <3>2, Zenon
    <3> QED
      BY <1>4, <3>2, <3>3, Zenon
  <2> QED
    BY <1>1, <1>3, <2>1, <2>2, Zenon
<1>9. c.pc = "persist" =>
        /\ c.verdict = "completed" => \A s \in Selected(c.id)' : saga'[s] = "completed"
        /\ c.verdict \in Failure =>
             \A s \in Selected(c.id)' : QuietSaga(s)' /\ Covers(c.verdict, s)'
  <2>1. c.pc = "persist" =>
          /\ c.verdict = "completed" => \A s \in Selected(c.id) : saga[s] = "completed"
          /\ c.verdict \in Failure => \A s \in Selected(c.id) : QuietSaga(s) /\ Covers(c.verdict, s)
    BY Zenon DEF GoodCall
  <2> QED
    BY <1>1, <1>2, <1>3, <1>4, <2>1, Zenon
<1> QED
  BY <1>5, <1>6, <1>7, <1>8, <1>9, Zenon DEF GoodCall

\* One call moves to a place where it should be.
LEMMA CallsMove ==
    ASSUME EngineInv, SagasKept, StatesKept, UNCHANGED shape, NEW p \in Process,
           NEW c \in Call, proc' = [proc EXCEPT ![p] = c], GoodCall(c)'
    PROVE  proc' \in [Process -> Call] /\ \A q \in Process : CallOK(q)'
<1>0. proc \in [Process -> Call]
  BY DEF EngineInv, EngineTypeOK
<1>1. proc' \in [Process -> Call]
  BY <1>0
<1>2. ASSUME NEW q \in Process
      PROVE  CallOK(q)'
  <2>1. CASE q = p
    <3>1. proc'[q] = c
      BY <1>0, <2>1
    <3> QED
      BY <3>1, Zenon DEF CallOK, GoodCall
  <2>2. CASE q # p
    <3>1. PICK y \in Call : y = proc[q]
      BY <1>0
    <3>2. proc'[q] = y
      BY <1>0, <2>2, <3>1
    <3>3. GoodCall(y)
      BY <3>1 DEF EngineInv, CallOK
    <3>4. GoodCall(y)'
      BY <3>3, CallStands
    <3> QED
      BY <3>2, <3>4, Zenon DEF CallOK, GoodCall
  <2> QED
    BY <2>1, <2>2
<1> QED
  BY <1>1, <1>2

\* A record that is not written still says the truth.
LEMMA RecordStands ==
    ASSUME SagasKept, NEW x \in Execution, execution'[x] = execution[x], RecordOK(x), ExecutionOK(x),
           execution[x].state = "absent" => \A s \in Selected(x) : saga'[s] = saga[s]
    PROVE  RecordOK(x)' /\ ExecutionOK(x)'
<1>1. Selected(x) \subseteq Saga /\ Selected(x)' = Selected(x)
  BY SelectedFacts, Zenon DEF Selected
<1>2. RecordOK(x)'
  BY DEF RecordOK, Ended
<1>3. ASSUME NEW s \in Saga, QuietSaga(s), NEW v, Covers(v, s)
      PROVE  QuietSaga(s)' /\ Covers(v, s)'
  <2>1. QuietSaga(s)' /\ failureStateRank(FailureState(s)') <= failureStateRank(FailureState(s))
    BY <1>3 DEF SagasKept
  <2>2. failureStateRank(FailureState(s)) <= failureStateRank(v)
    BY <1>3 DEF Covers
  <2>3. failureStateRank(FailureState(s)') <= failureStateRank(v)
    BY <2>1, <2>2, RankOrder, Zenon
  <2> QED
    BY <2>1, <2>3 DEF Covers
<1>4. execution[x].state = "absent" => \A s \in Selected(x) : saga'[s] = "absent"
  BY Zenon DEF ExecutionOK
<1>5. execution[x].state # "absent" => \A s \in Selected(x) : saga'[s] # "absent"
  BY <1>1, Zenon DEF ExecutionOK, SagasKept
<1>6. execution[x].state = "completed" => \A s \in Selected(x) : saga'[s] = "completed"
  BY <1>1, Zenon DEF ExecutionOK, SagasKept
<1>7. Ended(x) /\ execution[x].state # "completed" =>
        \A s \in Selected(x) : QuietSaga(s)' /\ Covers(execution[x].state, s)'
  <2> SUFFICES ASSUME Ended(x), execution[x].state # "completed", NEW s \in Selected(x)
               PROVE  QuietSaga(s)' /\ Covers(execution[x].state, s)'
    BY Zenon
  <2>1. PICK v : v = execution[x].state
    BY Zenon
  <2>2. s \in Saga /\ QuietSaga(s) /\ Covers(v, s)
    BY <1>1, <2>1, Zenon DEF ExecutionOK
  <2>3. QuietSaga(s)' /\ Covers(v, s)'
    BY <1>3, <2>2, Zenon
  <2>4. v = execution'[x].state
    BY <2>1, Zenon
  <2> QED
    BY <2>3, <2>4, Zenon DEF Covers
<1>8. Ended(x)' <=> Ended(x)
  BY DEF Ended
<1>9. execution[x].state # "absent" /\ ~Ended(x) => Plans[x] # <<>>
  BY Zenon DEF ExecutionOK
<1>10. ExecutionOK(x)'
  <2>1. Ended(x)' /\ execution'[x].state # "completed" =>
          \A s \in Selected(x)' : QuietSaga(s)' /\ Covers(execution[x].state, s)'
    BY <1>1, <1>7, <1>8, Zenon
  <2> QED
    BY <1>1, <1>4, <1>5, <1>6, <1>8, <1>9, <2>1, Zenon DEF ExecutionOK
<1> QED
  BY <1>2, <1>10

\* All calls stay where they are.
LEMMA CallsStay ==
    ASSUME EngineInv, SagasKept, StatesKept, UNCHANGED <<shape, proc>>
    PROVE  \A q \in Process : CallOK(q)'
<1> SUFFICES ASSUME NEW q \in Process PROVE CallOK(q)'
  OBVIOUS
<1>1. PICK y \in Call : y = proc[q]
  BY DEF EngineInv, EngineTypeOK
<1>2. GoodCall(y)
  BY <1>1 DEF EngineInv, CallOK
<1>3. GoodCall(y)' /\ proc'[q] = y
  BY <1>1, <1>2, CallStands
<1> QED
  BY <1>3, Zenon DEF CallOK, GoodCall

\* A step of the store and of one call, with no record written.
LEMMA StoreStep ==
    ASSUME EngineInv, OutboxInv', SagasKept, NoneCreated, UNCHANGED <<shape, execution>>,
           LedgerTypeOK', NEW p \in Process, NEW c \in Call,
           proc' = [proc EXCEPT ![p] = c], GoodCall(c)'
    PROVE  EngineInv' /\ SettledKept
<1>1. StatesKept /\ SettledKept
  BY DEF StatesKept, SettledKept
<1>2. proc' \in [Process -> Call] /\ \A q \in Process : CallOK(q)'
  BY <1>1, CallsMove, Zenon
<1>3. ASSUME NEW x \in Execution
      PROVE  RecordOK(x)' /\ ExecutionOK(x)'
  <2>1. RecordOK(x) /\ ExecutionOK(x) /\ execution'[x] = execution[x]
    BY DEF EngineInv
  <2>2. execution[x].state = "absent" => \A s \in Selected(x) : saga'[s] = saga[s]
    BY <2>1, SelectedFacts, Zenon DEF ExecutionOK, NoneCreated
  <2> QED
    BY <2>1, <2>2, RecordStands, Zenon
<1>4. EngineTypeOK'
  BY <1>2 DEF EngineInv, EngineTypeOK
<1> QED
  BY <1>1, <1>2, <1>3, <1>4 DEF EngineInv

\* A step of one call, with no row of the store and no record written.
LEMMA CallStep ==
    ASSUME EngineInv, UNCHANGED <<vars, shape, execution>>, LedgerTypeOK',
           NEW p \in Process, NEW c \in Call, proc' = [proc EXCEPT ![p] = c], GoodCall(c)
    PROVE  EngineInv' /\ SettledKept
<1>1. OutboxInv'
  BY NextInv DEF EngineInv
<1>2. SagasKept /\ NoneCreated
  BY NothingMoves DEF vars
<1>3. StatesKept
  BY DEF StatesKept
<1>4. GoodCall(c)'
  BY <1>2, <1>3, CallStands
<1> QED
  BY <1>1, <1>2, <1>4, StoreStep, Zenon

\* A record that is not settled is written, with nothing that is not so.
LEMMA RecordStep ==
    ASSUME EngineInv, UNCHANGED <<vars, shape>>, NEW e \in Execution, NEW r \in Record,
           execution' = [execution EXCEPT ![e] = r], known' \subseteq Process \X Execution,
           execution[e].state # "absent", ~Ended(e), r.state # "absent",
           r.holder = Nobody <=> r.deadline = "none",
           IsTerminal(r.state) => r.holder = Nobody,
           r.state = "completed" => \A s \in Selected(e) : saga[s] = "completed",
           r.state \in Failure => \A s \in Selected(e) : QuietSaga(s) /\ Covers(r.state, s)
    PROVE  /\ OutboxInv' /\ SagasKept /\ NoneCreated /\ StatesKept /\ SettledKept /\ LedgerTypeOK'
           /\ \A x \in Execution : RecordOK(x)' /\ ExecutionOK(x)'
<1>0. execution \in [Execution -> Record]
  BY DEF EngineInv, EngineTypeOK, LedgerTypeOK
<1>1. OutboxInv' /\ SagasKept /\ NoneCreated
  BY NextInv, NothingMoves DEF EngineInv, vars
<1>2. LedgerTypeOK'
  BY <1>0 DEF LedgerTypeOK
<1>3. StatesKept /\ SettledKept
  BY <1>0 DEF StatesKept, SettledKept
<1>4. ASSUME NEW x \in Execution, x # e
      PROVE  RecordOK(x)' /\ ExecutionOK(x)'
  <2>1. RecordOK(x) /\ ExecutionOK(x) /\ execution'[x] = execution[x]
    BY <1>0, <1>4 DEF EngineInv
  <2> QED
    BY <1>1, <2>1, RecordStands DEF vars
<1>5. execution'[e] = r
  BY <1>0
<1>6. RecordOK(e)'
  BY <1>5 DEF RecordOK, Ended
<1>7. ExecutionOK(e)'
  <2>1. ExecutionOK(e) /\ Selected(e)' = Selected(e) /\ saga' = saga /\ dispatch' = dispatch
    BY Zenon DEF EngineInv, vars, Selected
  <2>2. \A s \in Selected(e) : saga'[s] # "absent"
    BY <2>1, Zenon DEF ExecutionOK
  <2>3. Plans[e] # <<>>
    BY <2>1, Zenon DEF ExecutionOK
  <2>4. Ended(e)' /\ r.state # "completed" => r.state \in Failure
    BY <1>5 DEF Ended, IsTerminal, Failure
  <2>5. r.state \in Failure => \A s \in Selected(e) : QuietSaga(s)' /\ Covers(r.state, s)'
    BY <2>1 DEF QuietSaga, Covers, FailureState
  <2>6. Ended(e)' /\ execution'[e].state # "completed" =>
          \A s \in Selected(e)' : QuietSaga(s)' /\ Covers(execution[e].state, s)'
    BY <1>5, <2>1, <2>4, <2>5 DEF Covers
  <2> QED
    BY <1>5, <2>1, <2>2, <2>3, <2>6, Zenon DEF ExecutionOK
<1> QED
  BY <1>1, <1>2, <1>3, <1>4, <1>6, <1>7

\* Such a write with a step of the call that makes it.
LEMMA WriteStep ==
    ASSUME EngineInv, UNCHANGED <<vars, shape>>, NEW e \in Execution, NEW r \in Record,
           execution' = [execution EXCEPT ![e] = r], known' \subseteq Process \X Execution,
           execution[e].state # "absent", ~Ended(e), r.state # "absent",
           r.holder = Nobody <=> r.deadline = "none",
           IsTerminal(r.state) => r.holder = Nobody,
           r.state = "completed" => \A s \in Selected(e) : saga[s] = "completed",
           r.state \in Failure => \A s \in Selected(e) : QuietSaga(s) /\ Covers(r.state, s),
           NEW p \in Process, NEW c \in Call, proc' = [proc EXCEPT ![p] = c], GoodCall(c)
    PROVE  EngineInv' /\ SettledKept
<1>1. /\ OutboxInv' /\ SagasKept /\ NoneCreated /\ StatesKept /\ SettledKept /\ LedgerTypeOK'
      /\ \A x \in Execution : RecordOK(x)' /\ ExecutionOK(x)'
  BY RecordStep, Zenon
<1>2. GoodCall(c)'
  BY <1>1, CallStands
<1>3. proc' \in [Process -> Call] /\ \A q \in Process : CallOK(q)'
  BY <1>1, <1>2, CallsMove, Zenon
<1>4. EngineTypeOK'
  BY <1>1, <1>3 DEF EngineInv, EngineTypeOK
<1> QED
  BY <1>1, <1>3, <1>4 DEF EngineInv

-----------------------------------------------------------------------------
(* The ways a call is written.                                             *)

\* The fields that GoodCall looks at, where two calls agree.
SameWork(c, y) == y.id = c.id /\ y.plan = c.plan /\ y.verdict = c.verdict

\* Places, and the calls that are out of a workflow.
LEMMA OutsideCalls ==
    /\ Idle \in Call /\ GoodCall(Idle)
    /\ [Idle EXCEPT !.pc = "exited"] \in Call /\ GoodCall([Idle EXCEPT !.pc = "exited"])
<1>1. (CHOOSE e \in Execution : TRUE) \in Execution
  BY EngineAssumption
<1>2. Idle \in Call /\ Idle.pc = "idle" /\ Idle.verdict = "open"
  BY <1>1, Zenon DEF Idle, Call, Outside
<1>3. PICK y : y = [Idle EXCEPT !.pc = "exited"]
  BY Zenon
<1>4. y \in Call /\ y.pc = "exited" /\ y.verdict = "open"
  BY <1>1, <1>3, Zenon DEF Idle, Call, Outside
<1>5. \A c \in {Idle, y} : GoodCall(c)
  BY <1>2, <1>4, Zenon DEF GoodCall, Outside, Driving
<1> QED
  BY <1>2, <1>3, <1>4, <1>5

\* The call of an admission.
LEMMA AdmittedCall ==
    ASSUME NEW e \in Execution, NEW c, c = [Idle EXCEPT !.pc = "refresh", !.id = e]
    PROVE  /\ c \in Call /\ c.pc = "refresh" /\ c.id = e /\ c.plan = 1 /\ c.step = 1
           /\ c.verdict = "open"
<1>1. (CHOOSE z \in Execution : TRUE) \in Execution
  BY EngineAssumption
<1> QED
  BY <1>1, Zenon DEF Idle, Call, Driving

\* The call of a replay.
LEMMA ReplayedCall ==
    ASSUME NEW e \in Execution, NEW c, c = [Idle EXCEPT !.pc = "load", !.id = e]
    PROVE  /\ c \in Call /\ c.pc = "load" /\ c.id = e /\ c.plan = 1 /\ c.step = 1
           /\ c.verdict = "open"
<1>1. (CHOOSE z \in Execution : TRUE) \in Execution
  BY EngineAssumption
<1> QED
  BY <1>1, Zenon DEF Idle, Call, Driving

\* The call of a recovery worker.
LEMMA LeasedCall ==
    ASSUME NEW e \in Execution, NEW c, c = [Idle EXCEPT !.pc = "confirm", !.id = e, !.lease = TRUE]
    PROVE  /\ c \in Call /\ c.pc = "confirm" /\ c.id = e /\ c.plan = 1 /\ c.step = 1
           /\ c.verdict = "open"
<1>1. (CHOOSE z \in Execution : TRUE) \in Execution
  BY EngineAssumption
<1> QED
  BY <1>1, Zenon DEF Idle, Call, Driving

\* Go.
LEMMA MovedCall ==
    ASSUME NEW c \in Call, NEW x \in Outside \cup Driving \cup Judging, NEW y,
           y = [c EXCEPT !.pc = x]
    PROVE  y \in Call /\ y.pc = x /\ SameWork(c, y) /\ y.step = c.step /\ y.target = c.target
  BY DEF Call, SameWork

\* The end of a workflow that failed.
LEMMA ClassifyingCall ==
    ASSUME NEW c \in Call, GoodCall(c), c.pc \notin Outside
    PROVE  /\ Classifying(c) \in Call /\ GoodCall(Classifying(c))
           /\ \A u \in BOOLEAN : /\ [Classifying(c) EXCEPT !.undisposed = u] \in Call
                                 /\ GoodCall([Classifying(c) EXCEPT !.undisposed = u])
<1>1. /\ Classifying(c) \in Call /\ Classifying(c).pc = "read" /\ Classifying(c).id = c.id
      /\ Classifying(c).plan = 1 /\ Classifying(c).verdict = "open"
  BY Zenon DEF Classifying, Call, Judging
<1>2. c.id \in Execution /\ c.plan \in 1..Len(Plans[c.id]) /\ execution[c.id].state # "absent"
  BY Zenon DEF GoodCall, Call
<1>3. 1 \in 1..Len(Plans[c.id])
  BY <1>2, SelectedFacts, UpTo, Zenon
<1>4. ASSUME NEW y \in Call, y.pc = "read", y.id = c.id, y.plan = 1, y.verdict = "open"
      PROVE  GoodCall(y)
  BY <1>2, <1>3, <1>4, Zenon DEF GoodCall, Driving
<1>5. ASSUME NEW u \in BOOLEAN
      PROVE  /\ [Classifying(c) EXCEPT !.undisposed = u] \in Call
             /\ GoodCall([Classifying(c) EXCEPT !.undisposed = u])
  <2>1. PICK b : b = Classifying(c)
    OBVIOUS
  <2>2. PICK y : y = [b EXCEPT !.undisposed = u]
    BY Zenon
  <2>3. y \in Call /\ y.pc = "read" /\ y.id = c.id /\ y.plan = 1 /\ y.verdict = "open"
    BY <1>1, <2>1, <2>2 DEF Call
  <2> QED
    BY <1>4, <2>1, <2>2, <2>3, Zenon
<1> QED
  BY <1>1, <1>4, <1>5

\* A call that goes on within its plan.
LEMMA GoingOn ==
    ASSUME NEW c \in Call, GoodCall(c), c.pc \in Driving, NEW y \in Call, SameWork(c, y),
           y.pc \in Driving \ {"confirm", "load", "refresh", "start"},
           y.pc \in {"enqueue", "dispatch"} => y.step \in 1..shape[Plans[c.id][c.plan]].steps,
           y.pc = "invoking" =>
             /\ y.target \in Dispatch /\ SagaOf(y.target) = Plans[c.id][c.plan]
             /\ DirectionOf(y.target) = "forward" =>
                  y.step \in 1..shape[Plans[c.id][c.plan]].steps
    PROVE  GoodCall(y)
  BY Zenon DEF GoodCall, SameWork, Driving, Outside

\* The store moves, and a call goes to a place that was right before.
LEMMA StoreMove ==
    ASSUME EngineInv, OutboxInv', SagasKept, NoneCreated, UNCHANGED <<shape, ledger>>,
           NEW p \in Process, NEW c \in Call, proc' = [proc EXCEPT ![p] = c], GoodCall(c)
    PROVE  EngineInv' /\ SettledKept
<1>1. LedgerTypeOK' /\ UNCHANGED execution
  BY DEF EngineInv, EngineTypeOK, LedgerTypeOK, ledger
<1>2. StatesKept
  BY <1>1, Zenon DEF StatesKept
<1>3. GoodCall(c)'
  BY <1>2, CallStands
<1> QED
  BY <1>1, <1>3, StoreStep, Zenon

\* Reads of the ledger, and steps that leave it alone.
LEMMA LedgerRead ==
    ASSUME EngineInv, NEW p \in Process, NEW e \in Execution,
           UNCHANGED ledger \/ GetExecution(p, e)
    PROVE  LedgerTypeOK' /\ UNCHANGED execution
  BY DEF EngineInv, EngineTypeOK, LedgerTypeOK, ledger, GetExecution

\* The facts about a call that is inside Execute.
LEMMA CallFacts ==
    ASSUME EngineInv, NEW p \in Process
    PROVE  /\ proc[p] \in Call /\ GoodCall(proc[p]) /\ proc[p].id \in Execution
           /\ proc[p].pc \notin Outside =>
                /\ execution[proc[p].id].state # "absent"
                /\ proc[p].plan \in 1..Len(Plans[proc[p].id])
                /\ SagaOfCall(p) = Plans[proc[p].id][proc[p].plan]
                /\ SagaOfCall(p) \in Saga /\ SagaOfCall(p) \in Selected(proc[p].id)
                /\ shape[SagaOfCall(p)] \in Shape /\ shape[SagaOfCall(p)].steps \in 0..MaxSteps
<1>1. proc[p] \in Call /\ GoodCall(proc[p]) /\ proc[p].id \in Execution
  BY DEF EngineInv, EngineTypeOK, CallOK, Call
<1>2. proc[p].pc \notin Outside =>
        execution[proc[p].id].state # "absent" /\ proc[p].plan \in 1..Len(Plans[proc[p].id])
  BY <1>1, Zenon DEF GoodCall
<1>3. proc[p].pc \notin Outside =>
        /\ SagaOfCall(p) = Plans[proc[p].id][proc[p].plan]
        /\ SagaOfCall(p) \in Saga /\ SagaOfCall(p) \in Selected(proc[p].id)
  <2>1. SagaOfCall(p) = Plans[proc[p].id][proc[p].plan]
    BY Zenon DEF SagaOfCall, ExecutionOfCall
  <2>2. proc[p].pc \notin Outside => Plans[proc[p].id][proc[p].plan] \in Selected(proc[p].id)
    BY <1>1, <1>2, SelectedFacts, Zenon
  <2>3. Selected(proc[p].id) \subseteq Saga
    BY <1>1, SelectedFacts, Zenon
  <2> QED
    BY <2>1, <2>2, <2>3, Zenon
<1>4. shape \in [Saga -> Shape]
  BY DEF EngineInv, EngineTypeOK
<1>5. proc[p].pc \notin Outside =>
        shape[SagaOfCall(p)] \in Shape /\ shape[SagaOfCall(p)].steps \in 0..MaxSteps
  BY <1>3, <1>4, Zenon DEF Shape
<1> QED
  BY <1>1, <1>2, <1>3, <1>5, Zenon

\* A call ends.
LEMMA ReturnStep ==
    ASSUME EngineInv, UNCHANGED <<vars, shape, execution>>, LedgerTypeOK', NEW p \in Process,
           Return(p) \/ ReturnUndisposed(p)
    PROVE  EngineInv' /\ SettledKept
<1>1. PICK c \in {Idle, [Idle EXCEPT !.pc = "exited"]} : proc' = [proc EXCEPT ![p] = c]
  <2>1. Return(p) => proc' = [proc EXCEPT ![p] = Idle]
    BY DEF Return
  <2>2. ReturnUndisposed(p) => \/ proc' = [proc EXCEPT ![p] = Idle]
                               \/ proc' = [proc EXCEPT ![p] = [Idle EXCEPT !.pc = "exited"]]
    <3>1. [Idle EXCEPT !.pc = "idle"] = Idle
      BY DEF Idle
    <3> QED
      BY <3>1, Zenon DEF ReturnUndisposed
  <2> QED
    BY <2>1, <2>2
<1>2. c \in Call /\ GoodCall(c)
  BY OutsideCalls
<1> QED
  BY <1>1, <1>2, CallStep, Zenon

\* A workflow that failed: its call looks at the sagas.
LEMMA ClassifyStep ==
    ASSUME EngineInv, OutboxInv', SagasKept, NoneCreated, UNCHANGED <<shape, ledger>>,
           NEW p \in Process, proc[p].pc \notin Outside,
           Classify(p) \/ \E u \in BOOLEAN : Refused(p, u)
    PROVE  EngineInv' /\ SettledKept
<1>1. PICK c \in Call : c = proc[p]
  BY CallFacts, Zenon
<1>2. GoodCall(c) /\ c.pc \notin Outside
  BY <1>1, CallFacts, Zenon
<1>3. \/ proc' = [proc EXCEPT ![p] = Classifying(c)]
      \/ \E u \in BOOLEAN : proc' = [proc EXCEPT ![p] = [Classifying(c) EXCEPT !.undisposed = u]]
  BY <1>1 DEF Classify, Refused
<1>4. \E y \in Call : GoodCall(y) /\ proc' = [proc EXCEPT ![p] = y]
  BY <1>2, <1>3, ClassifyingCall
<1>5. PICK y \in Call : GoodCall(y) /\ proc' = [proc EXCEPT ![p] = y]
  BY <1>4, Zenon
<1> QED
  BY <1>5, StoreMove, Zenon

\* The same with nothing written to the store.
LEMMA ClassifyOnly ==
    ASSUME EngineInv, UNCHANGED <<vars, shape, ledger>>,
           NEW p \in Process, proc[p].pc \notin Outside,
           Classify(p) \/ \E u \in BOOLEAN : Refused(p, u)
    PROVE  EngineInv' /\ SettledKept
<1>1. OutboxInv' /\ SagasKept /\ NoneCreated
  BY NextInv, NothingMoves DEF EngineInv, vars
<1> QED
  BY <1>1, ClassifyStep

\* A failed step ends its plan.
LEMMA FailPlanStep ==
    ASSUME EngineInv, OutboxInv', SagasKept, NoneCreated, UNCHANGED <<shape, ledger>>,
           NEW p \in Process, proc[p].pc \in Driving, FailPlan(p)
    PROVE  EngineInv' /\ SettledKept
<1>1. PICK c \in Call : c = proc[p]
  BY CallFacts, Zenon
<1>2. GoodCall(c)
  BY <1>1, CallFacts, Zenon
<1>3. PICK x \in {"compensate", "failed"} :
        proc' = [proc EXCEPT ![p].pc = x, ![p].target = <<>>, ![p].attempt = 0]
  BY Zenon DEF FailPlan
<1>4. PICK y : y = [c EXCEPT !.pc = x, !.target = <<>>, !.attempt = 0]
  OBVIOUS
<1>5. y \in Call /\ SameWork(c, y) /\ y.pc = x
  BY <1>4, Zenon DEF Call, SameWork, Driving
<1>6. proc' = [proc EXCEPT ![p] = y]
  BY <1>1, <1>3, <1>4, Zenon
<1>7. GoodCall(y)
  BY <1>1, <1>2, <1>5, GoingOn, Zenon DEF Driving
<1> QED
  BY <1>5, <1>6, <1>7, StoreMove, Zenon

\* Where a call may go.
LEMMA GoStep ==
    ASSUME EngineInv, NEW p \in Process, proc[p].pc \in Driving,
           NEW x \in Driving \ {"invoking", "confirm"}, Go(p, x),
           x \in {"load", "refresh", "start"} => proc[p].step = 1,
           x \in {"enqueue", "dispatch"} => proc[p].step \in 1..shape[SagaOfCall(p)].steps
    PROVE  \E y \in Call : GoodCall(y) /\ proc' = [proc EXCEPT ![p] = y]
<1>1. PICK c \in Call : c = proc[p]
  BY CallFacts, Zenon
<1>2. GoodCall(c) /\ SagaOfCall(p) = Plans[c.id][c.plan]
  BY <1>1, CallFacts, Zenon DEF Driving, Outside
<1>3. PICK y : y = [c EXCEPT !.pc = x]
  BY Zenon
<1>4. y \in Call /\ y.pc = x /\ SameWork(c, y) /\ y.step = c.step
  BY <1>3, MovedCall
<1>5. proc' = [proc EXCEPT ![p] = y]
  BY <1>1, <1>3 DEF Go
<1>6. GoodCall(y)
  <2>1. CASE x \in {"load", "refresh", "start"}
    BY <1>1, <1>2, <1>4, <2>1, Zenon DEF GoodCall, SameWork, Driving, Outside
  <2>2. CASE x \notin {"load", "refresh", "start"}
    BY <1>1, <1>2, <1>4, <2>2, GoingOn, Zenon
  <2> QED
    BY <2>1, <2>2, Zenon
<1> QED
  BY <1>4, <1>5, <1>6, Zenon

\* Where the work on a plan begins.
LEMMA BeginFacts ==
    ASSUME NEW s, shape[s].steps \in 0..MaxSteps
    PROVE  /\ Begin(s) \in {"complete", "enqueue"}
           /\ Begin(s) = "enqueue" => 1 \in 1..shape[s].steps
<1>1. MaxSteps \in Nat
  BY OutboxAssumption
<1> QED
  BY <1>1 DEF Begin

\* Going to the first step, or to the end of a plan without steps.
LEMMA BeginStep ==
    ASSUME EngineInv, NEW p \in Process, proc[p].pc \in {"confirm", "load", "refresh", "start"},
           Go(p, Begin(SagaOfCall(p)))
    PROVE  \E y \in Call : GoodCall(y) /\ proc' = [proc EXCEPT ![p] = y]
<1>1. proc[p].pc \in Driving /\ proc[p].pc \notin Outside
  BY Zenon DEF Driving, Outside
<1>2. proc[p].step = 1
  BY CallFacts, Zenon DEF GoodCall
<1>3. PICK x : x = Begin(SagaOfCall(p))
  OBVIOUS
<1>4. /\ x \in {"complete", "enqueue"}
      /\ x = "enqueue" => proc[p].step \in 1..shape[SagaOfCall(p)].steps
  BY <1>1, <1>2, <1>3, CallFacts, BeginFacts, Zenon
<1>5. x \in Driving \ {"invoking", "confirm"} /\ x \notin {"load", "refresh", "start", "dispatch"}
  BY <1>4 DEF Driving
<1> QED
  BY <1>1, <1>3, <1>4, <1>5, GoStep

\* executeLease, loadExecution and refreshExecution.
LEMMA EntryStep ==
    ASSUME EngineInv, NEW p \in Process,
           executeLease(p) \/ loadExecution(p) \/ refreshExecution(p)
    PROVE  EngineInv' /\ SettledKept
<1>0. /\ UNCHANGED <<vars, shape>> /\ proc[p].pc \in {"confirm", "load", "refresh"}
      /\ UNCHANGED ledger \/ GetExecution(p, proc[p].id)
  BY Zenon DEF executeLease, loadExecution, refreshExecution, At, ExecutionOfCall,
         RenewExecutionLease, ledger
<1>1. proc[p].pc \in Driving /\ proc[p].pc \notin Outside
  BY <1>0 DEF Driving, Outside
<1>2. LedgerTypeOK' /\ UNCHANGED execution
  BY <1>0, CallFacts, LedgerRead, Zenon
<1>3. CASE Return(p) \/ ReturnUndisposed(p)
  BY <1>0, <1>2, <1>3, ReturnStep, Zenon
<1>4. ASSUME NEW x \in {"load", "refresh", "start"}, Go(p, x)
      PROVE  EngineInv' /\ SettledKept
  <2>1. proc[p].step = 1
    BY <1>0, CallFacts, Zenon DEF GoodCall
  <2>2. x \in Driving \ {"invoking", "confirm"} /\ x \notin {"enqueue", "dispatch"}
    BY DEF Driving
  <2>3. PICK y \in Call : GoodCall(y) /\ proc' = [proc EXCEPT ![p] = y]
    BY <1>1, <1>4, <2>1, <2>2, GoStep
  <2> QED
    BY <1>0, <1>2, <2>3, CallStep, Zenon
<1>5. CASE Go(p, Begin(SagaOfCall(p)))
  <2>1. PICK y \in Call : GoodCall(y) /\ proc' = [proc EXCEPT ![p] = y]
    BY <1>0, <1>5, BeginStep
  <2> QED
    BY <1>0, <1>2, <2>1, CallStep, Zenon
<1>6. \/ Return(p) \/ ReturnUndisposed(p) \/ Go(p, Begin(SagaOfCall(p)))
      \/ Go(p, "load") \/ Go(p, "refresh") \/ Go(p, "start")
  BY Zenon DEF executeLease, loadExecution, refreshExecution
<1> QED
  BY <1>3, <1>4, <1>5, <1>6

\* A call that blocks on a dependency goes to close the execution.
LEMMA BlockedStep ==
    ASSUME EngineInv, NEW p \in Process, blockDependency(p) \/ ResultUnusable(p)
    PROVE  EngineInv' /\ SettledKept
<1>0. /\ UNCHANGED <<vars, shape>> /\ proc[p].pc \in {"load", "dispatch"}
      /\ UNCHANGED ledger \/ GetExecution(p, proc[p].id)
      /\ proc' = [proc EXCEPT ![p].pc = "finalize", ![p].verdict = "blocked_dependency"]
  BY DEF blockDependency, ResultUnusable, At, ExecutionOfCall
<1>1. LedgerTypeOK' /\ UNCHANGED execution
  BY <1>0, CallFacts, LedgerRead
<1>2. PICK c \in Call : c = proc[p]
  BY CallFacts, Zenon
<1>3. PICK y : y = [c EXCEPT !.pc = "finalize", !.verdict = "blocked_dependency"]
  OBVIOUS
<1>4. /\ y \in Call /\ y.pc = "finalize" /\ y.verdict = "blocked_dependency"
      /\ y.id = c.id /\ y.plan = c.plan
  BY <1>3, Zenon DEF Call, Judging, Failure, Blocked
<1>5. proc' = [proc EXCEPT ![p] = y]
  BY <1>0, <1>2, <1>3, Zenon
<1>6. GoodCall(y)
  <2>1. execution[c.id].state # "absent" /\ c.plan \in 1..Len(Plans[c.id])
    BY <1>0, <1>2, CallFacts DEF Outside
  <2> QED
    BY <1>4, <2>1, Zenon DEF GoodCall, Driving, Failure, Blocked
<1> QED
  BY <1>0, <1>1, <1>4, <1>5, <1>6, CallStep, Zenon

\* EnqueueCheckedStep.
LEMMA EnqueueCheckedStepKept ==
    ASSUME EngineInv, NEW p \in Process, EnqueueCheckedStep(p)
    PROVE  EngineInv' /\ SettledKept
<1> DEFINE s == SagaOfCall(p)
           n == proc[p].step
<1>0. UNCHANGED <<ledger, shape>> /\ proc[p].pc = "enqueue"
  BY Zenon DEF EnqueueCheckedStep, At
<1>1. proc[p].pc \in Driving /\ proc[p].pc \notin Outside
  BY <1>0 DEF Driving, Outside
<1>2. s \in Saga /\ n \in 1..shape[s].steps /\ shape[s] \in Shape /\ shape[s].steps \in 0..MaxSteps
  BY <1>0, <1>1, CallFacts, Zenon DEF GoodCall
<1>3. n \in Sequence /\ shape[s].inverse \in BOOLEAN
  <2>1. n \in Sequence
    BY <1>2, StepsInSequence, Zenon
  <2>2. shape[s].inverse \in BOOLEAN
    BY <1>2, Zenon DEF Shape
  <2> QED
    BY <2>1, <2>2, Zenon
<1>4. CASE Go(p, "dispatch")
  <2>1. PICK y \in Call : GoodCall(y) /\ proc' = [proc EXCEPT ![p] = y]
    BY <1>1, <1>2, <1>4, GoStep, Zenon DEF Driving
  <2>2. UNCHANGED vars \/ EnqueueStep(s, n, shape[s].inverse)
    BY Zenon DEF EnqueueCheckedStep
  <2>3. OutboxInv' /\ SagasKept /\ NoneCreated
    <3>1. CASE UNCHANGED vars
      BY <3>1, NextInv, NothingMoves DEF EngineInv, vars
    <3>2. CASE EnqueueStep(s, n, shape[s].inverse)
      BY <1>2, <1>3, <3>2, ForwardKept, Zenon DEF EngineInv
    <3> QED
      BY <2>2, <3>1, <3>2
  <2> QED
    BY <1>0, <2>1, <2>3, StoreMove, Zenon
<1>5. CASE Classify(p) /\ UNCHANGED vars
  BY <1>0, <1>1, <1>5, ClassifyOnly, Zenon
<1> QED
  BY <1>4, <1>5, Zenon DEF EnqueueCheckedStep

\* StepSucceeded.
LEMMA StepSucceededKept ==
    ASSUME EngineInv, NEW p \in Process, StepSucceeded(p)
    PROVE  EngineInv' /\ SettledKept
<1>0. UNCHANGED <<vars, ledger, shape>> /\ proc[p].pc = "dispatch"
  BY DEF StepSucceeded, At
<1>1. proc[p].pc \in Driving /\ proc[p].pc \notin Outside
  BY <1>0, Zenon DEF Driving, Outside
<1>2. LedgerTypeOK' /\ UNCHANGED execution
  BY <1>0, CallFacts, LedgerRead, Zenon
<1>3. CASE Go(p, "complete")
  <2>1. PICK y \in Call : GoodCall(y) /\ proc' = [proc EXCEPT ![p] = y]
    BY <1>1, <1>3, GoStep DEF Driving
  <2> QED
    BY <1>0, <1>2, <2>1, CallStep, Zenon
<1>4. CASE /\ proc[p].step < shape[SagaOfCall(p)].steps
           /\ proc' = [proc EXCEPT ![p].pc = "enqueue", ![p].step = @ + 1]
  <2>1. PICK c \in Call : c = proc[p]
    BY CallFacts, Zenon
  <2>2. /\ GoodCall(c) /\ SagaOfCall(p) = Plans[c.id][c.plan] /\ shape[SagaOfCall(p)].steps \in 0..MaxSteps
        /\ c.step \in 1..shape[SagaOfCall(p)].steps
    BY <1>0, <1>1, <2>1, CallFacts, Zenon DEF GoodCall
  <2>4. c.step + 1 \in 1..shape[SagaOfCall(p)].steps /\ c.step + 1 \in Nat
    <3>1. PICK m \in Nat : m = shape[SagaOfCall(p)].steps
      BY <2>2, StepsInSequence, Zenon
    <3>2. proc[p].step < m
      BY <1>4, <3>1, Zenon
    <3>3. c.step \in 1..m /\ c.step < m
      BY <2>1, <2>2, <3>1, <3>2, Zenon
    <3> QED
      BY <3>1, <3>3, UpTo, Zenon
  <2>5. PICK y : y = [c EXCEPT !.pc = "enqueue", !.step = c.step + 1]
    OBVIOUS
  <2>6. y \in Call /\ SameWork(c, y) /\ y.pc = "enqueue" /\ y.step = c.step + 1
    BY <2>4, <2>5, Zenon DEF Call, SameWork, Driving
  <2>7. proc' = [proc EXCEPT ![p] = y]
    BY <1>4, <2>1, <2>5, Zenon
  <2>8. GoodCall(y)
    BY <1>1, <2>1, <2>2, <2>4, <2>6, GoingOn, Zenon DEF Driving
  <2> QED
    BY <1>0, <1>2, <2>6, <2>7, <2>8, CallStep, Zenon
<1> QED
  BY <1>3, <1>4 DEF StepSucceeded

\* StepFailed, PlanFailed and driveCheckedCompensation.
LEMMA PlanFailedKept ==
    ASSUME EngineInv, NEW p \in Process,
           StepFailed(p) \/ PlanFailed(p) \/ driveCheckedCompensation(p)
    PROVE  EngineInv' /\ SettledKept
<1>0. /\ UNCHANGED <<vars, ledger, shape>> /\ proc[p].pc \in {"dispatch", "failed", "compensate"}
      /\ FailPlan(p) \/ Classify(p) \/ Go(p, "block") \/ Go(p, "failfast")
  BY Zenon DEF StepFailed, PlanFailed, driveCheckedCompensation, At
<1>1. proc[p].pc \in Driving /\ proc[p].pc \notin Outside
  BY <1>0 DEF Driving, Outside
<1>2. LedgerTypeOK' /\ UNCHANGED execution
  BY <1>0, CallFacts, LedgerRead, Zenon
<1>3. OutboxInv' /\ SagasKept /\ NoneCreated
  BY <1>0, NextInv, NothingMoves, Zenon DEF EngineInv, vars
<1>4. ASSUME NEW x \in {"block", "failfast"}, Go(p, x)
      PROVE  EngineInv' /\ SettledKept
  <2>1. PICK y \in Call : GoodCall(y) /\ proc' = [proc EXCEPT ![p] = y]
    BY <1>1, <1>4, GoStep, Zenon DEF Driving
  <2> QED
    BY <1>0, <1>2, <2>1, CallStep, Zenon
<1>5. CASE FailPlan(p)
  BY <1>0, <1>1, <1>3, <1>5, FailPlanStep, Zenon
<1>6. CASE Classify(p)
  BY <1>0, <1>1, <1>6, ClassifyOnly, Zenon
<1> QED
  BY <1>0, <1>4, <1>5, <1>6, Zenon

\* Claim.
LEMMA ClaimKept ==
    ASSUME EngineInv, NEW p \in Process, Claim(p)
    PROVE  EngineInv' /\ SettledKept
<1>1. PICK d \in Target(p) :
        /\ ClaimDispatch(d)
        /\ proc' = [proc EXCEPT ![p].pc = "invoking", ![p].target = d,
                                ![p].attempt = Len(attempts[d]) + 1]
  BY Zenon DEF Claim
<1>2. UNCHANGED <<ledger, shape>>
  BY DEF Claim
<1>3. proc[p].pc \in {"dispatch", "compensate"}
  BY Zenon DEF Target, At
<1>4. proc[p].pc \in Driving /\ proc[p].pc \notin Outside
  BY <1>3 DEF Driving, Outside
<1>5. PICK c \in Call : c = proc[p]
  BY CallFacts, Zenon
<1>6. /\ GoodCall(c) /\ SagaOfCall(p) = Plans[c.id][c.plan] /\ SagaOfCall(p) \in Saga
      /\ shape[SagaOfCall(p)].steps \in 0..MaxSteps
  BY <1>4, <1>5, CallFacts, Zenon
<1>7. /\ d \in Dispatch /\ SagaOf(d) = SagaOfCall(p)
      /\ DirectionOf(d) = "forward" => c.step \in 1..shape[SagaOfCall(p)].steps
  <2>1. CASE proc[p].pc = "dispatch"
    <3>1. d = Forward(SagaOfCall(p), proc[p].step)
      BY <2>1, Zenon DEF Target, At, StepOfCall
    <3>2. c.step \in 1..shape[SagaOfCall(p)].steps
      BY <1>5, <1>6, <2>1, Zenon DEF GoodCall
    <3>3. c.step \in Sequence
      BY <1>6, <3>2, StepsInSequence, Zenon
    <3> QED
      BY <1>5, <1>6, <3>1, <3>2, <3>3, DispatchIds, Zenon
  <2>2. CASE proc[p].pc = "compensate"
    <3>1. d \in CompensationOfCall(p)
      BY <2>2, Zenon DEF Target, At
    <3> QED
      BY <3>1 DEF CompensationOfCall
  <2> QED
    BY <1>3, <2>1, <2>2, Zenon
<1>8. OutboxInv' /\ SagasKept /\ NoneCreated
  BY <1>1, <1>7, ForwardKept DEF EngineInv
<1>9. PICK a : a = Len(attempts[d]) + 1
  OBVIOUS
<1>10. a \in Nat
  <2>1. attempts[d] \in Seq(AttemptOutcome)
    BY <1>7, Zenon DEF EngineInv, OutboxInv, TypeOK
  <2> QED
    BY <1>9, <2>1
<1>11. PICK y : y = [c EXCEPT !.pc = "invoking", !.target = d, !.attempt = a]
  OBVIOUS
<1>12. /\ y \in Call /\ SameWork(c, y) /\ y.pc = "invoking" /\ y.target = d /\ y.step = c.step
  BY <1>7, <1>10, <1>11, Zenon DEF Call, SameWork, Driving
<1>13. proc' = [proc EXCEPT ![p] = y]
  BY <1>1, <1>5, <1>9, <1>11, Zenon
<1>14. GoodCall(y)
  BY <1>4, <1>5, <1>6, <1>7, <1>12, GoingOn, Zenon DEF Driving
<1> QED
  BY <1>2, <1>8, <1>12, <1>13, <1>14, StoreMove, Zenon

\* Back to the loop that dispatched.
LEMMA ResumeStep ==
    ASSUME EngineInv, OutboxInv', SagasKept, NoneCreated, UNCHANGED <<shape, ledger>>,
           NEW p \in Process, proc[p].pc = "invoking", Resume(p)
    PROVE  EngineInv' /\ SettledKept
<1>1. PICK c \in Call : c = proc[p]
  BY CallFacts, Zenon
<1>2. GoodCall(c) /\ c.pc \in Driving
  BY <1>1, CallFacts, Zenon DEF Driving
<1>3. DirectionOf(c.target) = "forward" => c.step \in 1..shape[Plans[c.id][c.plan]].steps
  BY <1>1, <1>2, Zenon DEF GoodCall
<1>4. PICK x \in {"dispatch", "compensate"} :
        /\ x = IF DirectionOf(c.target) = "forward" THEN "dispatch" ELSE "compensate"
        /\ proc' = [proc EXCEPT ![p].pc = x, ![p].target = <<>>, ![p].attempt = 0]
  BY <1>1, Zenon DEF Resume
<1>5. PICK y : y = [c EXCEPT !.pc = x, !.target = <<>>, !.attempt = 0]
  OBVIOUS
<1>6. y \in Call /\ SameWork(c, y) /\ y.pc = x /\ y.step = c.step
  BY <1>5, Zenon DEF Call, SameWork, Driving
<1>7. proc' = [proc EXCEPT ![p] = y]
  BY <1>1, <1>4, <1>5, Zenon
<1>8. x = "dispatch" => c.step \in 1..shape[Plans[c.id][c.plan]].steps
  BY <1>3, <1>4, Zenon
<1>9. GoodCall(y)
  BY <1>2, <1>6, <1>8, GoingOn, Zenon DEF Driving
<1> QED
  BY <1>6, <1>7, <1>9, StoreMove, Zenon

\* Invoke, FenceRefused, completeExhaustedClaim and StaleLease.
LEMMA CompletionStep ==
    ASSUME EngineInv, NEW p \in Process,
           \/ \E o \in Outcome : Invoke(p, o)
           \/ FenceRefused(p) \/ completeExhaustedClaim(p) \/ StaleLease(p)
    PROVE  EngineInv' /\ SettledKept
<1>0. UNCHANGED <<ledger, shape>> /\ proc[p].pc = "invoking"
  BY Zenon DEF Invoke, FenceRefused, completeExhaustedClaim, StaleLease, At
<1>1. proc[p].pc \in Driving /\ proc[p].pc \notin Outside /\ proc[p].target \in Dispatch
  BY <1>0, CallFacts, Zenon DEF Driving, Outside, GoodCall
<1>2. PICK d \in Dispatch : d = proc[p].target
  BY <1>1
<1>3. PICK a : a = proc[p].attempt
  OBVIOUS
<1>4. \/ UNCHANGED vars
      \/ \E o \in Outcome, x \in BOOLEAN : CompleteDispatch(d, a, o, x)
  <2>1. ASSUME NEW o \in Outcome, Invoke(p, o)
        PROVE  \E x \in BOOLEAN : CompleteDispatch(d, a, o, x)
    <3>1. Exhausted(a, o) \subseteq BOOLEAN
      BY Zenon DEF Exhausted
    <3>2. \E x \in Exhausted(a, o) : CompleteDispatch(d, a, o, x)
      BY <1>2, <1>3, <2>1, Zenon DEF Invoke
    <3> QED
      BY <3>1, <3>2
  <2>2. ASSUME FenceRefused(p)
        PROVE  \E x \in BOOLEAN : CompleteDispatch(d, a, "retryable", x)
    <3>1. CompleteDispatch(d, a, "retryable", a >= MaxAttempts)
      BY <1>2, <1>3, <2>2, Zenon DEF FenceRefused
    <3>2. (a >= MaxAttempts) \in BOOLEAN
      OBVIOUS
    <3> QED
      BY <3>1, <3>2, Zenon
  <2>3. ASSUME completeExhaustedClaim(p)
        PROVE  \E o \in {"retryable", "unknown"} : CompleteDispatch(d, a, o, TRUE)
    BY <1>2, <1>3, <2>3, Zenon DEF completeExhaustedClaim
  <2>4. StaleLease(p) => UNCHANGED vars
    BY DEF StaleLease
  <2>5. "retryable" \in Outcome /\ "unknown" \in Outcome
    BY DEF Outcome
  <2> QED
    BY <2>1, <2>2, <2>3, <2>4, <2>5, Zenon
<1>5. OutboxInv' /\ SagasKept /\ NoneCreated
  <2>1. CASE UNCHANGED vars
    BY <2>1, NextInv, NothingMoves DEF EngineInv, vars
  <2>2. CASE \E o \in Outcome, x \in BOOLEAN : CompleteDispatch(d, a, o, x)
    BY <2>2, CompletionKept DEF EngineInv
  <2> QED
    BY <1>4, <2>1, <2>2
<1>6. Resume(p) \/ FailPlan(p) \/ Classify(p)
  BY Zenon DEF Invoke, FenceRefused, completeExhaustedClaim, StaleLease, Fail
<1>7. CASE Resume(p)
  BY <1>0, <1>5, <1>7, ResumeStep, Zenon
<1>8. CASE FailPlan(p)
  BY <1>0, <1>1, <1>5, <1>8, FailPlanStep, Zenon
<1>9. CASE Classify(p)
  BY <1>0, <1>1, <1>5, <1>9, ClassifyStep, Zenon
<1> QED
  BY <1>6, <1>7, <1>8, <1>9

\* StopCompensation and FinishFailFast.
LEMMA StopStep ==
    ASSUME EngineInv, NEW p \in Process, StopCompensation(p) \/ FinishFailFast(p)
    PROVE  EngineInv' /\ SettledKept
<1>0. UNCHANGED <<ledger, shape>> /\ proc[p].pc \in {"block", "failfast"}
  BY Zenon DEF StopCompensation, FinishFailFast, At
<1>1. proc[p].pc \notin Outside
  BY <1>0 DEF Outside
<1>2. SagaOfCall(p) \in Saga
  BY <1>1, CallFacts, Zenon
<1>3. Classify(p) \/ \E u \in BOOLEAN : Refused(p, u)
  BY Zenon DEF StopCompensation, FinishFailFast
<1>4. \/ UNCHANGED vars \/ BlockSagaCompensation(SagaOfCall(p)) \/ FinalizeFailFastSaga(SagaOfCall(p))
  BY Zenon DEF StopCompensation, FinishFailFast
<1>5. OutboxInv' /\ SagasKept /\ NoneCreated
  <2>1. CASE UNCHANGED vars
    BY <2>1, NextInv, NothingMoves DEF EngineInv, vars
  <2>2. PICK s \in Saga : s = SagaOfCall(p)
    BY <1>2
  <2>3. CASE BlockSagaCompensation(s) \/ FinalizeFailFastSaga(s)
    BY <2>3, StopKept DEF EngineInv
  <2> QED
    BY <1>4, <2>1, <2>2, <2>3
<1> QED
  BY <1>0, <1>1, <1>3, <1>5, ClassifyStep, Zenon

\* On to the next plan, or to the end of the workflow.
LEMMA NextPlanStep ==
    ASSUME EngineInv, OutboxInv', SagasKept, NoneCreated, UNCHANGED <<shape, ledger>>,
           NEW p \in Process, proc[p].pc = "complete", saga'[SagaOfCall(p)] = "completed",
           NextPlan(p)
    PROVE  EngineInv' /\ SettledKept
<1>0. LedgerTypeOK' /\ UNCHANGED execution
  BY DEF EngineInv, EngineTypeOK, LedgerTypeOK, ledger
<1>1. PICK c \in Call : c = proc[p]
  BY CallFacts, Zenon
<1> DEFINE plans == Plans[c.id]
<1>2. plans = Plans[c.id]
  OBVIOUS
<1>3. /\ GoodCall(c) /\ c.pc = "complete" /\ c.id \in Execution /\ c.plan \in 1..Len(plans)
      /\ execution[c.id].state # "absent" /\ SagaOfCall(p) = plans[c.plan]
  BY <1>1, CallFacts, Zenon DEF Outside
<1>4. /\ Len(plans) \in Nat /\ Selected(c.id) = {plans[i] : i \in 1..Len(plans)}
      /\ \A i \in 1..Len(plans) : plans[i] \in Saga
  BY <1>3, SelectedFacts, Zenon
<1> HIDE DEF plans
<1>5. \A j \in 1..Len(plans) : j <= c.plan => saga'[plans[j]] = "completed"
  <2>1. \A j \in 1..Len(plans) : j < c.plan => saga[plans[j]] = "completed"
    BY <1>2, <1>3, Zenon DEF GoodCall, Driving
  <2>2. \A j \in 1..Len(plans) : j < c.plan => saga'[plans[j]] = "completed"
    BY <1>4, <2>1, Zenon DEF SagasKept
  <2> QED
    BY <1>3, <1>4, <2>2, UpTo, Zenon
<1>6. CASE c.plan < Len(plans)
  <2>1. PICK x : x = Begin(plans[c.plan + 1])
    OBVIOUS
  <2>2. proc' = [proc EXCEPT ![p].pc = x, ![p].plan = @ + 1, ![p].step = 1]
    BY <1>1, <1>2, <1>6, <2>1, Zenon DEF NextPlan, ExecutionOfCall
  <2>3. c.plan + 1 \in 1..Len(plans) /\ c.plan + 1 \in Nat
    BY <1>3, <1>4, <1>6, UpTo, Zenon
  <2>4. shape[plans[c.plan + 1]].steps \in 0..MaxSteps
    <3>1. shape \in [Saga -> Shape] /\ plans[c.plan + 1] \in Saga
      BY <1>4, <2>3, Zenon DEF EngineInv, EngineTypeOK
    <3> QED
      BY <3>1, Zenon DEF Shape
  <2>5. /\ x \in {"complete", "enqueue"}
        /\ x = "enqueue" => 1 \in 1..shape'[plans[c.plan + 1]].steps
    BY <2>1, <2>4, BeginFacts, Zenon
  <2>6. PICK y : y = [c EXCEPT !.pc = x, !.plan = c.plan + 1, !.step = 1]
    OBVIOUS
  <2>7. /\ y \in Call /\ y.pc = x /\ y.id = c.id /\ y.plan = c.plan + 1 /\ y.step = 1
        /\ y.verdict = c.verdict
    BY <2>3, <2>5, <2>6, Zenon DEF Call, Driving
  <2>8. proc' = [proc EXCEPT ![p] = y]
    BY <1>1, <2>2, <2>6, Zenon
  <2>9. c.verdict # "completed"
    BY <1>3, Zenon DEF GoodCall
  <2>10. \A j \in 1..Len(plans) : j < c.plan + 1 => saga'[plans[j]] = "completed"
    BY <1>3, <1>4, <1>5, UpTo, Zenon
  <2>11. GoodCall(y)'
    BY <1>0, <1>2, <1>3, <2>3, <2>5, <2>7, <2>9, <2>10, Zenon DEF GoodCall, Driving, Outside
  <2> QED
    BY <1>0, <2>7, <2>8, <2>11, StoreStep, Zenon
<1>7. CASE ~(c.plan < Len(plans))
  <2>1. proc' = [proc EXCEPT ![p].pc = "persist", ![p].verdict = "completed"]
    BY <1>1, <1>2, <1>7 DEF NextPlan, ExecutionOfCall
  <2>2. PICK y : y = [c EXCEPT !.pc = "persist", !.verdict = "completed"]
    OBVIOUS
  <2>3. /\ y \in Call /\ y.pc = "persist" /\ y.verdict = "completed"
        /\ y.id = c.id /\ y.plan = c.plan
    BY <2>2, Zenon DEF Call, Judging
  <2>4. proc' = [proc EXCEPT ![p] = y]
    BY <1>1, <2>1, <2>2, Zenon
  <2>5. \A j \in 1..Len(plans) : saga'[plans[j]] = "completed"
    BY <1>3, <1>4, <1>5, <1>7, UpTo, Zenon
  <2>6. \A s \in Selected(c.id) : saga'[s] = "completed"
    BY <1>4, <2>5, Zenon
  <2>7. Selected(c.id)' = Selected(c.id)
    BY Zenon DEF Selected
  <2>8. "completed" \notin Failure
    BY DEF Failure, Blocked
  <2>9. GoodCall(y)'
    BY <1>0, <1>2, <1>3, <2>3, <2>6, <2>7, <2>8, Zenon DEF GoodCall, Driving
  <2> QED
    BY <1>0, <2>3, <2>4, <2>9, StoreStep, Zenon
<1> QED
  BY <1>6, <1>7

\* CompletePlan.
LEMMA CompletePlanKept ==
    ASSUME EngineInv, NEW p \in Process, CompletePlan(p)
    PROVE  EngineInv' /\ SettledKept
<1>0. UNCHANGED <<ledger, shape>> /\ proc[p].pc = "complete"
  BY Zenon DEF CompletePlan, At
<1>1. proc[p].pc \notin Outside
  BY <1>0 DEF Outside
<1>2. PICK s \in Saga : s = SagaOfCall(p)
  BY <1>1, CallFacts, Zenon
<1>3. CASE CompleteSaga(s) /\ NextPlan(p)
  <2>1. OutboxInv' /\ SagasKept /\ NoneCreated
    BY <1>3, ForwardKept DEF EngineInv
  <2>2. saga'[s] = "completed"
    BY <1>3, Zenon DEF CompleteSaga, EngineInv, OutboxInv, TypeOK
  <2> QED
    BY <1>0, <1>2, <1>3, <2>1, <2>2, NextPlanStep, Zenon
<1>4. CASE saga[s] = "completed" /\ NextPlan(p) /\ UNCHANGED vars
  <2>1. OutboxInv' /\ SagasKept /\ NoneCreated
    BY <1>4, NextInv, NothingMoves DEF EngineInv, vars
  <2>2. saga'[s] = "completed"
    BY <1>4 DEF vars
  <2> QED
    BY <1>0, <1>2, <1>4, <2>1, <2>2, NextPlanStep, Zenon
<1>5. CASE Classify(p) /\ UNCHANGED vars
  BY <1>0, <1>1, <1>5, ClassifyOnly, Zenon
<1> QED
  BY <1>2, <1>3, <1>4, <1>5 DEF CompletePlan

\* What a saga says about its execution, and the worse of two verdicts.
LEMMA VerdictFacts ==
    ASSUME NEW v \in {"open"} \cup Failure, NEW s \in Saga
    PROVE  /\ FailureState(s) \in {"open"} \cup Failure
           /\ Worse(v, FailureState(s)) \in {"open"} \cup Failure
           /\ v \in Failure => Worse(v, FailureState(s)) \in Failure
           /\ Covers(Worse(v, FailureState(s)), s)
           /\ \A t \in Saga : Covers(v, t) => Covers(Worse(v, FailureState(s)), t)
<1>1. FailureState(s) \in {"open"} \cup Failure
  BY DEF FailureState, Failure, Blocked
<1>2. PICK f : f = FailureState(s)
  OBVIOUS
<1>3. PICK w : w = Worse(v, f)
  OBVIOUS
<1>4. /\ w \in {v, f} /\ failureStateRank(w) >= failureStateRank(f)
      /\ failureStateRank(w) >= failureStateRank(v)
  BY <1>3, RankIsNat DEF Worse
<1>5. failureStateRank("open") = 0 /\ \A x \in Failure : failureStateRank(x) > 0
  BY DEF failureStateRank, Failure, Blocked
<1>6. v \in Failure => w \in Failure
  <2>1. "open" \notin Failure
    BY DEF Failure, Blocked
  <2> QED
    BY <1>1, <1>2, <1>4, <1>5, <2>1, RankIsNat
<1>7. Covers(w, s)
  BY <1>2, <1>4, RankIsNat DEF Covers
<1>8. ASSUME NEW t \in Saga, Covers(v, t)
      PROVE  Covers(w, t)
  BY <1>4, <1>8, RankIsNat DEF Covers
<1> QED
  BY <1>1, <1>2, <1>3, <1>4, <1>6, <1>7, <1>8

\* ReadSaga.
LEMMA ReadSagaKept ==
    ASSUME EngineInv, NEW p \in Process, ReadSaga(p)
    PROVE  EngineInv' /\ SettledKept
<1>0. UNCHANGED <<vars, ledger, shape>> /\ proc[p].pc \in {"read", "observe"}
  BY DEF ReadSaga, At
<1>1. LedgerTypeOK' /\ UNCHANGED execution
  BY <1>0, CallFacts, LedgerRead, Zenon
<1>2. PICK c \in Call : c = proc[p]
  BY CallFacts, Zenon
<1> DEFINE plans == Plans[c.id]
<1>3. plans = Plans[c.id]
  OBVIOUS
<1>4. PICK s \in Saga : s = SagaOfCall(p)
  BY <1>0, CallFacts, Zenon DEF Outside
<1>5. /\ GoodCall(c) /\ c.pc \in {"read", "observe"} /\ c.id \in Execution
      /\ c.plan \in 1..Len(plans) /\ execution[c.id].state # "absent" /\ s = plans[c.plan]
  <2>1. proc[p].pc \notin Outside
    BY <1>0, Zenon DEF Outside
  <2>2. /\ GoodCall(proc[p]) /\ proc[p].id \in Execution /\ execution[proc[p].id].state # "absent"
        /\ proc[p].plan \in 1..Len(Plans[proc[p].id])
        /\ SagaOfCall(p) = Plans[proc[p].id][proc[p].plan]
    BY <2>1, CallFacts, Zenon
  <2> QED
    BY <1>0, <1>2, <1>4, <2>2, Zenon
<1>6. /\ Len(plans) \in Nat /\ Selected(c.id) = {plans[i] : i \in 1..Len(plans)}
      /\ \A i \in 1..Len(plans) : plans[i] \in Saga
  <2>1. c.id \in Execution
    BY <1>5, Zenon
  <2> QED
    BY <2>1, SelectedFacts, Zenon
<1> HIDE DEF plans
<1>7. c.verdict \in {"open"} \cup Failure /\ (c.pc = "observe" => c.verdict \in Failure)
  BY <1>5, Zenon DEF GoodCall, Call
<1>8. PICK v : v = Worse(c.verdict, FailureState(s))
  OBVIOUS
<1>9. /\ v \in {"open"} \cup Failure /\ (c.pc = "observe" => v \in Failure) /\ Covers(v, s)
      /\ \A t \in Saga : Covers(c.verdict, t) => Covers(v, t)
  BY <1>7, <1>8, VerdictFacts, Zenon
<1>10. "open" \notin Failure /\ "completed" \notin Failure
  BY DEF Failure, Blocked
<1>11. c.pc = "observe" => /\ \A t \in Selected(c.id) : QuietSaga(t)
                           /\ \A j \in 1..Len(plans) : j <= c.plan => Covers(v, plans[j])
  <2>1. c.pc = "observe" => /\ \A t \in Selected(c.id) : QuietSaga(t)
                            /\ \A j \in 1..Len(plans) : j < c.plan => Covers(c.verdict, plans[j])
    BY <1>3, <1>5, Zenon DEF GoodCall
  <2> QED
    BY <1>5, <1>6, <1>9, <2>1, UpTo, Zenon
<1>12. CASE c.plan = Len(plans)
  <2>1. PICK x : x = IF c.pc = "observe" \/ v = "open" THEN "persist" ELSE "finalize"
    OBVIOUS
  <2>2. proc' = [proc EXCEPT ![p].verdict = v, ![p].pc = x, ![p].plan = 1]
    BY <1>2, <1>3, <1>4, <1>8, <1>12, <2>1 DEF ReadSaga, ExecutionOfCall, At
  <2>3. PICK y : y = [c EXCEPT !.verdict = v, !.pc = x, !.plan = 1]
    OBVIOUS
  <2>4. y \in Call /\ y.pc = x /\ y.id = c.id /\ y.plan = 1 /\ y.verdict = v
    BY <1>9, <2>1, <2>3, Zenon DEF Call, Judging
  <2>5. proc' = [proc EXCEPT ![p] = y]
    BY <1>2, <2>2, <2>3, Zenon
  <2>6. 1 \in 1..Len(plans)
    BY <1>5, <1>6, UpTo, Zenon
  <2>7. x = "persist" /\ v \in Failure => \A t \in Selected(c.id) : QuietSaga(t) /\ Covers(v, t)
    <3>1. x = "persist" /\ v \in Failure => c.pc = "observe"
      BY <1>10, <2>1
    <3>2. c.pc = "observe" => \A j \in 1..Len(plans) : Covers(v, plans[j])
      BY <1>5, <1>6, <1>11, <1>12, UpTo, Zenon
    <3> QED
      BY <1>6, <1>11, <3>1, <3>2, Zenon
  <2>8. x = "finalize" => v \in Failure
    BY <1>9, <2>1
  <2>9. x \in {"persist", "finalize"}
    BY <2>1
  <2>10. GoodCall(y)
    BY <1>3, <1>5, <1>9, <1>10, <2>4, <2>6, <2>7, <2>8, <2>9, Zenon DEF GoodCall, Driving
  <2> QED
    BY <1>0, <1>1, <2>4, <2>5, <2>10, CallStep, Zenon
<1>13. CASE c.plan # Len(plans)
  <2>1. proc' = [proc EXCEPT ![p].verdict = v, ![p].pc = c.pc, ![p].plan = c.plan + 1]
    BY <1>2, <1>3, <1>4, <1>8, <1>13 DEF ReadSaga, ExecutionOfCall
  <2>2. c.plan + 1 \in 1..Len(plans) /\ c.plan + 1 \in Nat
    BY <1>5, <1>6, <1>13, UpTo, Zenon
  <2>3. PICK y : y = [c EXCEPT !.verdict = v, !.pc = c.pc, !.plan = c.plan + 1]
    OBVIOUS
  <2>4. y \in Call /\ y.pc = c.pc /\ y.id = c.id /\ y.plan = c.plan + 1 /\ y.verdict = v
    BY <1>9, <2>2, <2>3, Zenon DEF Call
  <2>5. proc' = [proc EXCEPT ![p] = y]
    BY <1>2, <2>1, <2>3, Zenon
  <2>6. c.pc = "observe" => \A j \in 1..Len(plans) : j < c.plan + 1 => Covers(v, plans[j])
    BY <1>5, <1>6, <1>11, UpTo, Zenon
  <2>7. GoodCall(y)
    BY <1>3, <1>5, <1>9, <1>10, <1>11, <2>2, <2>4, <2>6, Zenon DEF GoodCall, Driving
  <2> QED
    BY <1>0, <1>1, <2>4, <2>5, <2>7, CallStep, Zenon
<1> QED
  BY <1>12, <1>13

\* A call that gives up its verdict goes to write the record as it is.
LEMMA OpenVerdict ==
    ASSUME EngineInv, NEW p \in Process, proc[p].pc \notin Outside,
           proc' = [proc EXCEPT ![p].pc = "persist", ![p].verdict = "open",
                                ![p].plan = 1, ![p].step = 1]
    PROVE  \E y \in Call : GoodCall(y) /\ proc' = [proc EXCEPT ![p] = y]
<1>1. PICK c \in Call : c = proc[p]
  BY CallFacts
<1>2. /\ c.id \in Execution /\ c.plan \in 1..Len(Plans[c.id]) /\ execution[c.id].state # "absent"
  BY <1>1, CallFacts
<1>3. 1 \in 1..Len(Plans[c.id])
  BY <1>2, SelectedFacts, UpTo, Zenon
<1>4. PICK y : y = [c EXCEPT !.pc = "persist", !.verdict = "open", !.plan = 1, !.step = 1]
  OBVIOUS
<1>5. y \in Call /\ y.pc = "persist" /\ y.id = c.id /\ y.plan = 1 /\ y.verdict = "open"
  BY <1>4, Zenon DEF Call, Judging
<1>6. proc' = [proc EXCEPT ![p] = y]
  BY <1>1, <1>4, Zenon
<1>7. GoodCall(y)
  BY <1>2, <1>3, <1>5 DEF GoodCall, Driving, Failure, Blocked
<1> QED
  BY <1>5, <1>6, <1>7, Zenon

\* finalizeStoppedExecution.
LEMMA FinalizeStep ==
    ASSUME EngineInv, NEW p \in Process, finalizeStoppedExecution(p)
    PROVE  EngineInv' /\ SettledKept
<1>0. UNCHANGED <<ledger, shape>> /\ proc[p].pc = "finalize"
  BY DEF finalizeStoppedExecution, At
<1>1. LedgerTypeOK' /\ UNCHANGED execution
  BY <1>0, CallFacts, LedgerRead, Zenon
<1>2. CASE /\ proc' = [proc EXCEPT ![p].pc = "persist", ![p].verdict = "open",
                                   ![p].plan = 1, ![p].step = 1]
           /\ UNCHANGED vars
  <2>1. PICK y \in Call : GoodCall(y) /\ proc' = [proc EXCEPT ![p] = y]
    BY <1>0, <1>2, OpenVerdict, Zenon DEF Outside
  <2> QED
    BY <1>0, <1>1, <1>2, <2>1, CallStep, Zenon
<1>3. CASE /\ FinalizeStoppedExecution(ExecutionOfCall(p))
           /\ proc' = [proc EXCEPT ![p].pc = "observe", ![p].plan = 1, ![p].step = 1]
  <2>1. PICK c \in Call : c = proc[p]
    BY CallFacts, Zenon
  <2>2. PICK e \in Execution : e = c.id
    BY DEF Call
  <2>3. /\ GoodCall(c) /\ c.pc = "finalize" /\ c.plan \in 1..Len(Plans[e]) /\ execution[e].state # "absent"
        /\ FinalizeStoppedExecution(e) /\ c.verdict \in Failure
    BY <1>0, <1>3, <2>1, <2>2, CallFacts, Zenon DEF Outside, GoodCall, ExecutionOfCall
  <2>4. /\ OutboxInv' /\ SagasKept /\ NoneCreated
        /\ \A s \in Saga : ExecutionOf[s] = e /\ saga[s] # "absent" => QuietSaga(s)'
    BY <2>3, FinalizeKept, Zenon DEF EngineInv
  <2>5. \A s \in Selected(e) : saga[s] # "absent"
    BY <2>3, Zenon DEF EngineInv, ExecutionOK
  <2>6. \A s \in Selected(e) : QuietSaga(s)'
    BY <2>4, <2>5, SelectedFacts, Zenon
  <2>7. PICK y : y = [c EXCEPT !.pc = "observe", !.plan = 1, !.step = 1]
    OBVIOUS
  <2>8. y \in Call /\ y.pc = "observe" /\ y.id = c.id /\ y.plan = 1 /\ y.verdict = c.verdict
    BY <2>7, Zenon DEF Call, Judging
  <2>9. proc' = [proc EXCEPT ![p] = y]
    BY <1>3, <2>1, <2>7, Zenon
  <2>10. 1 \in 1..Len(Plans[e])
    BY <2>3, SelectedFacts, UpTo, Zenon
  <2>11. Selected(e)' = Selected(e) /\ \A j \in 1..Len(Plans[e]) : ~(j < 1)
    BY SelectedFacts, Zenon DEF Selected
  <2>12. "completed" \notin Failure
    BY DEF Failure, Blocked
  <2>13. GoodCall(y)'
    BY <1>1, <2>2, <2>3, <2>6, <2>8, <2>10, <2>11, <2>12, Zenon DEF GoodCall, Driving
  <2> QED
    BY <1>0, <1>1, <2>4, <2>8, <2>9, <2>13, StoreStep, Zenon
<1> QED
  BY <1>2, <1>3 DEF finalizeStoppedExecution

\* Restart, Crash and Interrupt.
LEMMA FaultStep ==
    ASSUME EngineInv, NEW p \in Process, Restart(p) \/ Crash(p) \/ Interrupt(p)
    PROVE  EngineInv' /\ SettledKept
<1>0. UNCHANGED <<vars, ledger, shape>>
  BY DEF Restart, Crash, Interrupt
<1>1. LedgerTypeOK' /\ UNCHANGED execution
  BY <1>0, CallFacts, LedgerRead, Zenon
<1>2. CASE Return(p) \/ ReturnUndisposed(p)
  BY <1>0, <1>1, <1>2, ReturnStep
<1>3. CASE proc[p].pc \notin Outside /\ Classify(p)
  BY <1>0, <1>3, ClassifyOnly
<1>4. CASE /\ proc[p].pc \notin Outside
           /\ proc' = [proc EXCEPT ![p].pc = "persist", ![p].verdict = "open",
                                   ![p].plan = 1, ![p].step = 1]
  <2>1. PICK y \in Call : GoodCall(y) /\ proc' = [proc EXCEPT ![p] = y]
    BY <1>4, OpenVerdict, Zenon
  <2> QED
    BY <1>0, <1>1, <2>1, CallStep, Zenon
<1>5. \/ Return(p) \/ ReturnUndisposed(p) \/ (proc[p].pc \notin Outside /\ Classify(p))
      \/ /\ proc[p].pc \notin Outside
         /\ proc' = [proc EXCEPT ![p].pc = "persist", ![p].verdict = "open",
                                 ![p].plan = 1, ![p].step = 1]
  BY DEF Restart, Crash, Interrupt, At, Outside
<1> QED
  BY <1>2, <1>3, <1>4, <1>5

-----------------------------------------------------------------------------
(* The steps that write a record, and time.                                *)

\* A write of the ledger keeps what its reads look like.
LEMMA WrittenReads ==
    ASSUME EngineInv, NEW p \in Process, NEW e \in Execution, NEW r, Write(p, e, r)
    PROVE  known' \subseteq Process \X Execution
  BY DEF EngineInv, EngineTypeOK, LedgerTypeOK, Write

\* RunOnce and ExecuteReplay.
LEMMA LeaseStep ==
    ASSUME EngineInv, NEW p \in Process, NEW e \in Execution,
           RunOnce(p, e) \/ ExecuteReplay(p, e)
    PROVE  EngineInv' /\ SettledKept
<1>0. UNCHANGED <<vars, shape>> /\ execution[e].state # "absent" /\ ~Ended(e)
  BY DEF RunOnce, ExecuteReplay, LeaseExecution, Leasable, Ended
<1>1. Plans[e] # <<>>
  BY <1>0, Zenon DEF EngineInv, ExecutionOK
<1>2. 1 \in 1..Len(Plans[e])
  BY <1>1, SelectedFacts, Zenon
<1>3. ASSUME NEW y \in Call, y.pc \in {"confirm", "load"}, y.id = e, y.plan = 1, y.step = 1,
             y.verdict = "open"
      PROVE  GoodCall(y)
  <2>1. \A j \in 1..Len(Plans[e]) : ~(j < 1)
    BY SelectedFacts, Zenon
  <2> QED
    BY <1>0, <1>2, <1>3, <2>1, Zenon DEF GoodCall, Driving
<1>4. CASE RunOnce(p, e)
  <2>1. PICK y : y = [Idle EXCEPT !.pc = "confirm", !.id = e, !.lease = TRUE]
    OBVIOUS
  <2>2. y \in Call /\ GoodCall(y)
    <3>1. y \in Call /\ y.pc = "confirm" /\ y.id = e /\ y.plan = 1 /\ y.step = 1 /\ y.verdict = "open"
      BY <2>1, LeasedCall, Zenon
    <3> QED
      BY <1>3, <3>1
  <2>3. proc' = [proc EXCEPT ![p] = y]
    BY <1>4, <2>1 DEF RunOnce
  <2>4. PICK r : r = [execution[e] EXCEPT !.holder = p, !.deadline = "live"]
    OBVIOUS
  <2>5. execution[e] \in Record
    BY DEF EngineInv, EngineTypeOK, LedgerTypeOK
  <2>6. r \in Record /\ r.state = execution[e].state /\ r.holder = p /\ r.deadline = "live"
    BY <2>4, <2>5, Zenon DEF Record
  <2>7. Write(p, e, r)
    BY <1>4, <2>4 DEF RunOnce, LeaseExecution
  <2>8. execution' = [execution EXCEPT ![e] = r] /\ known' \subseteq Process \X Execution
    BY <2>7, WrittenReads, Zenon DEF Write
  <2>9. r.holder # Nobody
    BY <2>6, EngineAssumption, Zenon
  <2>10. ~IsTerminal(r.state) /\ r.state # "completed" /\ r.state \notin Failure
    BY <1>0, <2>6, Zenon DEF Ended, IsTerminal, Failure
  <2> QED
    BY <1>0, <2>2, <2>3, <2>6, <2>8, <2>9, <2>10, WriteStep, Zenon
<1>5. CASE ExecuteReplay(p, e)
  <2>1. PICK y : y = [Idle EXCEPT !.pc = "load", !.id = e]
    OBVIOUS
  <2>2. y \in Call /\ GoodCall(y)
    <3>1. y \in Call /\ y.pc = "load" /\ y.id = e /\ y.plan = 1 /\ y.step = 1 /\ y.verdict = "open"
      BY <2>1, ReplayedCall, Zenon
    <3> QED
      BY <1>3, <3>1
  <2>3. proc' = [proc EXCEPT ![p] = y]
    BY <1>5, <2>1 DEF ExecuteReplay
  <2>4. LedgerTypeOK' /\ UNCHANGED execution
    BY <1>5, LedgerRead DEF ExecuteReplay
  <2> QED
    BY <1>0, <2>2, <2>3, <2>4, CallStep, Zenon
<1> QED
  BY <1>4, <1>5

\* A compare-and-swap of a state that is so, and then a place that is right.
LEMMA SwapStep ==
    ASSUME EngineInv, UNCHANGED <<vars, shape>>, NEW p \in Process, proc[p].pc \notin Outside,
           NEW v, v = "running" \/ v = "accepted" \/ IsTerminal(v), NEW next,
           CompareAndSwap(p, v, next),
           v = "completed" => \A s \in Selected(proc[p].id) : saga[s] = "completed",
           v \in Failure => \A s \in Selected(proc[p].id) : QuietSaga(s) /\ Covers(v, s),
           next # "idle" /\ Go(p, next) =>
             \E y \in Call : GoodCall(y) /\ proc' = [proc EXCEPT ![p] = y]
    PROVE  EngineInv' /\ SettledKept
<1>1. PICK e \in Execution : e = proc[p].id
  BY CallFacts, Zenon
<1>2. execution[e].state # "absent"
  BY <1>1, CallFacts, Zenon
<1>3. CASE Return(p) /\ (UNCHANGED ledger \/ GetExecution(p, e))
  <2>1. LedgerTypeOK' /\ UNCHANGED execution
    BY <1>3, LedgerRead
  <2> QED
    BY <1>3, <2>1, ReturnStep, Zenon
<1>4. CASE GetExecution(p, e) /\ proc' = [proc EXCEPT ![p].tries = @ + 1]
  <2>1. LedgerTypeOK' /\ UNCHANGED execution
    BY <1>4, LedgerRead
  <2>2. PICK c \in Call : c = proc[p]
    BY CallFacts, Zenon
  <2>3. PICK y : y = [c EXCEPT !.tries = c.tries + 1]
    BY Zenon
  <2>4. y \in Call /\ y.pc = c.pc /\ SameWork(c, y) /\ y.step = c.step /\ y.target = c.target
    BY <2>3 DEF Call, SameWork
  <2>5. proc' = [proc EXCEPT ![p] = y]
    BY <1>4, <2>2, <2>3
  <2>6. GoodCall(c)
    BY <2>2, CallFacts, Zenon
  <2>7. GoodCall(y)
    <3>1. /\ c.pc = y.pc /\ c.id = y.id /\ c.plan = y.plan /\ c.verdict = y.verdict
          /\ c.step = y.step /\ c.target = y.target
      BY <2>4, Zenon DEF SameWork
    <3>2. /\ y.pc \notin Outside =>
               execution[y.id].state # "absent" /\ y.plan \in 1..Len(Plans[y.id])
          /\ y.pc \in {"confirm", "load", "refresh", "start"} => y.step = 1
          /\ y.pc # "persist" => y.verdict # "completed"
          /\ y.pc \in {"finalize", "observe"} => y.verdict \in Failure
      BY <2>6, <3>1, Zenon DEF GoodCall
    <3>3. y.pc \in Driving =>
             \A j \in 1..Len(Plans[y.id]) : j < y.plan => saga[Plans[y.id][j]] = "completed"
      <4>1. c.pc \in Driving =>
               \A j \in 1..Len(Plans[c.id]) : j < c.plan => saga[Plans[c.id][j]] = "completed"
        BY <2>6, Zenon DEF GoodCall
      <4> QED
        BY <3>1, <4>1, Zenon
    <3>7. y.pc \in {"enqueue", "dispatch"} => y.step \in 1..shape[Plans[y.id][y.plan]].steps
      <4>1. c.pc \in {"enqueue", "dispatch"} => c.step \in 1..shape[Plans[c.id][c.plan]].steps
        BY <2>6, Zenon DEF GoodCall
      <4> QED
        BY <3>1, <4>1, Zenon
    <3>4. y.pc = "invoking" =>
             /\ y.target \in Dispatch /\ SagaOf(y.target) = Plans[y.id][y.plan]
             /\ DirectionOf(y.target) = "forward" => y.step \in 1..shape[Plans[y.id][y.plan]].steps
      BY <2>6, <3>1, Zenon DEF GoodCall
    <3>5. y.pc = "observe" =>
             /\ \A s \in Selected(y.id) : QuietSaga(s)
             /\ \A j \in 1..Len(Plans[y.id]) : j < y.plan => Covers(y.verdict, Plans[y.id][j])
      BY <2>6, <3>1, Zenon DEF GoodCall
    <3>6. y.pc = "persist" =>
             /\ y.verdict = "completed" => \A s \in Selected(y.id) : saga[s] = "completed"
             /\ y.verdict \in Failure =>
                  \A s \in Selected(y.id) : QuietSaga(s) /\ Covers(y.verdict, s)
      BY <2>6, <3>1, Zenon DEF GoodCall
    <3> QED
      BY <3>2, <3>3, <3>4, <3>5, <3>6, <3>7, Zenon DEF GoodCall
  <2> QED
    BY <2>1, <2>4, <2>5, <2>7, CallStep, Zenon
<1>5. CASE SetExecutionState(p, e, v) /\ (IF next = "idle" THEN Return(p) ELSE Go(p, next))
  <2>1. PICK y \in Call : GoodCall(y) /\ proc' = [proc EXCEPT ![p] = y]
    BY <1>5, OutsideCalls DEF Return
  <2>2. PICK r : r = [execution[e] EXCEPT !.state = v]
    BY Zenon
  <2>3. execution[e] \in Record /\ RecordOK(e)
    BY DEF EngineInv, EngineTypeOK, LedgerTypeOK
  <2>4. v \in {"absent", "accepted", "running", "completed", "failed"} \cup Blocked /\ v # "absent"
    BY DEF IsTerminal, Blocked
  <2>5. r \in Record /\ r.state = v /\ r.holder = execution[e].holder /\ r.deadline = execution[e].deadline
    BY <2>2, <2>3, <2>4 DEF Record
  <2>6. Write(p, e, r) /\ ~Ended(e) /\ execution[e].holder = Nobody
    BY <1>5, <2>2 DEF SetExecutionState, MaySetState, Ended
  <2>7. execution' = [execution EXCEPT ![e] = r] /\ known' \subseteq Process \X Execution
    BY <2>6, WrittenReads, Zenon DEF Write
  <2>8. r.holder = Nobody /\ r.deadline = "none"
    BY <2>3, <2>5, <2>6, Zenon DEF RecordOK
  <2> QED
    BY <1>1, <1>2, <2>1, <2>4, <2>5, <2>6, <2>7, <2>8, WriteStep, Zenon
<1> QED
  BY <1>1, <1>3, <1>4, <1>5 DEF CompareAndSwap, ExecutionOfCall

\* The verdict that a call writes is so.
LEMMA VerdictIsSo ==
    ASSUME EngineInv, NEW p \in Process, proc[p].pc = "persist", ~Ended(proc[p].id)
    PROVE  /\ Verdict(p) \in {"running", "accepted", "completed"} \cup Failure
           /\ Verdict(p) = "completed" => \A s \in Selected(proc[p].id) : saga[s] = "completed"
           /\ Verdict(p) \in Failure =>
                \A s \in Selected(proc[p].id) : QuietSaga(s) /\ Covers(Verdict(p), s)
<1>1. PICK c \in Call : c = proc[p]
  BY CallFacts, Zenon
<1>2. c.id \in Execution /\ execution[c.id].state # "absent" /\ GoodCall(c) /\ c.pc = "persist"
  BY <1>1, CallFacts, Zenon DEF Outside
<1>3. execution[c.id] \in Record
  BY <1>2 DEF EngineInv, EngineTypeOK, LedgerTypeOK
<1>4. execution[c.id].state \in {"running", "accepted"}
  BY <1>1, <1>2, <1>3, Zenon DEF Record, Ended, IsTerminal
<1>5. "running" \notin Failure /\ "accepted" \notin Failure /\ "completed" \notin Failure
  BY Zenon DEF Failure, Blocked
<1>6. CASE c.verdict = "open"
  <2>1. Verdict(p) = execution[c.id].state
    BY <1>1, <1>6, Zenon DEF Verdict, ExecutionOfCall
  <2> QED
    BY <1>4, <1>5, <2>1, Zenon
<1>7. CASE c.verdict # "open"
  <2>1. Verdict(p) = c.verdict
    BY <1>1, <1>7 DEF Verdict
  <2>2. c.verdict \in {"completed"} \cup Failure
    BY <1>7, Zenon DEF Call
  <2> QED
    BY <1>1, <1>2, <2>1, <2>2, Zenon DEF GoodCall
<1> QED
  BY <1>6, <1>7, Zenon

\* StartRunning and SwapState.
LEMMA CommitStateKept ==
    ASSUME EngineInv, NEW p \in Process, StartRunning(p) \/ SwapState(p)
    PROVE  EngineInv' /\ SettledKept
<1>0. UNCHANGED <<vars, shape>>
  BY DEF StartRunning, SwapState
<1>1. CASE StartRunning(p)
  <2>1. PICK x : x = Begin(SagaOfCall(p))
    OBVIOUS
  <2>2. proc[p].pc = "start" /\ CompareAndSwap(p, "running", x)
    BY <1>1, <2>1, Zenon DEF StartRunning, At
  <2>3. Go(p, x) => \E y \in Call : GoodCall(y) /\ proc' = [proc EXCEPT ![p] = y]
    BY <2>1, <2>2, BeginStep
  <2>4. "running" # "completed" /\ "running" \notin Failure /\ proc[p].pc \notin Outside
    BY <2>2, Zenon DEF Failure, Blocked, Outside
  <2> QED
    BY <1>0, <2>2, <2>3, <2>4, SwapStep, Zenon
<1>2. CASE SwapState(p)
  <2>1. proc[p].pc = "persist" /\ CompareAndSwap(p, Verdict(p), "idle")
    BY <1>2, Zenon DEF SwapState, At
  <2>2. proc[p].pc \notin Outside
    BY <2>1, Zenon DEF Outside
  <2>3. CASE Ended(proc[p].id)
    <3>1. PICK e \in Execution : e = proc[p].id
      BY CallFacts, Zenon
    <3>2. Return(p) /\ (UNCHANGED ledger \/ GetExecution(p, e))
      BY <2>1, <2>3, <3>1 DEF CompareAndSwap, ExecutionOfCall, Ended
    <3>3. LedgerTypeOK' /\ UNCHANGED execution
      BY <3>2, LedgerRead
    <3> QED
      BY <1>0, <3>2, <3>3, ReturnStep
  <2>4. CASE ~Ended(proc[p].id)
    <3>1. PICK v : v = Verdict(p)
      OBVIOUS
    <3>2. /\ v \in {"running", "accepted", "completed"} \cup Failure
          /\ v = "completed" => \A s \in Selected(proc[p].id) : saga[s] = "completed"
          /\ v \in Failure => \A s \in Selected(proc[p].id) : QuietSaga(s) /\ Covers(v, s)
      BY <2>1, <2>4, <3>1, VerdictIsSo, Zenon
    <3>3. v = "running" \/ v = "accepted" \/ IsTerminal(v)
      BY <3>2 DEF IsTerminal, Failure
    <3> QED
      BY <1>0, <2>1, <2>2, <3>1, <3>2, <3>3, SwapStep, Zenon
  <2> QED
    BY <2>3, <2>4
<1> QED
  BY <1>1, <1>2

\* FinishLease.
LEMMA FinishLeaseKept ==
    ASSUME EngineInv, NEW p \in Process, FinishLease(p)
    PROVE  EngineInv' /\ SettledKept
<1>0. /\ UNCHANGED <<vars, shape>> /\ proc[p].pc = "persist"
      /\ Return(p) \/ ReturnUndisposed(p)
  BY Zenon DEF FinishLease, At
<1>1. PICK e \in Execution : e = proc[p].id
  BY CallFacts, Zenon
<1>2. CASE UNCHANGED ledger
  <2>1. LedgerTypeOK' /\ UNCHANGED execution
    BY <1>2, LedgerRead
  <2> QED
    BY <1>0, <2>1, ReturnStep, Zenon
<1>3. CASE FinishExecutionLease(p, e, Verdict(p))
  <2>1. execution[e].holder = p /\ p # Nobody
    BY <1>3, EngineAssumption, Zenon DEF FinishExecutionLease, HoldsLease
  <2>2. ~Ended(e) /\ execution[e].state # "absent"
    BY <1>0, <1>1, <2>1, CallFacts, Zenon DEF EngineInv, RecordOK, Outside
  <2>3. PICK v : v = Verdict(p)
    OBVIOUS
  <2>4. /\ v \in {"running", "accepted", "completed"} \cup Failure
        /\ v = "completed" => \A s \in Selected(e) : saga[s] = "completed"
        /\ v \in Failure => \A s \in Selected(e) : QuietSaga(s) /\ Covers(v, s)
    BY <1>0, <1>1, <2>2, <2>3, VerdictIsSo, Zenon
  <2>5. PICK r : r = [state |-> v, holder |-> Nobody, deadline |-> "none"]
    BY Zenon
  <2>6. r \in Record /\ r.state = v /\ r.holder = Nobody /\ r.deadline = "none" /\ v # "absent"
    BY <2>4, <2>5, Zenon DEF Record, Failure, Blocked
  <2>7. Write(p, e, r)
    BY <1>3, <2>3, <2>5, Zenon DEF FinishExecutionLease
  <2>8. execution' = [execution EXCEPT ![e] = r] /\ known' \subseteq Process \X Execution
    BY <2>7, WrittenReads, Zenon DEF Write
  <2>9. PICK y \in Call : GoodCall(y) /\ proc' = [proc EXCEPT ![p] = y]
    <3>1. [Idle EXCEPT !.pc = "idle"] = Idle
      BY DEF Idle
    <3> QED
      BY <1>0, <3>1, OutsideCalls DEF Return, ReturnUndisposed
  <2> QED
    BY <1>0, <2>2, <2>4, <2>6, <2>8, <2>9, WriteStep, Zenon
<1> QED
  BY <1>1, <1>2, <1>3, Zenon DEF FinishLease, ExecutionOfCall

\* LedgerTime and DispatchTime.
LEMMA TimeStep ==
    ASSUME EngineInv, \/ \E e \in Execution : LedgerTime(e)
                      \/ \E d \in Dispatch : DispatchTime(d)
    PROVE  EngineInv' /\ SettledKept
<1>1. ASSUME NEW e \in Execution, LedgerTime(e)
      PROVE  EngineInv' /\ SettledKept
  <2>0. UNCHANGED <<vars, shape, proc>> /\ LeaseExpires(e)
    BY <1>1, Zenon DEF LedgerTime
  <2>1. execution[e] \in Record /\ RecordOK(e) /\ ExecutionOK(e) /\ execution \in [Execution -> Record]
    BY DEF EngineInv, EngineTypeOK, LedgerTypeOK
  <2>2. PICK r : r = [execution[e] EXCEPT !.deadline = "expired"]
    BY Zenon
  <2>3. /\ r \in Record /\ r.state = execution[e].state /\ r.holder = execution[e].holder
        /\ r.deadline = "expired"
    BY <2>1, <2>2 DEF Record
  <2>4. execution' = [execution EXCEPT ![e] = r] /\ known' = known /\ execution[e].deadline = "live"
    BY <2>0, <2>2 DEF LeaseExpires
  <2>5. known' \subseteq Process \X Execution
    BY <2>4 DEF EngineInv, EngineTypeOK, LedgerTypeOK
  <2>6. r.holder # Nobody /\ ~Ended(e) /\ execution[e].state # "absent"
    BY <2>1, <2>3, <2>4 DEF RecordOK
  <2>7. ~IsTerminal(r.state) /\ r.state # "completed" /\ r.state \notin Failure
    BY <2>3, <2>6, Zenon DEF Ended, IsTerminal, Failure
  <2>8. /\ OutboxInv' /\ SagasKept /\ NoneCreated /\ StatesKept /\ SettledKept /\ LedgerTypeOK'
        /\ \A x \in Execution : RecordOK(x)' /\ ExecutionOK(x)'
    BY <2>0, <2>3, <2>4, <2>5, <2>6, <2>7, RecordStep, Zenon
  <2>9. \A q \in Process : CallOK(q)'
    BY <2>0, <2>8, CallsStay
  <2>10. EngineTypeOK'
    BY <2>0, <2>8 DEF EngineInv, EngineTypeOK
  <2> QED
    BY <2>8, <2>9, <2>10 DEF EngineInv
<1>2. ASSUME NEW d \in Dispatch, DispatchTime(d)
      PROVE  EngineInv' /\ SettledKept
  <2>0. UNCHANGED <<ledger, shape, proc>> /\ TimePasses({d})
    BY <1>2 DEF DispatchTime
  <2>1. OutboxInv' /\ SagasKept /\ NoneCreated
    BY <2>0, TimePassesInv, NothingMoves, Zenon DEF EngineInv, TimePasses
  <2>2. StatesKept /\ SettledKept /\ EngineTypeOK' /\ UNCHANGED execution
    BY <2>0, Zenon DEF StatesKept, SettledKept, ledger, EngineInv, EngineTypeOK, LedgerTypeOK
  <2>3. \A q \in Process : CallOK(q)'
    BY <2>0, <2>1, <2>2, CallsStay
  <2>4. ASSUME NEW x \in Execution
        PROVE  RecordOK(x)' /\ ExecutionOK(x)'
    <3>1. RecordOK(x) /\ ExecutionOK(x) /\ execution'[x] = execution[x] /\ saga' = saga
      BY <2>0, <2>2 DEF EngineInv, TimePasses
    <3> QED
      BY <2>1, <3>1, RecordStands, Zenon
  <2> QED
    BY <2>1, <2>2, <2>3, <2>4 DEF EngineInv
<1> QED
  BY <1>1, <1>2

\* ExecuteAdmission.
LEMMA AdmissionStep ==
    ASSUME EngineInv, NEW p \in Process, NEW e \in Execution, NEW wait, ExecuteAdmission(p, e, wait)
    PROVE  EngineInv' /\ SettledKept
<1>0. AdmitExecutionAtomic(p, e) /\ UNCHANGED shape
  BY DEF ExecuteAdmission
<1>1. execution[e].state = "absent" /\ \A s \in Selected(e) : saga[s] = "absent"
  BY <1>0, Zenon DEF AdmitExecutionAtomic, AdmitExecution, EngineInv, ExecutionOK
<1>2. OutboxInv /\ shape \in [Saga -> Shape] /\ execution \in [Execution -> Record]
  BY DEF EngineInv, EngineTypeOK, LedgerTypeOK
<1>3. OutboxInv' /\ SagasKept
  BY <1>0, <1>1, <1>2, AdmissionKept
<1>4. \A s \in Saga : saga'[s] = IF s \in FirstSteps(e) THEN "running"
                                 ELSE IF s \in Selected(e) THEN "completed" ELSE saga[s]
  BY <1>0, <1>1, <1>2, AdmissionFacts, Zenon
<1>5. PICK v : v = IF FirstSteps(e) = {} THEN "completed" ELSE "accepted"
  OBVIOUS
<1>6. PICK r : r = [state |-> v, holder |-> Nobody, deadline |-> "none"]
  BY Zenon
<1>7. r \in Record /\ r.state = v /\ r.holder = Nobody /\ r.deadline = "none"
  BY <1>5, <1>6 DEF Record
<1>8. Write(p, e, r)
  BY <1>0, <1>5, <1>6, Zenon DEF AdmitExecutionAtomic, AdmitExecution
<1>9. /\ execution' = [execution EXCEPT ![e] = r] /\ known' \subseteq Process \X Execution
      /\ execution'[e] = r
  BY <1>2, <1>8, WrittenReads, Zenon DEF Write
<1>10. LedgerTypeOK'
  BY <1>2, <1>7, <1>9 DEF LedgerTypeOK
<1>11. StatesKept /\ SettledKept
  <2>1. v # "absent" /\ ~Ended(e)
    BY <1>1, <1>5, Zenon DEF Ended, IsTerminal, Blocked
  <2> QED
    BY <1>2, <1>7, <1>9, <2>1 DEF StatesKept, SettledKept
<1>12. ASSUME NEW x \in Execution, x # e
       PROVE  RecordOK(x)' /\ ExecutionOK(x)'
  <2>1. RecordOK(x) /\ ExecutionOK(x) /\ execution'[x] = execution[x]
    BY <1>2, <1>9, <1>12 DEF EngineInv
  <2>2. \A s \in Selected(x) : s \in Saga /\ s \notin Selected(e)
    BY <1>12, SelectedFacts, Zenon
  <2>3. \A s \in Selected(x) : saga'[s] = saga[s]
    BY <1>4, <2>2, Zenon DEF FirstSteps
  <2> QED
    BY <1>3, <2>1, <2>3, RecordStands, Zenon
<1>13. RecordOK(e)'
  BY <1>7, <1>9, Zenon DEF RecordOK, Ended
<1>14. FirstSteps(e) # {} => Plans[e] # <<>> /\ 1 \in 1..Len(Plans[e])
  <2>1. FirstSteps(e) # {} => \E s : s \in Selected(e)
    BY Zenon DEF FirstSteps
  <2>2. Selected(e) = {Plans[e][i] : i \in 1..Len(Plans[e])}
    BY SelectedFacts, Zenon
  <2>3. FirstSteps(e) # {} => \E i : i \in 1..Len(Plans[e])
    BY <2>1, <2>2, Zenon
  <2>4. Plans[e] = <<>> => Len(Plans[e]) = 0
    BY SMTT(30)
  <2>5. \A i : i \notin 1..0
    OBVIOUS
  <2> QED
    BY <2>3, <2>4, <2>5, SelectedFacts, Zenon
<1>15. ExecutionOK(e)'
  <2>1. Selected(e)' = Selected(e) /\ Selected(e) \subseteq Saga
    BY SelectedFacts, Zenon DEF Selected
  <2>2. v \in {"completed", "accepted"} /\ execution'[e].state = v
    BY <1>5, <1>7, <1>9
  <2>3. v # "absent" /\ (Ended(e)' => v = "completed") /\ (~Ended(e)' => v = "accepted")
    BY <2>2, Zenon DEF Ended, IsTerminal, Blocked
  <2>4. \A s \in Selected(e) : saga'[s] # "absent"
    BY <1>4, <2>1, Zenon
  <2>5. v = "completed" => \A s \in Selected(e) : saga'[s] = "completed"
    BY <1>4, <1>5, <2>1, Zenon
  <2>6. v = "accepted" => Plans[e] # <<>>
    BY <1>5, <1>14, Zenon
  <2> QED
    BY <2>1, <2>2, <2>3, <2>4, <2>5, <2>6, Zenon DEF ExecutionOK
<1>16. proc' \in [Process -> Call] /\ \A q \in Process : CallOK(q)'
  <2>1. CASE UNCHANGED proc
    <3>1. proc' \in [Process -> Call]
      BY <2>1 DEF EngineInv, EngineTypeOK
    <3> QED
      BY <1>0, <1>3, <1>11, <2>1, <3>1, CallsStay
  <2>2. CASE /\ FirstSteps(e) # {}
             /\ proc' = [proc EXCEPT ![p] = [Idle EXCEPT !.pc = "refresh", !.id = e]]
    <3>1. PICK y : y = [Idle EXCEPT !.pc = "refresh", !.id = e]
      OBVIOUS
    <3>2. y \in Call /\ y.pc = "refresh" /\ y.id = e /\ y.plan = 1 /\ y.step = 1 /\ y.verdict = "open"
      BY <3>1, AdmittedCall, Zenon
    <3>3. proc' = [proc EXCEPT ![p] = y]
      BY <2>2, <3>1
    <3>4. execution'[e].state # "absent" /\ \A j \in 1..Len(Plans[e]) : ~(j < 1)
      <4>1. Len(Plans[e]) \in Nat /\ 1 \in 1..Len(Plans[e])
        BY <1>14, <2>2, SelectedFacts, Zenon
      <4>2. execution'[e].state # "absent"
        BY <1>5, <1>7, <1>9
      <4> QED
        BY <4>1, <4>2, UpTo, Zenon
    <3>5. GoodCall(y)'
      BY <1>14, <2>2, <3>2, <3>4 DEF GoodCall, Driving
    <3> QED
      BY <1>0, <1>3, <1>11, <3>2, <3>3, <3>5, CallsMove, Zenon
  <2> QED
    BY <2>1, <2>2 DEF ExecuteAdmission
<1>17. EngineTypeOK'
  BY <1>0, <1>2, <1>10, <1>16 DEF EngineTypeOK
<1> QED
  BY <1>3, <1>11, <1>12, <1>13, <1>15, <1>16, <1>17 DEF EngineInv

-----------------------------------------------------------------------------
(* The theorems.                                                           *)

\* Nothing is admitted and no call is under way.
LEMMA EngineInitInv == EngineInit => EngineInv
<1> SUFFICES ASSUME EngineInit PROVE EngineInv
  OBVIOUS
<1>1. OutboxInv
  BY InitInv DEF EngineInit
<1>2. \A e \in Execution : execution[e].state = "absent" /\ execution[e].holder = Nobody
                           /\ execution[e].deadline = "none"
  BY Zenon DEF EngineInit, LedgerInit
<1>3. LedgerTypeOK
  <2>1. [state |-> "absent", holder |-> Nobody, deadline |-> "none"] \in Record
    BY DEF Record
  <2> QED
    BY <2>1 DEF EngineInit, LedgerInit, LedgerTypeOK
<1>4. EngineTypeOK
  BY <1>3, OutsideCalls, EngineAssumption DEF EngineInit, EngineTypeOK, Shape
<1>5. \A s \in Saga : saga[s] = "absent"
  BY Zenon DEF EngineInit, Init
<1>6. ASSUME NEW e \in Execution
      PROVE  RecordOK(e) /\ ExecutionOK(e)
  <2>1. ~Ended(e)
    BY <1>2 DEF Ended, IsTerminal, Blocked
  <2> QED
    BY <1>2, <1>5, <2>1, SelectedFacts, Zenon DEF RecordOK, ExecutionOK
<1>7. \A p \in Process : CallOK(p)
  BY OutsideCalls DEF EngineInit, CallOK
<1> QED
  BY <1>1, <1>4, <1>6, <1>7 DEF EngineInv

\* Every step keeps the invariant, and every settled record.
LEMMA EngineStep == EngineInv /\ [EngineNext]_engineVars => EngineInv' /\ SettledKept
<1> SUFFICES ASSUME EngineInv, [EngineNext]_engineVars PROVE EngineInv' /\ SettledKept
  OBVIOUS
<1>1. ASSUME NEW p \in Caller, NEW e \in Execution,
             (\E wait \in {"accepted", "terminal"} : ExecuteAdmission(p, e, wait)) \/ ExecuteReplay(p, e)
      PROVE  EngineInv' /\ SettledKept
  BY <1>1, EngineAssumption, AdmissionStep, LeaseStep, Zenon
<1>2. ASSUME NEW p \in Worker, NEW e \in Execution, RunOnce(p, e)
      PROVE  EngineInv' /\ SettledKept
  BY <1>2, EngineAssumption, LeaseStep, Zenon
<1>3. ASSUME NEW p \in Process, Drive(p) \/ Crash(p) \/ Interrupt(p)
      PROVE  EngineInv' /\ SettledKept
  BY <1>3, EntryStep, BlockedStep, CommitStateKept, FinishLeaseKept, EnqueueCheckedStepKept,
     StepSucceededKept, PlanFailedKept, ClaimKept, CompletionStep, CompletePlanKept, StopStep,
     ReadSagaKept, FinalizeStep, FaultStep, Zenon DEF Drive
<1>4. CASE (\E d \in Dispatch : DispatchTime(d)) \/ (\E e \in Execution : LedgerTime(e))
  BY <1>4, TimeStep
<1>5. CASE UNCHANGED engineVars
  <2>1. UNCHANGED <<vars, shape, execution, known, proc>>
    BY <1>5, Zenon DEF engineVars, vars
  <2>2. OutboxInv' /\ SagasKept /\ NoneCreated
    BY <2>1, NextInv, NothingMoves DEF EngineInv, vars
  <2>3. StatesKept /\ SettledKept /\ EngineTypeOK'
    BY <2>1 DEF StatesKept, SettledKept, EngineInv, EngineTypeOK, LedgerTypeOK
  <2>4. \A q \in Process : CallOK(q)'
    BY <2>1, <2>2, <2>3, CallsStay
  <2>5. ASSUME NEW x \in Execution
        PROVE  RecordOK(x)' /\ ExecutionOK(x)'
    <3>1. RecordOK(x) /\ ExecutionOK(x) /\ execution'[x] = execution[x] /\ saga' = saga
      BY <2>1 DEF EngineInv, vars
    <3> QED
      BY <2>2, <3>1, RecordStands, Zenon
  <2> QED
    BY <2>2, <2>3, <2>4, <2>5 DEF EngineInv
<1> QED
  BY <1>1, <1>2, <1>3, <1>4, <1>5 DEF EngineNext

\* The invariant of the engine: what the ledger, the sagas and the calls of
\* Execute know of each other, whatever crashes, lapses or runs side by side.
THEOREM EngineInvariant == EngineSpec => []EngineInv
  BY EngineInitInv, EngineStep, PTL DEF EngineSpec

\* An execution recorded as completed has completed every selected plan
\* (executeCheckedWorkflow and commitExecutionState).
THEOREM CompletedMeansDone == EngineSpec => []CompletedIsDone
<1>1. EngineInv => CompletedIsDone
  BY Zenon DEF EngineInv, ExecutionOK, CompletedIsDone
<1> QED
  BY <1>1, EngineInvariant, PTL

\* Nothing of a settled execution can still run (finalizeStoppedExecution
\* before a failure is recorded, CompleteSaga before a success).
THEOREM StoppedMeansQuiet == EngineSpec => []StoppedIsQuiet
<1>1. ASSUME EngineInv
      PROVE  StoppedIsQuiet
  <2> SUFFICES ASSUME NEW e \in Execution, Ended(e)
               PROVE  /\ \A s \in Selected(e) : saga[s] \in TerminalSaga
                      /\ \A d \in Dispatch : SagaOf(d) \in Selected(e) =>
                            dispatch[d] \notin {"queued", "retry_wait", "in_flight"}
    BY DEF StoppedIsQuiet
  <2>1. ExecutionOK(e) /\ SagaPhase
    BY <1>1 DEF EngineInv, OutboxInv
  <2>2. CASE execution[e].state = "completed"
    <3>1. \A s \in Selected(e) : saga[s] = "completed"
      BY <2>1, <2>2, Zenon DEF ExecutionOK
    <3>2. ASSUME NEW d \in Dispatch, SagaOf(d) \in Selected(e)
          PROVE  dispatch[d] \notin {"queued", "retry_wait", "in_flight"}
      <4>1. /\ SagaOf(d) \in Saga /\ SeqOf(d) \in Sequence /\ saga[SagaOf(d)] = "completed"
            /\ d = Forward(SagaOf(d), SeqOf(d)) \/ d = Compensation(SagaOf(d), SeqOf(d))
        BY <3>1, <3>2, DispatchIds, Zenon DEF Direction
      <4> QED
        BY <2>1, <4>1, Zenon DEF SagaPhase
    <3> QED
      BY <3>1, <3>2 DEF TerminalSaga
  <2>3. CASE execution[e].state # "completed"
    BY <2>1, <2>3, Zenon DEF ExecutionOK, QuietSaga
  <2> QED
    BY <2>2, <2>3, Zenon
<1> QED
  BY <1>1, EngineInvariant, PTL

\* The recorded failure never understates what a saga knows
\* (executionFailureState, and the second reading after the close).
THEOREM VerdictIsWorst == EngineSpec => []VerdictCoversSagas
<1>1. EngineInv => VerdictCoversSagas
  BY Zenon DEF EngineInv, ExecutionOK, Covers, VerdictCoversSagas
<1> QED
  BY <1>1, EngineInvariant, PTL

\* A settled record is never written again (the guards of SetState, Lease
\* and Finish, under a lease that only an open record has).
THEOREM RecordedOnce == EngineSpec => SettledOnce
<1>1. EngineInv /\ [EngineNext]_engineVars =>
        [\A e \in Execution : Ended(e) => execution'[e] = execution[e]]_engineVars
  BY EngineStep DEF SettledKept
<1> QED
  BY <1>1, EngineInvariant, PTL DEF EngineSpec, SettledOnce
============================================================================
