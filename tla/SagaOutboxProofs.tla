------------------------- MODULE SagaOutboxProofs -------------------------
(***************************************************************************)
(* The safety properties of SagaOutbox for every set of sagas and every    *)
(* bound on steps and claims.  OutboxInv is inductive: each operation is   *)
(* shown to preserve it in a lemma of its own.                             *)
(***************************************************************************)
EXTENDS SagaOutbox, OutboxCompletionProofs, TLAPS

-----------------------------------------------------------------------------
\* The initial state satisfies the invariant.
LEMMA InitInv == Init => OutboxInv
<1> SUFFICES ASSUME Init PROVE OutboxInv
  OBVIOUS
<1>1. TypeOK
  BY DEF Init, TypeOK, Timer
<1>2. /\ \A d \in Dispatch : dispatch[d] = "absent" /\ attempts[d] = <<>>
      /\ \A s \in Saga : saga[s] = "absent" /\ \A n \in Sequence : step[s][n] = "absent"
  BY DEF Init
<1>3. StepsAgree /\ ForwardOrder /\ SagaPhase
  BY <1>2, DispatchIds DEF StepsAgree, ForwardOrder, SagaPhase, Settled
<1>4. AttemptHistory /\ TerminalQuiescent /\ NoMaskedUnknown
  BY <1>2, DispatchIds DEF AttemptHistory, TerminalQuiescent, NoMaskedUnknown, Unresolved
<1>5. CompensationOrder /\ CompensationAfterKnownFailure /\ CompensatedSome
  BY <1>2, DispatchIds DEF CompensationOrder, CompensationAfterKnownFailure, CompensatedSome
<1> QED
  BY <1>1, <1>3, <1>4, <1>5 DEF OutboxInv

\* CreateSaga adds a running saga without steps.
LEMMA CreateSagaInv ==
    ASSUME OutboxInv, NEW s \in Saga, CreateSaga(s)
    PROVE  OutboxInv'
<1> USE DispatchIds DEF OutboxInv, CreateSaga
<1>1. TypeOK'
  BY DEF TypeOK, SagaState
<1>2. \A n \in Sequence : /\ dispatch[Forward(s, n)] = "absent"
                          /\ dispatch[Compensation(s, n)] = "absent"
  BY DEF SagaPhase
<1>3. \A t \in Saga : saga'[t] = IF t = s THEN "running" ELSE saga[t]
  BY DEF TypeOK
<1>4. StepsAgree' /\ AttemptHistory' /\ ForwardOrder' /\ NoMaskedUnknown'
  BY DEF StepsAgree, AttemptHistory, ForwardOrder, NoMaskedUnknown
<1>5. SagaPhase'
  BY <1>2, <1>3 DEF SagaPhase, Settled
<1>6. TerminalQuiescent'
  BY <1>3 DEF TerminalQuiescent, TerminalSaga
<1>7. CompensationOrder' /\ CompensationAfterKnownFailure'
  BY DEF CompensationOrder, CompensationAfterKnownFailure
<1>8. CompensatedSome'
  BY <1>3 DEF CompensatedSome
<1> QED
  BY <1>1, <1>4, <1>5, <1>6, <1>7, <1>8

\* EnqueueStep adds a pending step with a queued forward dispatch.
LEMMA EnqueueStepInv ==
    ASSUME OutboxInv, NEW s \in Saga, NEW n \in Sequence, NEW hasInverse \in BOOLEAN,
           EnqueueStep(s, n, hasInverse)
    PROVE  OutboxInv'
<1> USE DispatchIds DEF OutboxInv
<1> DEFINE f == Forward(s, n)
<1>1. /\ saga[s] = "running"
      /\ step[s][n] = "absent"
      /\ \A m \in Sequence : m < n => step[s][m] # "absent"
      /\ dispatch[f] = "absent"
      /\ dispatch[Compensation(s, n)] = "absent"
      /\ attempts[f] = <<>>
  BY DEF EnqueueStep, IsNextSequence, StepsAgree, SagaPhase, AttemptHistory
<1>2. /\ saga' = saga /\ attempts' = attempts
      /\ \A d \in Dispatch : dispatch'[d] = IF d = f THEN "queued" ELSE dispatch[d]
      /\ \A t \in Saga, m \in Sequence :
            /\ step'[t][m] = IF t = s /\ m = n THEN "pending" ELSE step[t][m]
            /\ inverse'[t][m] = IF t = s /\ m = n THEN hasInverse ELSE inverse[t][m]
  BY DEF EnqueueStep, TypeOK
<1>3. TypeOK'
  BY DEF EnqueueStep, TypeOK, StepState, DispatchState
<1>4. StepsAgree'
  BY <1>1, <1>2 DEF StepsAgree
<1>5. AttemptHistory'
  BY <1>1, <1>2 DEF AttemptHistory, Unresolved
<1>6. ForwardOrder'
  BY <1>1, <1>2, SequenceNat DEF ForwardOrder, StepsAgree
<1>7. SagaPhase'
  BY <1>1, <1>2 DEF SagaPhase, Settled
<1>8. TerminalQuiescent' /\ NoMaskedUnknown'
  BY <1>1, <1>2 DEF TerminalQuiescent, NoMaskedUnknown
<1>9. CompensationOrder'
  BY <1>1, <1>2 DEF CompensationOrder
<1>10. CompensationAfterKnownFailure'
  BY <1>1, <1>2 DEF CompensationAfterKnownFailure, Unresolved
<1>11. CompensatedSome'
  BY <1>1, <1>2 DEF CompensatedSome
<1> QED
  BY <1>3, <1>4, <1>5, <1>6, <1>7, <1>8, <1>9, <1>10, <1>11

\* CompleteSaga closes a running saga whose dispatches have all succeeded.
LEMMA CompleteSagaInv ==
    ASSUME OutboxInv, NEW s \in Saga, CompleteSaga(s)
    PROVE  OutboxInv'
<1> USE DispatchIds DEF OutboxInv, CompleteSaga
<1>1. \A t \in Saga : saga'[t] = IF t = s THEN "completed" ELSE saga[t]
  BY DEF TypeOK
<1>2. TypeOK'
  BY DEF TypeOK, SagaState, TerminalSaga
<1>3. StepsAgree' /\ AttemptHistory' /\ ForwardOrder' /\ NoMaskedUnknown'
  BY DEF StepsAgree, AttemptHistory, ForwardOrder, NoMaskedUnknown
<1>4. SagaPhase'
  BY <1>1 DEF SagaPhase, Settled, Unresolved
<1>5. TerminalQuiescent'
  BY <1>1 DEF TerminalQuiescent
<1>6. CompensationOrder' /\ CompensationAfterKnownFailure'
  BY DEF CompensationOrder, CompensationAfterKnownFailure
<1>7. CompensatedSome'
  BY <1>1 DEF CompensatedSome
<1> QED
  BY <1>2, <1>3, <1>4, <1>5, <1>6, <1>7

-----------------------------------------------------------------------------
\* The clock and the grant column are outside the invariant.
LEMMA TimePassesInv ==
    ASSUME OutboxInv, NEW D, TimePasses(D)
    PROVE  OutboxInv'
<1> USE DEF OutboxInv, TimePasses
<1>1. TypeOK'
  BY DEF TypeOK, Timer
<1>2. StepsAgree' /\ AttemptHistory' /\ ForwardOrder' /\ NoMaskedUnknown'
  BY DEF StepsAgree, AttemptHistory, ForwardOrder, NoMaskedUnknown
<1>3. SagaPhase' /\ TerminalQuiescent' /\ CompensatedSome'
  BY DEF SagaPhase, TerminalQuiescent, CompensatedSome
<1>4. CompensationOrder' /\ CompensationAfterKnownFailure'
  BY DEF CompensationOrder, CompensationAfterKnownFailure
<1> QED
  BY <1>1, <1>2, <1>3, <1>4

\* SaveFencingGrants records the grants and nothing else.
LEMMA SaveFencingGrantsInv ==
    ASSUME OutboxInv, NEW d \in Dispatch, NEW a, SaveFencingGrants(d, a)
    PROVE  OutboxInv'
<1> USE DEF OutboxInv, SaveFencingGrants
<1>1. TypeOK'
  BY DEF TypeOK
<1>2. StepsAgree' /\ AttemptHistory' /\ ForwardOrder' /\ NoMaskedUnknown'
  BY DEF StepsAgree, AttemptHistory, ForwardOrder, NoMaskedUnknown
<1>3. SagaPhase' /\ TerminalQuiescent' /\ CompensatedSome'
  BY DEF SagaPhase, TerminalQuiescent, CompensatedSome
<1>4. CompensationOrder' /\ CompensationAfterKnownFailure'
  BY DEF CompensationOrder, CompensationAfterKnownFailure
<1> QED
  BY <1>1, <1>2, <1>3, <1>4

\* A new attempt of a dispatch that its saga drives and has come to.
LEMMA OpenAttemptInv ==
    ASSUME OutboxInv, NEW d \in Dispatch,
           dispatch[d] \in {"queued", "retry_wait", "in_flight"}, SagaDrives(d),
           DirectionOf(d) = "forward" =>
               \A m \in Sequence : m < SeqOf(d) =>
                   dispatch[Forward(SagaOf(d), m)] \in {"absent", "succeeded"},
           dispatch' = [dispatch EXCEPT ![d] = "in_flight"],
           timer' = [timer EXCEPT ![d] = "live"],
           granted' = [granted EXCEPT ![d] = FALSE],
           attempts' = [attempts EXCEPT ![d] = Append(@, "open")],
           UNCHANGED <<saga, step, inverse>>
    PROVE  OutboxInv'
<1> USE DEF OutboxInv
<1>1. /\ dispatch[d] \in {"queued", "retry_wait", "in_flight"}
      /\ \/ saga[SagaOf(d)] = "running" /\ DirectionOf(d) = "forward"
         \/ saga[SagaOf(d)] = "compensating" /\ DirectionOf(d) = "compensation"
      /\ DirectionOf(d) = "forward" =>
            \A m \in Sequence : m < SeqOf(d) =>
                dispatch[Forward(SagaOf(d), m)] \in {"absent", "succeeded"}
  BY Zenon DEF SagaDrives
<1>2. /\ saga' = saga /\ step' = step /\ inverse' = inverse
      /\ dispatch'[d] = "in_flight" /\ attempts'[d] = Append(attempts[d], "open")
      /\ \A e \in Dispatch : e # d => dispatch'[e] = dispatch[e] /\ attempts'[e] = attempts[e]
  BY DEF TypeOK
<1>3. attempts[d] \in Seq(AttemptOutcome)
  BY DEF TypeOK
<1> DEFINE q == Append(attempts[d], "open")
<1>4. /\ q \in Seq(AttemptOutcome)
      /\ q # <<>>
      /\ Len(q) = Len(attempts[d]) + 1
      /\ \A i \in 1..Len(attempts[d]) : q[i] = attempts[d][i]
      /\ q[Len(attempts[d]) + 1] = "open"
  BY <1>3, AppendOpen, Zenon
<1>5. TypeOK'
  BY <1>4 DEF TypeOK, DispatchState, Timer
<1>6. StepsAgree'
  <2> SUFFICES ASSUME NEW s \in Saga, NEW n \in Sequence PROVE StepsAgree!(s, n)'
    BY Zenon DEF StepsAgree
  <2>1. StepsAgree!(s, n)
    BY Zenon DEF StepsAgree
  <2>2. /\ Forward(s, n) \in Dispatch /\ Compensation(s, n) \in Dispatch
        /\ Forward(s, n) # Compensation(s, n)
    BY DispatchIds
  <2>3. CASE d # Forward(s, n) /\ d # Compensation(s, n)
    BY <1>2, <2>1, <2>2, <2>3
  <2>4. CASE d = Forward(s, n)
    BY <1>1, <1>2, <2>1, <2>2, <2>4, Zenon
  <2>5. CASE d = Compensation(s, n)
    BY <1>1, <1>2, <2>1, <2>2, <2>5, Zenon
  <2> QED
    BY <2>3, <2>4, <2>5, Zenon
<1>7. AttemptHistory'
  <2> SUFFICES ASSUME NEW e \in Dispatch PROVE AttemptHistory!(e)'
    BY Zenon DEF AttemptHistory
  <2>1. AttemptHistory!(e)
    BY Zenon DEF AttemptHistory
  <2>2. CASE e # d
    BY <1>2, <2>1, <2>2, Zenon
  <2>3. CASE e = d
    <3>1. \A i \in 1..Len(attempts[d]) : attempts[d][i] \in {"open", "retryable", "unknown"}
      <4>1. CASE dispatch[d] = "queued"
        <5>1. attempts[d] = <<>>
          BY <2>1, <2>3, <4>1
        <5> QED
          BY <5>1
      <4>2. CASE dispatch[d] \in {"in_flight", "retry_wait"}
        BY <2>1, <2>3, <4>2, Zenon
      <4> QED
        BY <1>1, <4>1, <4>2, Zenon
    <3>2. \A i \in 1..Len(q) : i \in 1..Len(attempts[d]) \/ i = Len(attempts[d]) + 1
      BY <1>3, <1>4
    <3> HIDE DEF q
    <3>3. \A i \in 1..Len(q) : q[i] \in {"open", "retryable", "unknown"}
      BY <1>4, <3>1, <3>2, Zenon
    <3>4. dispatch'[e] = "in_flight" /\ attempts'[e] = q
      BY <2>3, <1>2, Zenon DEF q
    <3> QED
      BY <1>4, <3>3, <3>4 DEF Unresolved
  <2> QED
    BY <2>2, <2>3, Zenon
<1>8. ForwardOrder'
  <2> SUFFICES ASSUME NEW s \in Saga, NEW m \in Sequence, NEW n \in Sequence, m < n
               PROVE  ForwardOrder!(s)!(m, n)!2'
    BY Zenon DEF ForwardOrder
  <2>1. ForwardOrder!(s)!(m, n)!2
    BY Zenon DEF ForwardOrder
  <2>2. /\ Forward(s, m) \in Dispatch /\ Forward(s, n) \in Dispatch
        /\ Forward(s, m) # Forward(s, n)
    BY DispatchIds, SequenceNat
  <2>3. CASE d # Forward(s, m) /\ d # Forward(s, n)
    BY <1>2, <2>1, <2>2, <2>3, Zenon
  <2>4. CASE d = Forward(s, n)
    <3>1. dispatch[Forward(s, m)] \in {"absent", "succeeded"}
      BY <1>1, <2>4, DispatchIds, Zenon
    <3> QED
      BY <1>1, <1>2, <2>1, <2>2, <2>4, <3>1
  <2>5. CASE d = Forward(s, m)
    BY <1>1, <1>2, <2>1, <2>2, <2>5
  <2> QED
    BY <2>3, <2>4, <2>5, Zenon
<1>9. SagaPhase'
  <2> SUFFICES ASSUME NEW s \in Saga, NEW n \in Sequence PROVE SagaPhase!(s, n)'
    BY Zenon DEF SagaPhase
  <2>1. saga'[s] = saga[s] /\ step'[s][n] = step[s][n]
    BY <1>2, Zenon
  <2>2. /\ Forward(s, n) \in Dispatch /\ Compensation(s, n) \in Dispatch
        /\ Forward(s, n) # Compensation(s, n)
    BY DispatchIds
  <2>3. SagaPhase!(s, n)
    BY PhaseAt, Zenon
  <2>4. CASE d # Forward(s, n) /\ d # Compensation(s, n)
    BY <1>2, <2>1, <2>2, <2>3, <2>4, Zenon
  <2>5. CASE d = Forward(s, n)
    <3>1. saga[s] = "running"
      BY <1>1, <2>5, DispatchIds
    <3> QED
      BY <1>2, <2>1, <2>2, <2>3, <2>5, <3>1, Zenon DEF Settled
  <2>6. CASE d = Compensation(s, n)
    <3>1. saga[s] = "compensating"
      BY <1>1, <2>6, DispatchIds
    <3> QED
      BY <1>2, <2>1, <2>2, <2>3, <2>6, <3>1, Zenon DEF Settled
  <2> QED
    BY <2>4, <2>5, <2>6, Zenon
<1>10. TerminalQuiescent'
  BY <1>1, <1>2 DEF TerminalQuiescent, TerminalSaga
<1>11. NoMaskedUnknown'
  BY <1>1, <1>2 DEF NoMaskedUnknown
<1>12. CompensationOrder'
  <2>1. \A s \in Saga, n \in Sequence :
            dispatch'[Compensation(s, n)] # "absent" => dispatch[Compensation(s, n)] # "absent"
    BY <1>1, <1>2, DispatchIds
  <2>2. step' = step /\ inverse' = inverse
    BY <1>2
  <2> QED
    BY <2>1, <2>2, Zenon DEF CompensationOrder
<1>13. CompensationAfterKnownFailure'
  <2> SUFFICES ASSUME NEW s \in Saga, NEW n \in Sequence,
                      dispatch'[Compensation(s, n)] # "absent"
               PROVE  CompensationAfterKnownFailure!(s, n)!2'
    BY Zenon DEF CompensationAfterKnownFailure
  <2>1. dispatch[Compensation(s, n)] # "absent"
    BY <1>1, <1>2, DispatchIds
  <2>2. CompensationAfterKnownFailure!(s, n)!2
    BY <2>1, Zenon DEF CompensationAfterKnownFailure
  <2>3. ASSUME NEW m \in Sequence
        PROVE  /\ dispatch'[Forward(s, m)] \notin Unresolved
               /\ dispatch[Forward(s, m)] = "failed_permanent" =>
                     dispatch'[Forward(s, m)] = "failed_permanent"
    <3>1. Forward(s, m) \in Dispatch
      BY DispatchIds
    <3>2. CASE d = Forward(s, m)
      <4>1. saga[s] = "running"
        BY <1>1, <3>2, DispatchIds
      <4>2. SagaPhase!(s, n)
        BY PhaseAt
      <4> QED
        BY <2>1, <4>1, <4>2
    <3>3. CASE d # Forward(s, m)
      BY <1>2, <2>2, <3>1, <3>3, Zenon
    <3> QED
      BY <3>2, <3>3
  <2> QED
    BY <2>2, <2>3, Zenon
<1>14. CompensatedSome'
  BY <1>2 DEF CompensatedSome
<1> QED
  BY <1>5, <1>6, <1>7, <1>8, <1>9, <1>10, <1>11, <1>12, <1>13, <1>14

\* A claim opens an attempt of an eligible dispatch.
LEMMA ClaimDispatchInv ==
    ASSUME OutboxInv, NEW d \in Dispatch, ClaimDispatch(d)
    PROVE  OutboxInv'
<1>1. /\ dispatch[d] \in {"queued", "retry_wait", "in_flight"} /\ SagaDrives(d)
      /\ DirectionOf(d) = "forward" =>
            \A m \in Sequence : m < SeqOf(d) =>
                dispatch[Forward(SagaOf(d), m)] \in {"absent", "succeeded"}
  BY DispatchIds DEF ClaimDispatch, Eligible, hasUnfinishedEarlierForward
<1>2. /\ dispatch' = [dispatch EXCEPT ![d] = "in_flight"]
      /\ timer' = [timer EXCEPT ![d] = "live"]
      /\ granted' = [granted EXCEPT ![d] = FALSE]
      /\ attempts' = [attempts EXCEPT ![d] = Append(@, "open")]
      /\ UNCHANGED <<saga, step, inverse>>
  BY Zenon DEF ClaimDispatch
<1> QED
  BY <1>1, <1>2, OpenAttemptInv, Zenon

-----------------------------------------------------------------------------
\* What closing does to one dispatch: finished ones keep their state, unstarted
\* ones are canceled, and only a dispatch without any uncertain attempt is.
LEMMA ClosedState ==
    ASSUME OutboxInv, NEW d \in Dispatch
    PROVE  /\ Closed(d) \in DispatchState \cup {"absent"}
           /\ Closed(d) \notin {"queued", "in_flight", "retry_wait"}
           /\ dispatch[d] \notin {"queued", "in_flight", "retry_wait"} => Closed(d) = dispatch[d]
           /\ dispatch[d] \in {"queued", "in_flight", "retry_wait"} =>
                 Closed(d) \in {"canceled", "blocked_unknown"}
           /\ dispatch[d] = "queued" => Closed(d) = "canceled"
           /\ ~Uncertain(d) /\ Closed(d) = "blocked_unknown" => dispatch[d] = "blocked_unknown"
           /\ Closed(d) = "blocked_unknown" => attempts[d] # <<>> \/ dispatch[d] = "blocked_unknown"
           /\ Closed(d) = "canceled" => \A i \in 1..Len(attempts[d]) :
                                            attempts[d][i] \in {"retryable", "permanent"}
<1> USE DEF OutboxInv
<1>1. dispatch[d] \in DispatchState \cup {"absent"}
  BY DEF TypeOK
<1>2. attempts[d] \in Seq(AttemptOutcome)
  BY DEF TypeOK
<1>3. CASE dispatch[d] = "queued"
  <2>1. Closed(d) = "canceled" /\ ~Uncertain(d)
    BY <1>3 DEF Closed, Uncertain, isUncertainRetry
  <2>2. attempts[d] = <<>>
    BY <1>3 DEF AttemptHistory
  <2> QED
    BY <1>3, <2>1, <2>2 DEF DispatchState
<1>4. CASE dispatch[d] = "in_flight"
  BY <1>4 DEF Closed, Uncertain, AttemptHistory, DispatchState, Unresolved
<1>5. CASE dispatch[d] = "retry_wait" /\ isUncertainRetry(d)
  BY <1>5 DEF Closed, Uncertain, AttemptHistory, DispatchState, Unresolved
<1>6. CASE dispatch[d] = "retry_wait" /\ ~isUncertainRetry(d)
  <2>1. Closed(d) = "canceled"
    BY <1>6 DEF Closed, Uncertain
  <2>2. \A i \in 1..Len(attempts[d]) : attempts[d][i] = "retryable"
    BY <1>6 DEF isUncertainRetry, AttemptHistory
  <2> QED
    BY <1>6, <2>1, <2>2 DEF DispatchState
<1>7. CASE dispatch[d] \notin {"queued", "in_flight", "retry_wait"}
  BY <1>1, <1>7 DEF Closed, Uncertain, isUncertainRetry, NoMaskedUnknown
<1> QED
  BY <1>3, <1>4, <1>5, <1>6, <1>7, Zenon

\* Closing a set of dispatches preserves what does not depend on saga states.
LEMMA CloseDispatchesInv ==
    ASSUME OutboxInv, NEW D \in SUBSET Dispatch, CloseDispatches(D),
           UNCHANGED <<step, inverse, granted, attempts>>,
           saga' \in [Saga -> SagaState \cup {"absent"}]
    PROVE  /\ TypeOK' /\ StepsAgree' /\ AttemptHistory' /\ ForwardOrder'
           /\ NoMaskedUnknown' /\ CompensationOrder' /\ CompensationAfterKnownFailure'
           /\ \A d \in Dispatch : dispatch'[d] = IF d \in D THEN Closed(d) ELSE dispatch[d]
<1> USE DispatchIds DEF OutboxInv
<1>1. \A d \in Dispatch : dispatch'[d] = IF d \in D THEN Closed(d) ELSE dispatch[d]
  BY DEF CloseDispatches
<1>2. \A d \in Dispatch :
         /\ dispatch'[d] = dispatch[d] \/ dispatch'[d] \in {"canceled", "blocked_unknown"}
         /\ dispatch[d] \notin {"queued", "in_flight", "retry_wait"} => dispatch'[d] = dispatch[d]
         /\ dispatch'[d] = "canceled" => \A i \in 1..Len(attempts[d]) :
                                            attempts[d][i] \in {"retryable", "permanent"}
         /\ dispatch'[d] = "blocked_unknown" => attempts[d] # <<>>
         /\ dispatch[d] = "queued" => dispatch'[d] # "blocked_unknown"
  <2> SUFFICES ASSUME NEW d \in Dispatch PROVE <1>2!(d)
    BY Zenon
  <2>1. CASE d \in D
    <3>1. dispatch'[d] = Closed(d)
      BY <1>1, <2>1, Zenon
    <3>2. dispatch[d] = "blocked_unknown" => attempts[d] # <<>>
      BY DEF AttemptHistory, Unresolved
    <3> QED
      BY <3>1, <3>2, ClosedState, Zenon
  <2>2. CASE d \notin D
    <3>1. dispatch'[d] = dispatch[d]
      BY <1>1, <2>2, Zenon
    <3>2. AttemptHistory!(d)
      BY Zenon DEF AttemptHistory
    <3>3. NoMaskedUnknown!(d)
      BY Zenon DEF NoMaskedUnknown
    <3> QED
      BY <3>1, <3>2, <3>3 DEF Unresolved
  <2> QED
    BY <2>1, <2>2, Zenon
<1>3. TypeOK'
  BY <1>1, ClosedState, Zenon DEF TypeOK, CloseDispatches, Timer
<1>4. StepsAgree'
  <2> SUFFICES ASSUME NEW s \in Saga, NEW n \in Sequence PROVE StepsAgree!(s, n)'
    BY Zenon DEF StepsAgree
  <2>1. StepsAgree!(s, n)
    BY Zenon DEF StepsAgree
  <2> QED
    BY <1>2, <2>1, Zenon
<1>5. AttemptHistory'
  <2> SUFFICES ASSUME NEW e \in Dispatch PROVE AttemptHistory!(e)'
    BY Zenon DEF AttemptHistory
  <2>1. AttemptHistory!(e)
    BY Zenon DEF AttemptHistory
  <2> QED
    BY <1>2, <2>1, Zenon DEF Unresolved
<1>6. ForwardOrder'
  <2> SUFFICES ASSUME NEW s \in Saga, NEW m \in Sequence, NEW n \in Sequence, m < n
               PROVE  ForwardOrder!(s)!(m, n)!2'
    BY Zenon DEF ForwardOrder
  <2>1. ForwardOrder!(s)!(m, n)!2
    BY Zenon DEF ForwardOrder
  <2> QED
    BY <1>2, <2>1, Zenon
<1>7. NoMaskedUnknown'
  BY <1>2, Zenon DEF NoMaskedUnknown
<1>8. CompensationOrder'
  <2>1. \A s \in Saga, n \in Sequence :
            dispatch'[Compensation(s, n)] # "absent" => dispatch[Compensation(s, n)] # "absent"
    BY <1>2
  <2> QED
    BY <2>1, Zenon DEF CompensationOrder
<1>9. CompensationAfterKnownFailure'
  <2> SUFFICES ASSUME NEW s \in Saga, NEW n \in Sequence,
                      dispatch'[Compensation(s, n)] # "absent"
               PROVE  /\ \E m \in Sequence : m > n /\ dispatch'[Forward(s, m)] = "failed_permanent"
                      /\ \A m \in Sequence : dispatch'[Forward(s, m)] \notin Unresolved
    BY DEF CompensationAfterKnownFailure
  <2>1. dispatch[Compensation(s, n)] # "absent"
    BY <1>2
  <2>2. PICK k \in Sequence : k > n /\ dispatch[Forward(s, k)] = "failed_permanent"
    BY <2>1 DEF CompensationAfterKnownFailure
  <2>3. dispatch'[Forward(s, k)] = "failed_permanent"
    BY <2>2, <1>2
  <2>4. ASSUME NEW m \in Sequence PROVE dispatch'[Forward(s, m)] \notin Unresolved
    <3>1. dispatch[Forward(s, m)] \notin Unresolved
      BY <2>1 DEF CompensationAfterKnownFailure
    <3> QED
      BY <3>1, <1>2, Zenon DEF Unresolved
  <2> QED
    BY <2>2, <2>3, <2>4, Zenon
<1> QED
  BY <1>1, <1>3, <1>4, <1>5, <1>6, <1>7, <1>8, <1>9, Zenon

\* Stopping a set of sagas closes every one of them.
LEMMA StoppedSagasInv ==
    ASSUME OutboxInv, NEW stopped \in SUBSET Saga, \A s \in stopped : saga[s] # "absent",
           CloseDispatches({d \in Dispatch : SagaOf(d) \in stopped}),
           saga' = [s \in Saga |-> IF s \in stopped THEN FinalizedSaga(s) ELSE saga[s]],
           UNCHANGED <<step, inverse, granted, attempts>>
    PROVE  /\ OutboxInv'
           /\ \A s \in Saga : saga[s] \in Settled => saga'[s] = saga[s]
<1> USE DispatchIds DEF OutboxInv
<1> DEFINE D == {d \in Dispatch : SagaOf(d) \in stopped}
<1>1. /\ CloseDispatches(D)
      /\ UNCHANGED <<step, inverse, granted, attempts>>
      /\ saga' = [s \in Saga |-> IF s \in stopped THEN FinalizedSaga(s) ELSE saga[s]]
  OBVIOUS
<1>2. \A s \in stopped : /\ FinalizedSaga(s) \in TerminalSaga
                         /\ saga[s] \in Settled => FinalizedSaga(s) = saga[s]
  <2> SUFFICES ASSUME NEW s \in stopped
               PROVE  /\ FinalizedSaga(s) \in TerminalSaga
                      /\ saga[s] \in Settled => FinalizedSaga(s) = saga[s]
    BY Zenon
  <2>1. FinalizedSaga(s) \in TerminalSaga
    BY DEF FinalizedSaga, TerminalSaga
  <2>2. ASSUME saga[s] \in Settled PROVE FinalizedSaga(s) = saga[s]
    <3>1. ASSUME NEW d \in Dispatch, SagaOf(d) = s
          PROVE  ~Uncertain(d) /\ dispatch[d] # "blocked_unknown"
      <4>1. dispatch[d] \notin {"in_flight", "retry_wait"}
        BY <2>2, <3>1 DEF TerminalQuiescent, Settled, TerminalSaga
      <4>2. dispatch[d] # "blocked_unknown"
        <5>1. SagaPhase!(s, SeqOf(d))
          BY <3>1, PhaseAt, Zenon
        <5>2. d \in {Forward(s, SeqOf(d)), Compensation(s, SeqOf(d))}
          BY <3>1, Zenon DEF Direction
        <5> QED
          BY <2>2, <5>1, <5>2, Zenon DEF Settled, Unresolved
      <4> QED
        BY <4>1, <4>2, Zenon DEF Uncertain, isUncertainRetry
    <3> QED
      BY <2>2, <3>1 DEF FinalizedSaga, Settled, TerminalSaga
  <2> QED
    BY <2>1, <2>2
<1>3. saga' \in [Saga -> SagaState \cup {"absent"}]
  BY <1>1, <1>2 DEF TypeOK, SagaState
<1>4. /\ TypeOK' /\ StepsAgree' /\ AttemptHistory' /\ ForwardOrder'
      /\ NoMaskedUnknown' /\ CompensationOrder' /\ CompensationAfterKnownFailure'
      /\ \A d \in Dispatch : dispatch'[d] = IF d \in D THEN Closed(d) ELSE dispatch[d]
  BY <1>1, <1>3, CloseDispatchesInv, Zenon
<1>5. TerminalQuiescent'
  BY <1>1, <1>4, ClosedState, Zenon DEF TerminalQuiescent
<1>6. SagaPhase'
  <2> SUFFICES ASSUME NEW s \in Saga, NEW n \in Sequence PROVE SagaPhase!(s, n)'
    BY Zenon DEF SagaPhase
  <2>0. CASE s \notin stopped
    <3>1. saga'[s] = saga[s] /\ step' = step
      BY <1>1, <2>0, Zenon
    <3>2. /\ dispatch'[Forward(s, n)] = dispatch[Forward(s, n)]
          /\ dispatch'[Compensation(s, n)] = dispatch[Compensation(s, n)]
      BY <1>4, <2>0, Zenon
    <3> QED
      BY <3>1, <3>2, PhaseKept, Zenon
  <2> SUFFICES ASSUME s \in stopped PROVE SagaPhase!(s, n)'
    BY <2>0, Zenon
  <2>1. saga'[s] = FinalizedSaga(s) /\ step' = step /\ saga'[s] \in TerminalSaga
    BY <1>1, <1>2, Zenon
  <2>2. dispatch'[Forward(s, n)] = Closed(Forward(s, n))
        /\ dispatch'[Compensation(s, n)] = Closed(Compensation(s, n))
    BY <1>4, Zenon
  <2>3. CASE saga'[s] \in {"blocked_unknown", "blocked_dependency"}
    BY <2>3, Zenon DEF Settled
  <2>4. CASE saga'[s] \notin {"blocked_unknown", "blocked_dependency"}
    <3>1. \A d \in Dispatch : SagaOf(d) = s => ~Uncertain(d) /\ dispatch[d] # "blocked_unknown"
      BY <2>1, <2>4, Zenon DEF FinalizedSaga
    <3>2. \A d \in Dispatch : SagaOf(d) = s => Closed(d) # "blocked_unknown"
      BY <3>1, ClosedState, Zenon
    <3>3. CASE saga[s] \in TerminalSaga
      <4>1. saga'[s] = saga[s]
        BY <2>1, <2>4, <3>3 DEF FinalizedSaga
      <4>2. /\ dispatch'[Forward(s, n)] \in {dispatch[Forward(s, n)], "canceled"}
            /\ dispatch[Forward(s, n)] # "queued" =>
                  dispatch'[Forward(s, n)] = dispatch[Forward(s, n)]
            /\ dispatch[Compensation(s, n)] # "queued" =>
                  dispatch'[Compensation(s, n)] = dispatch[Compensation(s, n)]
        BY <2>2, <3>2, <3>3, ClosedState, Zenon DEF TerminalQuiescent
      <4>3. SagaPhase!(s, n)
        BY PhaseAt, Zenon
      <4> QED
        BY <3>3, <4>1, <4>2, <4>3, <2>1, Zenon DEF TerminalSaga, Unresolved
    <3>4. CASE saga[s] = "running"
      <4>1. saga'[s] = "failed"
        BY <2>1, <2>4, <3>4 DEF FinalizedSaga, TerminalSaga
      <4>2. /\ dispatch[Forward(s, n)] \in {"absent", "queued", "in_flight", "retry_wait", "succeeded"}
            /\ dispatch[Compensation(s, n)] = "absent"
        BY <3>4, PhaseAt, Zenon
      <4>3. /\ Closed(Compensation(s, n)) = "absent"
            /\ Closed(Forward(s, n)) \in {"absent", "canceled", "succeeded"}
        <5>1. Closed(Forward(s, n)) # "blocked_unknown"
          BY <3>2
        <5> QED
          BY <4>2, <5>1, ClosedState, Zenon
      <4> QED
        BY <4>1, <4>3, <2>2, Zenon DEF Unresolved
    <3>5. CASE saga[s] = "compensating"
      BY <2>1, <2>4, <3>5, Zenon DEF FinalizedSaga, TerminalSaga
    <3> QED
      BY <3>3, <3>4, <3>5, Zenon DEF TypeOK, SagaState
  <2> QED
    BY <2>3, <2>4, Zenon
<1>7. CompensatedSome'
  <2>1. \A s \in stopped : saga'[s] = "compensated" => saga[s] = "compensated"
    BY <1>1 DEF FinalizedSaga
  <2> QED
    BY <1>1, <2>1, Zenon DEF CompensatedSome
<1> QED
  BY <1>1, <1>2, <1>4, <1>5, <1>6, <1>7, Zenon

\* FinalizeStoppedExecution stops every saga of an execution.
LEMMA FinalizeStoppedExecutionInv ==
    ASSUME OutboxInv, NEW x \in Execution, FinalizeStoppedExecution(x)
    PROVE  /\ OutboxInv'
           /\ \A s \in Saga : saga[s] \in Settled => saga'[s] = saga[s]
<1> DEFINE stopped == {s \in Saga : ExecutionOf[s] = x /\ saga[s] # "absent"}
<1>1. stopped \in SUBSET Saga /\ \A s \in stopped : saga[s] # "absent"
  OBVIOUS
<1>2. /\ CloseDispatches({d \in Dispatch : SagaOf(d) \in stopped})
      /\ saga' = [s \in Saga |-> IF s \in stopped THEN FinalizedSaga(s) ELSE saga[s]]
      /\ UNCHANGED <<step, inverse, granted, attempts>>
  BY Zenon DEF FinalizeStoppedExecution
<1> QED
  BY <1>1, <1>2, StoppedSagasInv, Zenon

\* Blocking a compensating saga closes its inverse dispatches.
LEMMA BlockedSagaInv ==
    ASSUME OutboxInv, NEW s \in Saga, saga[s] = "compensating",
           CloseDispatches({d \in Dispatch : SagaOf(d) = s /\ DirectionOf(d) = "compensation"}),
           NEW w \in {"blocked_unknown", "blocked_compensation"}, saga' = [saga EXCEPT ![s] = w],
           UNCHANGED <<step, inverse, granted, attempts>>
    PROVE  OutboxInv'
<1> USE DispatchIds DEF OutboxInv
<1> DEFINE D == {d \in Dispatch : SagaOf(d) = s /\ DirectionOf(d) = "compensation"}
<1>1. /\ saga[s] = "compensating"
      /\ CloseDispatches(D)
      /\ UNCHANGED <<step, inverse, granted, attempts>>
      /\ saga' \in [Saga -> SagaState \cup {"absent"}]
      /\ saga'[s] \in {"blocked_unknown", "blocked_compensation"}
      /\ \A t \in Saga : t # s => saga'[t] = saga[t]
  BY DEF TypeOK, SagaState, TerminalSaga
<1>2. /\ TypeOK' /\ StepsAgree' /\ AttemptHistory' /\ ForwardOrder'
      /\ NoMaskedUnknown' /\ CompensationOrder' /\ CompensationAfterKnownFailure'
      /\ \A d \in Dispatch : dispatch'[d] = IF d \in D THEN Closed(d) ELSE dispatch[d]
  BY <1>1, CloseDispatchesInv, Zenon
<1>3. ASSUME NEW n \in Sequence
      PROVE  /\ dispatch'[Forward(s, n)] = dispatch[Forward(s, n)]
             /\ dispatch[Forward(s, n)] \in {"absent", "queued", "succeeded", "failed_permanent"}
             /\ dispatch'[Compensation(s, n)] \notin {"in_flight", "retry_wait"}
  <2>1. /\ dispatch'[Forward(s, n)] = dispatch[Forward(s, n)]
        /\ dispatch'[Compensation(s, n)] = Closed(Compensation(s, n))
    BY <1>2, Zenon
  <2>2. dispatch[Forward(s, n)] \in {"absent", "queued", "succeeded", "failed_permanent"}
    BY <1>1, PhaseAt, Zenon
  <2> QED
    BY <2>1, <2>2, ClosedState, Zenon
<1>4. TerminalQuiescent'
  <2> SUFFICES ASSUME NEW d \in Dispatch, saga'[SagaOf(d)] \in TerminalSaga
               PROVE  dispatch'[d] \notin {"in_flight", "retry_wait"}
    BY DEF TerminalQuiescent
  <2>1. CASE SagaOf(d) = s
    BY <2>1, <1>3 DEF Direction
  <2>2. CASE SagaOf(d) # s
    BY <2>2, <1>1, <1>2, Zenon DEF TerminalQuiescent
  <2> QED
    BY <2>1, <2>2
<1>5. SagaPhase'
  <2> SUFFICES ASSUME NEW t \in Saga, NEW n \in Sequence
               PROVE  SagaPhase!(t, n)'
    BY Zenon DEF SagaPhase
  <2>1. CASE t = s
    <3>1. dispatch'[Forward(s, n)] \in {"absent", "queued", "succeeded", "failed_permanent"}
      BY <1>3, Zenon
    <3> QED
      BY <2>1, <1>1, <3>1, Zenon DEF Settled, Unresolved
  <2>2. CASE t # s
    <3>1. saga'[t] = saga[t] /\ step'[t][n] = step[t][n]
      BY <2>2, <1>1, Zenon
    <3>2. Forward(t, n) \notin D /\ Compensation(t, n) \notin D
      BY <2>2, Zenon
    <3>3. /\ dispatch'[Forward(t, n)] = dispatch[Forward(t, n)]
          /\ dispatch'[Compensation(t, n)] = dispatch[Compensation(t, n)]
      BY <3>2, <1>2, Zenon
    <3> QED
      BY <3>1, <3>3, PhaseKept, Zenon
  <2> QED
    BY <2>1, <2>2, Zenon
<1>6. CompensatedSome'
  <2>1. \A t \in Saga : saga'[t] = "compensated" => saga[t] = "compensated"
    BY <1>1
  <2>2. step' = step
    BY <1>1
  <2> HIDE DispatchIds
  <2> QED
    BY <2>1, <2>2, Zenon DEF CompensatedSome
<1> QED
  BY <1>2, <1>4, <1>5, <1>6, Zenon

\* BlockSagaCompensation blocks a compensating saga.
LEMMA BlockSagaCompensationInv ==
    ASSUME OutboxInv, NEW s \in Saga, BlockSagaCompensation(s)
    PROVE  OutboxInv'
<1> DEFINE D == {d \in Dispatch : SagaOf(d) = s /\ DirectionOf(d) = "compensation"}
           w == IF \E d \in D : Uncertain(d) THEN "blocked_unknown" ELSE "blocked_compensation"
<1>1. w \in {"blocked_unknown", "blocked_compensation"}
  OBVIOUS
<1>2. /\ saga[s] = "compensating" /\ CloseDispatches(D) /\ saga' = [saga EXCEPT ![s] = w]
      /\ UNCHANGED <<step, inverse, granted, attempts>>
  BY Zenon DEF BlockSagaCompensation
<1> QED
  BY <1>1, <1>2, BlockedSagaInv, Zenon

\* FinalizeFailFastSaga renames the outcome of a saga without inverses.
LEMMA FinalizeFailFastSagaInv ==
    ASSUME OutboxInv, NEW s \in Saga, FinalizeFailFastSaga(s)
    PROVE  OutboxInv'
<1> USE DispatchIds DEF OutboxInv, FinalizeFailFastSaga
<1>1. \A t \in Saga : saga'[t] = IF t = s THEN "failed" ELSE saga[t]
  BY Zenon DEF TypeOK
<1>2. TypeOK'
  BY DEF TypeOK, SagaState, TerminalSaga
<1>3. StepsAgree' /\ AttemptHistory' /\ ForwardOrder' /\ NoMaskedUnknown'
  <2> HIDE DispatchIds
  <2>1. StepsAgree'
    BY DEF StepsAgree
  <2>3. AttemptHistory'
    BY Zenon DEF AttemptHistory
  <2>2. ForwardOrder' /\ NoMaskedUnknown'
    BY Zenon DEF ForwardOrder, NoMaskedUnknown
  <2> QED
    BY <2>1, <2>2, <2>3
<1>4. SagaPhase'
  <2> SUFFICES ASSUME NEW t \in Saga, NEW n \in Sequence PROVE SagaPhase!(t, n)'
    BY Zenon DEF SagaPhase
  <2>1. SagaPhase!(t, n)
    BY PhaseAt, Zenon
  <2> HIDE DispatchIds
  <2>2. CASE t = s
    <3>1. /\ saga'[s] = "failed" /\ saga[s] = "blocked_compensation"
          /\ dispatch' = dispatch /\ step' = step
          /\ dispatch[Compensation(s, n)] = "absent"
      BY <1>1, DispatchIds
    <3> HIDE DEF FinalizeFailFastSaga, OutboxInv
    <3> QED
      BY <2>1, <2>2, <3>1, Zenon DEF Settled
  <2>3. CASE t # s
    BY <1>1, <2>1, <2>3, PhaseKept, Zenon
  <2> QED
    BY <2>2, <2>3, Zenon
<1>5. TerminalQuiescent'
  BY <1>1 DEF TerminalQuiescent, TerminalSaga
<1>6. CompensationOrder' /\ CompensationAfterKnownFailure'
  BY Zenon DEF CompensationOrder, CompensationAfterKnownFailure
<1>7. CompensatedSome'
  <2>1. \A t \in Saga : saga'[t] = "compensated" => saga[t] = "compensated"
    BY <1>1
  <2> QED
    BY <2>1, Zenon DEF CompensatedSome
<1> QED
  BY <1>2, <1>3, <1>4, <1>5, <1>6, <1>7

\* A completion touches no saga but its own, which is not terminal.
LEMMA CompletionSaga ==
    ASSUME OutboxInv, NEW d \in Dispatch, NEW a, NEW o, NEW x,
           CompleteDispatch(d, a, o, x)
    PROVE  /\ saga[SagaOf(d)] \notin TerminalSaga
           /\ \A t \in Saga : t # SagaOf(d) => saga'[t] = saga[t]
<1>1. saga[SagaOf(d)] \notin TerminalSaga
  BY DEF OutboxInv, TerminalQuiescent, CompleteDispatch, currentLeaseAt
<1>2. \/ saga' = saga
      \/ \E w : saga' = [saga EXCEPT ![SagaOf(d)] = w]
  <2>1. \/ BlockUnknown(d) \/ ForwardSucceeds(d) \/ CompensationSucceeds(d) \/ Retry(d)
        \/ ForwardFails(d) \/ CompensationFails(d) \/ Block(d, "blocked_fence", "blocked_fence")
    BY DEF CompleteDispatch, applyCompletion
  <2>2. CASE BlockUnknown(d) \/ CompensationFails(d) \/ Block(d, "blocked_fence", "blocked_fence")
    BY <2>2 DEF BlockUnknown, CompensationFails, Block
  <2>3. CASE ForwardSucceeds(d) \/ Retry(d)
    BY <2>3 DEF ForwardSucceeds, Retry
  <2>4. CASE ForwardFails(d)
    BY <2>4 DEF ForwardFails, startCompensation, Uncompensable
  <2>5. CASE CompensationSucceeds(d)
    BY <2>5 DEF CompensationSucceeds, enqueueNextCompensation, Uncompensable
  <2> QED
    BY <2>1, <2>2, <2>3, <2>4, <2>5
<1>3. saga \in [Saga -> SagaState \cup {"absent"}]
  BY DEF OutboxInv, TypeOK
<1> QED
  BY <1>1, <1>2, <1>3

\* Every step of the store preserves the invariant.
LEMMA NextInv == OutboxInv /\ [Next]_vars => OutboxInv'
<1> SUFFICES ASSUME OutboxInv, [Next]_vars PROVE OutboxInv'
  OBVIOUS
<1>1. ASSUME NEW s \in Saga,
             \/ CreateSaga(s)
             \/ \E n \in Sequence, hasInverse \in BOOLEAN : EnqueueStep(s, n, hasInverse)
             \/ CompleteSaga(s)
             \/ BlockSagaCompensation(s)
             \/ FinalizeFailFastSaga(s)
      PROVE  OutboxInv'
  BY <1>1, CreateSagaInv, EnqueueStepInv, CompleteSagaInv, BlockSagaCompensationInv,
     FinalizeFailFastSagaInv
<1>5. ASSUME NEW D \in SUBSET Running, TimePasses(D)
      PROVE  OutboxInv'
  BY <1>5, TimePassesInv
<1>2. ASSUME NEW d \in Dispatch,
             \/ ClaimDispatch(d)
             \/ \E a \in 1..MaxClaims : SaveFencingGrants(d, a)
             \/ \E a \in 1..MaxClaims, o \in Outcome, x \in BOOLEAN :
                   CompleteDispatch(d, a, o, x)
      PROVE  OutboxInv'
  BY <1>2, ClaimDispatchInv, SaveFencingGrantsInv, CompleteDispatchInv
<1>3. ASSUME NEW e \in Execution, FinalizeStoppedExecution(e)
      PROVE  OutboxInv'
  BY <1>3, FinalizeStoppedExecutionInv, Zenon
<1>4. CASE UNCHANGED vars
  <2>1. TypeOK' /\ StepsAgree' /\ AttemptHistory'
    <3>1. TypeOK'
      BY <1>4 DEF vars, OutboxInv, TypeOK
    <3>2. StepsAgree'
      BY <1>4, Zenon DEF vars, OutboxInv, StepsAgree
    <3>3. AttemptHistory'
      BY <1>4, Zenon DEF vars, OutboxInv, AttemptHistory
    <3> QED
      BY <3>1, <3>2, <3>3
  <2>2. ForwardOrder' /\ TerminalQuiescent' /\ NoMaskedUnknown'
    BY <1>4, Zenon DEF vars, OutboxInv, ForwardOrder, TerminalQuiescent, NoMaskedUnknown
  <2>3. SagaPhase'
    <3>1. \A t \in Saga, n \in Sequence : SagaPhase!(t, n)'
      BY <1>4, PhaseKept, DispatchIds, Zenon DEF vars
    <3> QED
      BY <3>1, Zenon DEF SagaPhase
  <2>4. CompensationOrder' /\ CompensationAfterKnownFailure' /\ CompensatedSome'
    BY <1>4, Zenon DEF vars, OutboxInv, CompensationOrder, CompensationAfterKnownFailure, CompensatedSome
  <2> QED
    BY <2>1, <2>2, <2>3, <2>4 DEF OutboxInv
<1> QED
  BY <1>1, <1>2, <1>3, <1>4, <1>5 DEF Next

\* The inductive invariant of the outbox holds in every reachable state of the
\* store, for any sagas, executions, number of steps and number of claims.
THEOREM OutboxInvariant == Spec => []OutboxInv
  BY InitInv, NextInv, PTL DEF Spec

\* The variables of the store keep their types.
THEOREM TypeCorrect == Spec => []TypeOK
<1>1. OutboxInv => TypeOK
  BY DEF OutboxInv
<1> QED
  BY <1>1, OutboxInvariant, PTL

\* CompleteDispatch and the finalizers keep the step table and the outbox
\* table in agreement.
THEOREM StepsAlwaysAgree == Spec => []StepsAgree
<1>1. OutboxInv => StepsAgree
  BY DEF OutboxInv
<1> QED
  BY <1>1, OutboxInvariant, PTL

\* When CompleteDispatch or a finalizer makes a saga terminal, no claimed or
\* retrying dispatch of it remains.
THEOREM TerminalSagasAreQuiescent == Spec => []TerminalQuiescent
<1>1. OutboxInv => TerminalQuiescent
  BY DEF OutboxInv
<1> QED
  BY <1>1, OutboxInvariant, PTL

\* No dispatch is recorded as failed or canceled over an unknown attempt,
\* however many claims expire before the last one completes.
THEOREM UnknownIsNeverMasked == Spec => []NoMaskedUnknown
<1>1. OutboxInv => NoMaskedUnknown
  BY DEF OutboxInv
<1> QED
  BY <1>1, OutboxInvariant, PTL

\* startCompensation and enqueueNextCompensation undo steps in reverse order.
THEOREM CompensationInReverse == Spec => []CompensationOrder
<1>1. OutboxInv => CompensationOrder
  BY DEF OutboxInv
<1> QED
  BY <1>1, OutboxInvariant, PTL

\* Compensation starts only after a certain failure and never beside a forward
\* dispatch whose effect is unaccounted for.
THEOREM CompensationIsJustified == Spec => []CompensationAfterKnownFailure
<1>1. OutboxInv => CompensationAfterKnownFailure
  BY DEF OutboxInv
<1> QED
  BY <1>1, OutboxInvariant, PTL

\* The invariant gives the settled states their meaning.
LEMMA OutboxSettledMeaning ==
    ASSUME OutboxInv
    PROVE  SettledMeaning
<1> USE DEF OutboxInv
<1> SUFFICES ASSUME NEW s \in Saga PROVE SettledMeaning!(s)
  BY Zenon DEF SettledMeaning
<1>1. ASSUME saga[s] \in Settled, NEW d \in Dispatch, SagaOf(d) = s
      PROVE  dispatch[d] \notin Unresolved
  <2>1. SagaPhase!(s, SeqOf(d))
    BY DispatchIds, Zenon DEF SagaPhase
  <2>2. CASE DirectionOf(d) = "forward"
    BY <1>1, <2>1, <2>2, DispatchIds, Zenon
  <2>3. CASE DirectionOf(d) = "compensation"
    BY <1>1, <2>1, <2>3, DispatchIds, Zenon DEF Settled, Unresolved
  <2> QED
    BY <2>2, <2>3, DispatchIds DEF Direction
<1>2. ASSUME saga[s] = "completed", NEW n \in Sequence
      PROVE  step[s][n] \in {"absent", "succeeded"}
  <2>1. dispatch[Forward(s, n)] \in {"absent", "succeeded"} /\ dispatch[Compensation(s, n)] = "absent"
    BY <1>2, Zenon DEF SagaPhase
  <2> QED
    BY <2>1 DEF StepsAgree
<1>3. ASSUME saga[s] = "compensated"
      PROVE  /\ Succeeded(step, s) = {}
             /\ \E m, n \in Sequence : step[s][n] = "compensated" /\ step[s][m] = "failed"
  <2>1. \A n \in Sequence : step[s][n] # "succeeded"
    BY <1>3, Zenon DEF SagaPhase
  <2>2. PICK n \in Sequence : step[s][n] = "compensated"
    BY <1>3 DEF CompensatedSome
  <2>3. dispatch[Compensation(s, n)] = "succeeded"
    BY <2>2 DEF StepsAgree
  <2>4. PICK m \in Sequence : dispatch[Forward(s, m)] = "failed_permanent"
    BY <2>3 DEF CompensationAfterKnownFailure
  <2>5. step[s][m] = "failed"
    BY <2>4 DEF StepsAgree
  <2> QED
    BY <2>1, <2>2, <2>5 DEF Succeeded
<1>4. ASSUME saga[s] \in {"completed", "failed"}, NEW n \in Sequence
      PROVE  dispatch[Compensation(s, n)] = "absent"
  BY <1>4, Zenon DEF SagaPhase
<1> QED
  BY <1>1, <1>2, <1>3, <1>4, Zenon

\* The states completed, compensated and failed mean what they report.
THEOREM SettledSagasMeanIt == Spec => []SettledMeaning
<1>1. OutboxInv => SettledMeaning
  BY OutboxSettledMeaning
<1> QED
  BY <1>1, OutboxInvariant, PTL

\* No operation of the store, FinalizeStoppedExecution included, rewrites a
\* settled saga.
THEOREM SettledSagasStay == Spec => SettledForever
<1>1. ASSUME OutboxInv, [Next]_vars
      PROVE  [\A s \in Saga : saga[s] \in Settled => saga'[s] = saga[s]]_vars
  <2> SUFFICES ASSUME Next, NEW s \in Saga, saga[s] \in Settled PROVE saga'[s] = saga[s]
    BY <1>1
  <2>0. saga \in [Saga -> SagaState \cup {"absent"}] /\ saga[s] \in TerminalSaga
    BY <1>1 DEF OutboxInv, TypeOK, Settled, TerminalSaga
  <2>1. ASSUME NEW t \in Saga, CreateSaga(t) \/ CompleteSaga(t)
        PROVE  saga'[s] = saga[s]
    BY <2>0, <2>1 DEF CreateSaga, CompleteSaga, TerminalSaga
  <2>2. ASSUME NEW t \in Saga, BlockSagaCompensation(t) \/ FinalizeFailFastSaga(t)
        PROVE  saga'[s] = saga[s]
    <3>1. saga[t] \notin Settled
      BY <2>2 DEF BlockSagaCompensation, FinalizeFailFastSaga, Settled
    <3>2. \E w : saga' = [saga EXCEPT ![t] = w]
      BY <2>2 DEF BlockSagaCompensation, FinalizeFailFastSaga
    <3> QED
      BY <2>0, <3>1, <3>2
  <2>3. ASSUME NEW t \in Saga, NEW n \in Sequence, NEW hasInverse \in BOOLEAN,
               EnqueueStep(t, n, hasInverse)
        PROVE  saga'[s] = saga[s]
    BY <2>3 DEF EnqueueStep
  <2>7. ASSUME NEW D \in SUBSET Running, TimePasses(D)
        PROVE  saga'[s] = saga[s]
    BY <2>7 DEF TimePasses
  <2>4. ASSUME NEW d \in Dispatch,
               \/ ClaimDispatch(d)
               \/ \E a \in 1..MaxClaims : SaveFencingGrants(d, a)
        PROVE  saga'[s] = saga[s]
    BY <2>4 DEF ClaimDispatch, SaveFencingGrants
  <2>5. ASSUME NEW d \in Dispatch, NEW a \in 1..MaxClaims, NEW o \in Outcome, NEW x \in BOOLEAN,
               CompleteDispatch(d, a, o, x)
        PROVE  saga'[s] = saga[s]
    BY <1>1, <2>0, <2>5, CompletionSaga
  <2>6. ASSUME NEW e \in Execution, FinalizeStoppedExecution(e)
        PROVE  saga'[s] = saga[s]
    BY <1>1, <2>6, FinalizeStoppedExecutionInv, Zenon
  <2> QED
    BY <2>1, <2>2, <2>3, <2>4, <2>5, <2>6, <2>7, Zenon DEF Next
<1> QED
  BY <1>1, OutboxInvariant, PTL DEF Spec, SettledForever

\* A completion cancels no dispatch.
LEMMA CompletionCancelsNone ==
    ASSUME OutboxInv, NEW d \in Dispatch, NEW a, NEW o, NEW x,
           CompleteDispatch(d, a, o, x),
           NEW e \in Dispatch, dispatch'[e] = "canceled"
    PROVE  dispatch[e] = "canceled"
<1>1. dispatch \in [Dispatch -> DispatchState \cup {"absent"}]
  BY DEF OutboxInv, TypeOK
<1>2. ASSUME NEW v, v # "canceled", NEW n \in Sequence,
             enqueueCompensation(SagaOf(d), n, [dispatch EXCEPT ![d] = v])
      PROVE  dispatch[e] = "canceled"
  <2>1. Compensation(SagaOf(d), n) \in Dispatch
    BY DispatchIds
  <2> QED
    BY <1>1, <1>2, <2>1 DEF enqueueCompensation
<1>3. \/ BlockUnknown(d) \/ ForwardSucceeds(d) \/ CompensationSucceeds(d) \/ Retry(d)
      \/ ForwardFails(d) \/ CompensationFails(d) \/ Block(d, "blocked_fence", "blocked_fence")
  BY DEF CompleteDispatch, applyCompletion
<1>4. CASE BlockUnknown(d) \/ CompensationFails(d) \/ Block(d, "blocked_fence", "blocked_fence")
  BY <1>1, <1>4 DEF BlockUnknown, CompensationFails, Block
<1>5. CASE ForwardSucceeds(d) \/ Retry(d)
  BY <1>1, <1>5 DEF ForwardSucceeds, Retry
<1>6. CASE ForwardFails(d)
  <2>1. CASE dispatch' = [dispatch EXCEPT ![d] = "failed_permanent"]
    BY <1>1, <2>1
  <2> QED
    BY <1>2, <1>6, <2>1 DEF ForwardFails, startCompensation, Uncompensable
<1>7. CASE CompensationSucceeds(d)
  <2>1. CASE dispatch' = [dispatch EXCEPT ![d] = "succeeded"]
    BY <1>1, <2>1
  <2> QED
    BY <1>2, <1>7, <2>1 DEF CompensationSucceeds, enqueueNextCompensation, Uncompensable
<1> QED
  BY <1>3, <1>4, <1>5, <1>6, <1>7, Zenon

\* Only FinalizeStoppedExecution cancels forward work, and it ends every saga
\* of the execution in the same step.
THEOREM ExecutionsStopTogether == Spec => ExecutionStopsTogether
<1> DEFINE Cancels(d) == /\ DirectionOf(d) = "forward"
                         /\ dispatch[d] # "canceled" /\ dispatch'[d] = "canceled"
<1>1. ASSUME OutboxInv, Next, NEW d \in Dispatch, NEW s \in Saga, Cancels(d),
             ExecutionOf[s] = ExecutionOf[SagaOf(d)]
      PROVE  saga'[s] \in TerminalSaga \cup {"absent"}
  <2>0. dispatch \in [Dispatch -> DispatchState \cup {"absent"}]
    BY <1>1 DEF OutboxInv, TypeOK
  <2>1. ASSUME NEW t \in Saga, CreateSaga(t) \/ CompleteSaga(t) \/ FinalizeFailFastSaga(t)
        PROVE  FALSE
    BY <1>1, <2>1 DEF CreateSaga, CompleteSaga, FinalizeFailFastSaga
  <2>2. ASSUME NEW t \in Saga, NEW n \in Sequence, NEW hasInverse \in BOOLEAN,
               EnqueueStep(t, n, hasInverse)
        PROVE  FALSE
    BY <1>1, <2>0, <2>2 DEF EnqueueStep
  <2>3. ASSUME NEW t \in Saga, BlockSagaCompensation(t)
        PROVE  FALSE
    BY <1>1, <2>3, Zenon DEF BlockSagaCompensation, CloseDispatches
  <2>7. ASSUME NEW D \in SUBSET Running, TimePasses(D)
        PROVE  FALSE
    BY <1>1, <2>7, Zenon DEF TimePasses
  <2>4. ASSUME NEW e \in Dispatch,
               \/ ClaimDispatch(e)
               \/ \E a \in 1..MaxClaims : SaveFencingGrants(e, a)
        PROVE  FALSE
    BY <1>1, <2>0, <2>4 DEF ClaimDispatch, SaveFencingGrants
  <2>5. ASSUME NEW e \in Dispatch, NEW a \in 1..MaxClaims, NEW o \in Outcome, NEW x \in BOOLEAN,
               CompleteDispatch(e, a, o, x)
        PROVE  FALSE
    BY <1>1, <2>5, CompletionCancelsNone, Zenon
  <2>6. ASSUME NEW e \in Execution, FinalizeStoppedExecution(e)
        PROVE  saga'[s] \in TerminalSaga \cup {"absent"}
    <3> DEFINE stopped == {t \in Saga : ExecutionOf[t] = e /\ saga[t] # "absent"}
    <3>1. /\ CloseDispatches({f \in Dispatch : SagaOf(f) \in stopped})
          /\ saga' = [t \in Saga |-> IF t \in stopped THEN FinalizedSaga(t) ELSE saga[t]]
      BY <2>6, Zenon DEF FinalizeStoppedExecution
    <3>2. SagaOf(d) \in stopped
      BY <1>1, <3>1, Zenon DEF CloseDispatches
    <3>3. CASE saga[s] = "absent"
      BY <3>1, <3>3, Zenon
    <3>4. CASE saga[s] # "absent"
      <4>1. s \in stopped
        BY <1>1, <3>2, <3>4, Zenon
      <4>2. FinalizedSaga(s) \in TerminalSaga
        BY DEF FinalizedSaga, TerminalSaga
      <4> QED
        BY <3>1, <4>1, <4>2, Zenon
    <3> QED
      BY <3>3, <3>4, Zenon
  <2> QED
    BY <1>1, <2>1, <2>2, <2>3, <2>4, <2>5, <2>6, <2>7, Zenon DEF Next
<1>2. ASSUME OutboxInv, [Next]_vars
      PROVE  [\A d \in Dispatch, s \in Saga :
                 /\ DirectionOf(d) = "forward"
                 /\ dispatch[d] # "canceled" /\ dispatch'[d] = "canceled"
                 /\ ExecutionOf[s] = ExecutionOf[SagaOf(d)]
                 => saga'[s] \in TerminalSaga \cup {"absent"}]_vars
  BY <1>1, <1>2
<1> QED
  BY <1>2, OutboxInvariant, PTL DEF Spec, ExecutionStopsTogether
=============================================================================
