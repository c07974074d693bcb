---------------------- MODULE OutboxCompletionProofs ----------------------
(***************************************************************************)
(* CompleteDispatch preserves OutboxInv: one lemma for each way an attempt *)
(* can end, with the compensation it starts or continues.                  *)
(***************************************************************************)
EXTENDS SagaOutbox, TLAPS

\* A dispatch is determined by its saga, sequence and direction.
LEMMA DispatchIds ==
    /\ \A d \in Dispatch : /\ SagaOf(d) \in Saga
                           /\ SeqOf(d) \in Sequence
                           /\ DirectionOf(d) \in Direction
                           /\ DirectionOf(d) = "forward" => d = Forward(SagaOf(d), SeqOf(d))
                           /\ DirectionOf(d) = "compensation" => d = Compensation(SagaOf(d), SeqOf(d))
    /\ \A s \in Saga, n \in Sequence :
          /\ Forward(s, n) \in Dispatch
          /\ SagaOf(Forward(s, n)) = s
          /\ SeqOf(Forward(s, n)) = n
          /\ DirectionOf(Forward(s, n)) = "forward"
          /\ Compensation(s, n) \in Dispatch
          /\ SagaOf(Compensation(s, n)) = s
          /\ SeqOf(Compensation(s, n)) = n
          /\ DirectionOf(Compensation(s, n)) = "compensation"
BY DEF Dispatch, SagaOf, SeqOf, DirectionOf, Forward, Compensation, Direction

\* Appending the attempt row of a claim.
LEMMA AppendOpen ==
    ASSUME NEW q \in Seq(AttemptOutcome)
    PROVE  /\ Append(q, "open") \in Seq(AttemptOutcome)
           /\ Append(q, "open") # <<>>
           /\ Len(Append(q, "open")) = Len(q) + 1
           /\ \A i \in 1..Len(q) : Append(q, "open")[i] = q[i]
           /\ Append(q, "open")[Len(q) + 1] = "open"
BY DEF AttemptOutcome

\* Recording the outcome of the current attempt.
LEMMA RecordOutcome ==
    ASSUME NEW q \in Seq(AttemptOutcome), NEW o \in Outcome, NEW a,
           q # <<>>, a = Len(q)
    PROVE  /\ a \in 1..Len(q)
           /\ [q EXCEPT ![a] = o] \in Seq(AttemptOutcome)
           /\ [q EXCEPT ![a] = o] # <<>>
           /\ Len([q EXCEPT ![a] = o]) = Len(q)
           /\ [q EXCEPT ![a] = o][a] = o
           /\ \A i \in 1..Len(q) : i # a => [q EXCEPT ![a] = o][i] = q[i]
<1>1. a \in 1..Len(q)
  <2>1. Len(q) \in Nat /\ (Len(q) = 0 => q = <<>>)
    OBVIOUS
  <2> QED
    BY <2>1
<1>2. o \in AttemptOutcome
  BY DEF AttemptOutcome
<1>3. /\ [q EXCEPT ![a] = o] \in Seq(AttemptOutcome)
      /\ Len([q EXCEPT ![a] = o]) = Len(q)
  BY <1>1, <1>2
<1>4. /\ [q EXCEPT ![a] = o][a] = o
      /\ \A i \in 1..Len(q) : i # a => [q EXCEPT ![a] = o][i] = q[i]
  BY <1>1
<1>5. [q EXCEPT ![a] = o] # <<>>
  BY <1>1, <1>3
<1> QED
  BY <1>1, <1>3, <1>4, <1>5

\* The sequence numbers are natural numbers.
LEMMA SequenceNat == Sequence \subseteq Nat \ {0}
BY OutboxAssumption DEF Sequence

\* What SagaPhase says of one step, before and after a step that leaves it alone.
LEMMA PhaseAt ==
    ASSUME OutboxInv, NEW s \in Saga, NEW n \in Sequence
    PROVE  SagaPhase!(s, n)
BY DEF OutboxInv, SagaPhase

\* A step whose rows do not change keeps its phase.
LEMMA PhaseKept ==
    ASSUME OutboxInv, NEW s \in Saga, NEW n \in Sequence,
           saga'[s] = saga[s], step'[s][n] = step[s][n],
           dispatch'[Forward(s, n)] = dispatch[Forward(s, n)],
           dispatch'[Compensation(s, n)] = dispatch[Compensation(s, n)]
    PROVE  SagaPhase!(s, n)'
<1>1. SagaPhase!(s, n)
  BY PhaseAt
<1> QED
  BY <1>1

-----------------------------------------------------------------------------
\* What is known of a saga while one of its dispatches is in flight.
LEMMA InFlightForward ==
    ASSUME OutboxInv, NEW d \in Dispatch, dispatch[d] = "in_flight",
           DirectionOf(d) = "forward", NEW s, NEW n, s = SagaOf(d), n = SeqOf(d)
    PROVE  /\ saga[s] = "running"
           /\ step[s][n] = "pending"
           /\ \A m \in Sequence : /\ m < n => dispatch[Forward(s, m)] = "succeeded"
                                  /\ m > n => dispatch[Forward(s, m)] \in {"absent", "queued"}
                                  /\ dispatch[Compensation(s, m)] = "absent"
<1> USE DispatchIds DEF OutboxInv
<1>1. d = Forward(s, n) /\ s \in Saga /\ n \in Sequence /\ attempts[d] # <<>>
  BY DEF AttemptHistory, Unresolved
<1>2. saga[s] = "running"
  <2>1. saga[s] \in SagaState \cup {"absent"}
    BY <1>1 DEF TypeOK
  <2>2. saga[s] \notin TerminalSaga
    BY <1>1 DEF TerminalQuiescent
  <2>3. saga[s] \notin {"absent", "compensating"}
    BY <1>1 DEF SagaPhase
  <2> QED
    BY <2>1, <2>2, <2>3 DEF SagaState
<1>3. step[s][n] = "pending"
  <2>1. step[s][n] \in StepState \cup {"absent"}
    BY <1>1 DEF TypeOK
  <2>2. step[s][n] \notin {"absent", "succeeded", "failed", "compensated"}
    BY <1>1 DEF StepsAgree
  <2> QED
    BY <2>1, <2>2 DEF StepState
<1>4. ASSUME NEW m \in Sequence, m < n PROVE dispatch[Forward(s, m)] = "succeeded"
  BY <1>1, <1>4 DEF ForwardOrder
<1>5. ASSUME NEW m \in Sequence, m > n PROVE dispatch[Forward(s, m)] \in {"absent", "queued"}
  <2>1. attempts[Forward(s, m)] = <<>>
    BY <1>1, <1>5, SequenceNat DEF ForwardOrder
  <2>2. SagaPhase!(s, m)
    BY <1>1, PhaseAt
  <2>3. dispatch[Forward(s, m)] \notin Unresolved \cup {"succeeded", "failed_permanent"}
    BY <1>1, <2>1 DEF AttemptHistory
  <2> QED
    BY <1>2, <2>2, <2>3 DEF Unresolved
<1>6. ASSUME NEW m \in Sequence PROVE dispatch[Compensation(s, m)] = "absent"
  BY <1>1, <1>2 DEF SagaPhase
<1> QED
  BY <1>2, <1>3, <1>4, <1>5, <1>6

\* What the invariant says while a compensation is in flight.
LEMMA InFlightCompensation ==
    ASSUME OutboxInv, NEW d \in Dispatch, dispatch[d] = "in_flight",
           DirectionOf(d) = "compensation", NEW s, NEW n, s = SagaOf(d), n = SeqOf(d)
    PROVE  /\ saga[s] = "compensating"
           /\ inverse[s][n]
           /\ step[s][n] = "succeeded"
           /\ \A m \in Sequence :
                 /\ dispatch[Forward(s, m)] \in {"absent", "queued", "succeeded", "failed_permanent"}
                 /\ m # n => dispatch[Compensation(s, m)] \in {"absent", "succeeded"}
                 /\ m > n /\ inverse[s][m] => step[s][m] # "succeeded"
           /\ \E m \in Sequence : m > n /\ dispatch[Forward(s, m)] = "failed_permanent"
<1> USE DispatchIds DEF OutboxInv
<1>1. d = Compensation(s, n) /\ s \in Saga /\ n \in Sequence
  OBVIOUS
<1>2. saga[s] = "compensating"
  <2>1. saga[s] \in SagaState \cup {"absent"}
    BY <1>1 DEF TypeOK
  <2>2. saga[s] \notin TerminalSaga
    BY <1>1 DEF TerminalQuiescent
  <2>3. saga[s] \notin {"absent", "running"}
    BY <1>1 DEF SagaPhase
  <2> QED
    BY <2>1, <2>2, <2>3 DEF SagaState
<1>3. \A m \in Sequence :
         dispatch[Compensation(s, m)] \notin {"absent", "succeeded"} =>
             inverse[s][m] /\ step[s][m] = "succeeded"
  BY <1>1 DEF StepsAgree, TypeOK
<1>4. ASSUME NEW m \in Sequence, m # n,
             dispatch[Compensation(s, m)] \notin {"absent", "succeeded"}
      PROVE  FALSE
  <2>1. m < n \/ n < m
    BY <1>1, <1>4, SequenceNat
  <2> QED
    BY <1>1, <1>3, <1>4, <2>1 DEF CompensationOrder
<1>5. \A m \in Sequence : m > n /\ inverse[s][m] => step[s][m] # "succeeded"
  BY <1>1, SequenceNat DEF CompensationOrder
<1>6. \E m \in Sequence : m > n /\ dispatch[Forward(s, m)] = "failed_permanent"
  BY <1>1 DEF CompensationAfterKnownFailure
<1> QED
  BY <1>1, <1>2, <1>3, <1>4, <1>5, <1>6 DEF SagaPhase

\* The attempt that is not completed yet, whatever became of its lease.
CurrentAttempt(d, a) == dispatch[d] = "in_flight" /\ a = Len(attempts[d])

\* The attempt table after a completion: what AttemptHistory, ForwardOrder and
\* NoMaskedUnknown need of the state the dispatch moves to.
LEMMA RecordedAttempt ==
    ASSUME OutboxInv, NEW d \in Dispatch, NEW a, NEW o \in Outcome,
           CurrentAttempt(d, a),
           attempts' = [attempts EXCEPT ![d][a] = o],
           dispatch'[d] \in {"succeeded", "retry_wait", "failed_permanent",
                             "blocked_unknown", "blocked_fence"},
           \A e \in Dispatch : e # d => \/ dispatch'[e] = dispatch[e]
                                        \/ /\ dispatch[e] = "absent"
                                           /\ dispatch'[e] = "queued"
                                           /\ DirectionOf(e) = "compensation",
           dispatch'[d] = "retry_wait" => o \in {"retryable", "unknown"},
           dispatch'[d] = "failed_permanent" => /\ o \in {"retryable", "permanent"}
                                                /\ priorAttemptsKnownNotCommitted(d)
    PROVE  /\ attempts' \in [Dispatch -> Seq(AttemptOutcome)]
           /\ AttemptHistory' /\ ForwardOrder' /\ NoMaskedUnknown'
<1> USE DispatchIds DEF OutboxInv
<1> DEFINE q == attempts[d]
           r == [q EXCEPT ![a] = o]
<1>1. dispatch[d] = "in_flight" /\ a = Len(q) /\ q \in Seq(AttemptOutcome) /\ q # <<>>
  BY DEF CurrentAttempt, TypeOK, AttemptHistory, Unresolved
<1>2. /\ a \in 1..Len(q)
      /\ r \in Seq(AttemptOutcome)
      /\ r # <<>>
      /\ Len(r) = Len(q)
      /\ r[a] = o
      /\ \A i \in 1..Len(q) : i # a => r[i] = q[i]
  BY <1>1, RecordOutcome
<1>3. \A e \in Dispatch : attempts'[e] = IF e = d THEN r ELSE attempts[e]
  BY DEF TypeOK
<1>4. attempts' \in [Dispatch -> Seq(AttemptOutcome)]
  BY <1>2 DEF TypeOK
<1>5. AttemptHistory'
  <2> SUFFICES ASSUME NEW e \in Dispatch
               PROVE  /\ dispatch'[e] \in {"absent", "queued"} => attempts'[e] = <<>>
                      /\ dispatch'[e] \in {"succeeded", "failed_permanent"} \cup Unresolved
                            => attempts'[e] # <<>>
                      /\ dispatch'[e] \in {"in_flight", "retry_wait"} =>
                            \A i \in 1..Len(attempts'[e]) :
                                attempts'[e][i] \in {"open", "retryable", "unknown"}
    BY DEF AttemptHistory
  <2>1. CASE e # d
    BY <2>1, <1>3 DEF AttemptHistory, Unresolved
  <2>2. CASE e = d
    <3>1. \A i \in 1..Len(q) : q[i] \in {"open", "retryable", "unknown"}
      BY <1>1 DEF AttemptHistory
    <3>2. dispatch'[d] = "retry_wait" =>
              \A i \in 1..Len(r) : r[i] \in {"open", "retryable", "unknown"}
      BY <1>2, <3>1
    <3> QED
      BY <2>2, <1>2, <1>3, <3>2
  <2> QED
    BY <2>1, <2>2
<1>6. ForwardOrder'
  <2> SUFFICES ASSUME NEW s \in Saga, NEW m \in Sequence, NEW n \in Sequence, m < n
               PROVE  /\ dispatch'[Forward(s, n)] # "absent" => dispatch'[Forward(s, m)] # "absent"
                      /\ attempts'[Forward(s, n)] # <<>> => dispatch'[Forward(s, m)] = "succeeded"
    BY DEF ForwardOrder
  <2>1. \A e \in Dispatch : DirectionOf(e) = "forward" /\ e # d => dispatch'[e] = dispatch[e]
    OBVIOUS
  <2>2. \A e \in Dispatch : attempts'[e] # <<>> => attempts[e] # <<>>
    BY <1>1, <1>3
  <2> QED
    BY <1>1, <2>1, <2>2 DEF ForwardOrder
<1>7. NoMaskedUnknown'
  <2> SUFFICES ASSUME NEW e \in Dispatch, dispatch'[e] \in {"failed_permanent", "canceled"}
               PROVE  \A i \in 1..Len(attempts'[e]) : attempts'[e][i] \in {"retryable", "permanent"}
    BY DEF NoMaskedUnknown
  <2>1. CASE e # d
    BY <2>1, <1>3 DEF NoMaskedUnknown
  <2>2. CASE e = d
    <3>1. \A i \in 1..Len(q) : i # a => i \in 1..(Len(q) - 1)
      BY <1>1
    <3>2. \A i \in 1..Len(r) : r[i] \in {"retryable", "permanent"}
      BY <2>2, <1>2, <3>1 DEF priorAttemptsKnownNotCommitted
    <3> QED
      BY <2>2, <1>3, <3>2
  <2> QED
    BY <2>1, <2>2
<1> QED
  BY <1>4, <1>5, <1>6, <1>7

\* A completion that blocks the dispatch and its saga.
LEMMA BlockInv ==
    ASSUME OutboxInv, NEW d \in Dispatch, NEW a, NEW o \in Outcome,
           CurrentAttempt(d, a),
           attempts' = [attempts EXCEPT ![d][a] = o],
           UNCHANGED <<inverse, granted>>,
           NEW v, NEW w, Block(d, v, w),
           \/ v = "blocked_unknown" /\ w = "blocked_unknown" /\ DirectionOf(d) = "forward"
           \/ v = "blocked_unknown" /\ w = "blocked_compensation" /\ DirectionOf(d) = "compensation"
           \/ v = "blocked_fence" /\ w = "blocked_fence"
           \/ /\ v = "failed_permanent" /\ w = "blocked_compensation"
              /\ DirectionOf(d) = "compensation"
              /\ o \in {"retryable", "permanent"} /\ priorAttemptsKnownNotCommitted(d)
    PROVE  OutboxInv'
<1> USE DispatchIds DEF OutboxInv
<1> DEFINE s == SagaOf(d)
           n == SeqOf(d)
<1>1. dispatch[d] = "in_flight" /\ s \in Saga /\ n \in Sequence
  BY DEF CurrentAttempt
<1>2. /\ \A e \in Dispatch : dispatch'[e] = IF e = d THEN v ELSE dispatch[e]
      /\ \A t \in Saga : saga'[t] = IF t = s THEN w ELSE saga[t]
      /\ step' = step /\ inverse' = inverse
  BY DEF Block, TypeOK
<1>3. /\ attempts' \in [Dispatch -> Seq(AttemptOutcome)]
      /\ AttemptHistory' /\ ForwardOrder' /\ NoMaskedUnknown'
  BY <1>2, RecordedAttempt, Zenon
<1>4. TypeOK'
  BY <1>3 DEF TypeOK, Block, SagaState, TerminalSaga, DispatchState, Timer
<1>5. CASE DirectionOf(d) = "forward"
  <2>1. /\ d = Forward(s, n)
        /\ step[s][n] = "pending"
        /\ \A m \in Sequence : /\ m < n => dispatch[Forward(s, m)] = "succeeded"
                               /\ m > n => dispatch[Forward(s, m)] \in {"absent", "queued"}
                               /\ dispatch[Compensation(s, m)] = "absent"
    BY <1>1, <1>5, InFlightForward
  <2>2. v \in {"blocked_unknown", "blocked_fence"} /\ w \in {"blocked_unknown", "blocked_fence"}
    BY <1>5
  <2>3. StepsAgree'
    BY <1>1, <1>2, <2>1, <2>2 DEF StepsAgree
  <2>4. TerminalQuiescent'
    <3> SUFFICES ASSUME NEW e \in Dispatch, saga'[SagaOf(e)] \in TerminalSaga
                 PROVE  dispatch'[e] \notin {"in_flight", "retry_wait"}
      BY DEF TerminalQuiescent
    <3>1. CASE SagaOf(e) # s
      BY <3>1, <1>2 DEF TerminalQuiescent
    <3>2. CASE SagaOf(e) = s /\ DirectionOf(e) = "forward"
      <4>1. SeqOf(e) < n \/ SeqOf(e) > n \/ e = d
        BY <3>2, <1>1, <2>1, SequenceNat
      <4> QED
        BY <4>1, <3>2, <1>2, <2>1, <2>2
    <3>3. CASE SagaOf(e) = s /\ DirectionOf(e) = "compensation"
      BY <3>3, <1>2, <2>1, <2>2
    <3> QED
      BY <3>1, <3>2, <3>3 DEF Direction
  <2>5. SagaPhase'
    BY <1>1, <1>2, <2>2 DEF SagaPhase, Settled
  <2>6. CompensationOrder' /\ CompensationAfterKnownFailure'
    BY <1>1, <1>2, <2>1, <2>2 DEF CompensationOrder, CompensationAfterKnownFailure
  <2>7. CompensatedSome'
    BY <1>2, <2>2 DEF CompensatedSome
  <2> QED
    BY <1>3, <1>4, <2>3, <2>4, <2>5, <2>6, <2>7
<1>6. CASE DirectionOf(d) = "compensation"
  <2>1. /\ d = Compensation(s, n)
        /\ step[s][n] = "succeeded"
        /\ \A m \in Sequence :
              /\ dispatch[Forward(s, m)] \in {"absent", "queued", "succeeded", "failed_permanent"}
              /\ m # n => dispatch[Compensation(s, m)] \in {"absent", "succeeded"}
    BY <1>1, <1>6, InFlightCompensation
  <2>2. /\ v \in {"blocked_unknown", "blocked_fence", "failed_permanent"}
        /\ w \in {"blocked_fence", "blocked_compensation"}
    BY <1>6
  <2>3. StepsAgree'
    BY <1>1, <1>2, <2>1, <2>2 DEF StepsAgree
  <2>4. TerminalQuiescent'
    <3> SUFFICES ASSUME NEW e \in Dispatch, saga'[SagaOf(e)] \in TerminalSaga
                 PROVE  dispatch'[e] \notin {"in_flight", "retry_wait"}
      BY DEF TerminalQuiescent
    <3>1. CASE SagaOf(e) # s
      BY <3>1, <1>2 DEF TerminalQuiescent
    <3>2. CASE SagaOf(e) = s
      BY <3>2, <1>2, <2>1, <2>2 DEF Direction
    <3> QED
      BY <3>1, <3>2
  <2>5. SagaPhase'
    BY <1>1, <1>2, <2>1, <2>2 DEF SagaPhase, Settled, Unresolved
  <2>6. CompensationOrder' /\ CompensationAfterKnownFailure'
    BY <1>1, <1>2, <2>1, <2>2 DEF CompensationOrder, CompensationAfterKnownFailure
  <2>7. CompensatedSome'
    BY <1>2, <2>2 DEF CompensatedSome
  <2> QED
    BY <1>3, <1>4, <2>3, <2>4, <2>5, <2>6, <2>7
<1> QED
  BY <1>5, <1>6 DEF Direction

\* A completion that schedules a retry.
LEMMA RetryInv ==
    ASSUME OutboxInv, NEW d \in Dispatch, NEW a, NEW o \in {"retryable", "unknown"},
           CurrentAttempt(d, a),
           attempts' = [attempts EXCEPT ![d][a] = o],
           UNCHANGED <<inverse, granted>>,
           Retry(d)
    PROVE  OutboxInv'
<1> USE DispatchIds DEF OutboxInv
<1>1. dispatch[d] = "in_flight" /\ o \in Outcome
  BY DEF CurrentAttempt, Outcome
<1>2. /\ \A e \in Dispatch : dispatch'[e] = IF e = d THEN "retry_wait" ELSE dispatch[e]
      /\ saga' = saga /\ step' = step /\ inverse' = inverse
  BY DEF Retry, TypeOK
<1>3. /\ attempts' \in [Dispatch -> Seq(AttemptOutcome)]
      /\ AttemptHistory' /\ ForwardOrder' /\ NoMaskedUnknown'
  BY <1>1, <1>2, RecordedAttempt, Zenon
<1>4. TypeOK'
  BY <1>3 DEF TypeOK, Retry, DispatchState, Timer
<1>5. StepsAgree'
  BY <1>1, <1>2 DEF StepsAgree
<1>6. SagaPhase'
  BY <1>1, <1>2 DEF SagaPhase, Settled, Unresolved
<1>7. TerminalQuiescent' /\ CompensatedSome'
  BY <1>1, <1>2 DEF TerminalQuiescent, CompensatedSome
<1>8. CompensationOrder' /\ CompensationAfterKnownFailure'
  BY <1>1, <1>2 DEF CompensationOrder, CompensationAfterKnownFailure, Unresolved
<1> QED
  BY <1>3, <1>4, <1>5, <1>6, <1>7, <1>8

\* A forward dispatch that succeeds.
LEMMA ForwardSucceedsInv ==
    ASSUME OutboxInv, NEW d \in Dispatch, NEW a,
           CurrentAttempt(d, a),
           attempts' = [attempts EXCEPT ![d][a] = "success"],
           UNCHANGED <<inverse, granted>>,
           ForwardSucceeds(d)
    PROVE  OutboxInv'
<1> USE DispatchIds DEF OutboxInv
<1> DEFINE s == SagaOf(d)
           n == SeqOf(d)
<1>1. dispatch[d] = "in_flight" /\ s \in Saga /\ n \in Sequence /\ d = Forward(s, n)
  BY DEF CurrentAttempt, ForwardSucceeds
<1>2. /\ \A e \in Dispatch : dispatch'[e] = IF e = d THEN "succeeded" ELSE dispatch[e]
      /\ saga' = saga /\ inverse' = inverse
      /\ \A t \in Saga, m \in Sequence :
            step'[t][m] = IF t = s /\ m = n THEN "succeeded" ELSE step[t][m]
  BY DEF ForwardSucceeds, TypeOK
<1>3. /\ attempts' \in [Dispatch -> Seq(AttemptOutcome)]
      /\ AttemptHistory' /\ ForwardOrder' /\ NoMaskedUnknown'
  BY <1>2, RecordedAttempt, Zenon DEF Outcome
<1>4. TypeOK'
  BY <1>3 DEF TypeOK, ForwardSucceeds, DispatchState, StepState, Timer
<1>5. /\ saga[s] = "running"
      /\ \A m \in Sequence : dispatch[Compensation(s, m)] = "absent"
  BY <1>1, InFlightForward
<1>6. StepsAgree'
  BY <1>1, <1>2, <1>5 DEF StepsAgree
<1>7. SagaPhase'
  BY <1>1, <1>2, <1>5 DEF SagaPhase, Settled
<1>8. TerminalQuiescent' /\ CompensatedSome'
  BY <1>1, <1>2, <1>5 DEF TerminalQuiescent, CompensatedSome
<1>9. CompensationOrder' /\ CompensationAfterKnownFailure'
  BY <1>1, <1>2, <1>5 DEF CompensationOrder, CompensationAfterKnownFailure, Unresolved
<1> QED
  BY <1>3, <1>4, <1>6, <1>7, <1>8, <1>9

\* A forward dispatch that fails for certain, and the compensation it starts.
LEMMA ForwardFailsInv ==
    ASSUME OutboxInv, NEW d \in Dispatch, NEW a, NEW o \in {"retryable", "permanent"},
           CurrentAttempt(d, a),
           attempts' = [attempts EXCEPT ![d][a] = o],
           UNCHANGED <<inverse, granted>>,
           priorAttemptsKnownNotCommitted(d),
           ForwardFails(d)
    PROVE  OutboxInv'
<1> USE DispatchIds DEF OutboxInv
<1> DEFINE s == SagaOf(d)
           n == SeqOf(d)
           failed == [dispatch EXCEPT ![d] = "failed_permanent"]
<1>1. /\ dispatch[d] = "in_flight" /\ o \in Outcome
      /\ s \in Saga /\ n \in Sequence /\ d = Forward(s, n)
  BY DEF CurrentAttempt, ForwardFails, Outcome
<1>2. /\ saga[s] = "running"
      /\ step[s][n] = "pending"
      /\ \A m \in Sequence : /\ m < n => dispatch[Forward(s, m)] = "succeeded"
                             /\ m > n => dispatch[Forward(s, m)] \in {"absent", "queued"}
                             /\ dispatch[Compensation(s, m)] = "absent"
  BY <1>1, InFlightForward
<1>3. /\ step' \in [Saga -> [Sequence -> StepState \cup {"absent"}]]
      /\ \A t \in Saga, m \in Sequence :
            step'[t][m] = IF t = s /\ m = n THEN "failed" ELSE step[t][m]
      /\ timer' \in [Dispatch -> Timer]
      /\ inverse' = inverse /\ granted' = granted
  BY <1>1 DEF ForwardFails, TypeOK, StepState, Timer
<1>4. \A m \in Sequence : /\ m # n => m < n \/ m > n
                          /\ step[s][m] = "succeeded" => m < n
  <2> SUFFICES ASSUME NEW m \in Sequence
               PROVE  (m # n => m < n \/ m > n) /\ (step[s][m] = "succeeded" => m < n)
    OBVIOUS
  <2>1. m # n => m < n \/ m > n
    BY <1>1, SequenceNat
  <2>2. step[s][m] = "succeeded" => dispatch[Forward(s, m)] = "succeeded"
    BY <1>1 DEF StepsAgree
  <2> QED
    BY <1>2, <2>1, <2>2
<1>5. startCompensation(s, step', failed)
  BY DEF ForwardFails
<1>6. failed \in [Dispatch -> DispatchState \cup {"absent"}]
      /\ \A e \in Dispatch : failed[e] = IF e = d THEN "failed_permanent" ELSE dispatch[e]
  BY DEF TypeOK, DispatchState
\* Either way the saga leaves "running" and at most one inverse is queued.
<1> DEFINE Started(c) ==
         /\ c # 0 => /\ step[s][c] = "succeeded" /\ inverse[s][c]
                     /\ \A m \in Sequence : step[s][m] = "succeeded" /\ inverse[s][m] => m <= c
                     /\ saga' = [saga EXCEPT ![s] = "compensating"]
         /\ c = 0 => \E w \in {"failed", "blocked_compensation"} :
                        saga' = [saga EXCEPT ![s] = w]
         /\ dispatch' \in [Dispatch -> DispatchState \cup {"absent"}]
         /\ \A e \in Dispatch : dispatch'[e] = IF e = d THEN "failed_permanent"
                                               ELSE IF c # 0 /\ e = Compensation(s, c) THEN "queued"
                                               ELSE dispatch[e]
<1>7. \E c \in Sequence \cup {0} : Started(c)
  <2>1. CASE Uncompensable(s, step', failed, "failed")
    <3>1. dispatch' = failed
          /\ \E w \in {"failed", "blocked_compensation"} : saga' = [saga EXCEPT ![s] = w]
      BY <2>1, Zenon DEF Uncompensable
    <3> QED
      BY <3>1, <1>6, Zenon
  <2>2. ASSUME NEW c \in Sequence,
               IsLast(c, Candidates(step', s)),
               saga' = [saga EXCEPT ![s] = "compensating"],
               enqueueCompensation(s, c, failed)
        PROVE  Started(c)
    <3>1. /\ step[s][c] = "succeeded" /\ inverse[s][c]
          /\ \A m \in Sequence : step[s][m] = "succeeded" /\ inverse[s][m] => m <= c
      BY <2>2, <1>1, <1>2, <1>3, Zenon DEF IsLast, Candidates, Succeeded
    <3>2. failed[Compensation(s, c)] = "absent"
      BY <1>1, <1>2, <1>6
    <3>3. dispatch' = [failed EXCEPT ![Compensation(s, c)] = "queued"]
      BY <2>2, <3>2 DEF enqueueCompensation
    <3>4. /\ dispatch' \in [Dispatch -> DispatchState \cup {"absent"}]
          /\ \A e \in Dispatch : dispatch'[e] = IF e = d THEN "failed_permanent"
                                                ELSE IF e = Compensation(s, c) THEN "queued"
                                                ELSE dispatch[e]
      BY <1>1, <1>6, <3>3 DEF DispatchState
    <3>5. c # 0
      BY SequenceNat
    <3> QED
      BY <2>2, <3>1, <3>4, <3>5
  <2> QED
    BY <1>5, <2>1, <2>2, Zenon DEF startCompensation
<1>8. PICK c \in Sequence \cup {0} : Started(c)
  BY <1>7
<1>9. /\ saga' \in [Saga -> SagaState \cup {"absent"}]
      /\ \A t \in Saga : t # s => saga'[t] = saga[t]
      /\ saga'[s] \in {"compensating", "failed", "blocked_compensation"}
      /\ c # 0 => saga'[s] = "compensating"
      /\ c = 0 => saga'[s] \in {"failed", "blocked_compensation"}
  <2>1. PICK w \in {"compensating", "failed", "blocked_compensation"} :
           /\ saga' = [saga EXCEPT ![s] = w]
           /\ c # 0 => w = "compensating"
           /\ c = 0 => w \in {"failed", "blocked_compensation"}
    BY <1>8
  <2>2. saga \in [Saga -> SagaState \cup {"absent"}] /\ w \in SagaState
    BY DEF TypeOK, SagaState, TerminalSaga
  <2> QED
    BY <1>1, <2>1, <2>2
<1>10. /\ attempts' \in [Dispatch -> Seq(AttemptOutcome)]
       /\ AttemptHistory' /\ ForwardOrder' /\ NoMaskedUnknown'
  <2>1. \A e \in Dispatch : e # d => \/ dispatch'[e] = dispatch[e]
                                     \/ /\ dispatch[e] = "absent"
                                        /\ dispatch'[e] = "queued"
                                        /\ DirectionOf(e) = "compensation"
    BY <1>1, <1>2, <1>8
  <2>2. dispatch'[d] = "failed_permanent"
    BY <1>8
  <2> QED
    BY <1>1, <2>1, <2>2, RecordedAttempt, Zenon
<1>11. TypeOK'
  BY <1>3, <1>8, <1>9, <1>10 DEF TypeOK
<1>12. /\ \A m \in Sequence : /\ dispatch'[Forward(s, m)] = IF m = n THEN "failed_permanent"
                                                            ELSE dispatch[Forward(s, m)]
                              /\ dispatch'[Compensation(s, m)] = IF c # 0 /\ m = c THEN "queued"
                                                                 ELSE "absent"
       /\ \A t \in Saga, m \in Sequence : t # s =>
             /\ dispatch'[Forward(t, m)] = dispatch[Forward(t, m)]
             /\ dispatch'[Compensation(t, m)] = dispatch[Compensation(t, m)]
  BY <1>1, <1>2, <1>8
<1>13. \A m \in Sequence : dispatch[Forward(s, m)] = "in_flight" <=> m = n
  BY <1>1, <1>2, <1>4
<1>14. StepsAgree'
  <2> SUFFICES ASSUME NEW t \in Saga, NEW m \in Sequence PROVE StepsAgree!(t, m)'
    BY DEF StepsAgree
  <2>1. CASE t # s
    BY <2>1, <1>3, <1>12 DEF StepsAgree
  <2>2. CASE t = s
    <3>1. StepsAgree!(s, m)
      BY <1>1 DEF StepsAgree
    <3>2. step'[s][m] = IF m = n THEN "failed" ELSE step[s][m]
      BY <1>1, <1>3
    <3>3. dispatch[Forward(s, m)] # "succeeded" => m # c
      BY <3>1, <1>8, <1>4, <1>1, SequenceNat
    <3>4. c # 0 /\ m = c => inverse[s][m] /\ m # n
      BY <1>8, <1>4, <1>1, SequenceNat
    <3> QED
      BY <2>2, <3>1, <3>2, <3>3, <3>4, <1>1, <1>2, <1>3, <1>12, Zenon
  <2> QED
    BY <2>1, <2>2
<1>15. SagaPhase'
  <2> SUFFICES ASSUME NEW t \in Saga, NEW m \in Sequence PROVE SagaPhase!(t, m)'
    BY Zenon DEF SagaPhase
  <2>1. CASE t # s
    <3>1. /\ saga'[t] = saga[t] /\ step'[t][m] = step[t][m]
          /\ dispatch'[Forward(t, m)] = dispatch[Forward(t, m)]
          /\ dispatch'[Compensation(t, m)] = dispatch[Compensation(t, m)]
      BY <2>1, <1>3, <1>9, <1>12
    <3>2. SagaPhase!(t, m)
      BY DEF SagaPhase
    <3> QED
      BY <3>1, <3>2
  <2>2. CASE t = s
    <3>1. dispatch'[Forward(s, m)] \in {"absent", "queued", "succeeded", "failed_permanent"}
      BY <1>2, <1>4, <1>12
    <3>2. dispatch'[Compensation(s, m)] \in {"absent", "queued"}
      BY <1>12
    <3>3. saga'[s] = "failed" => dispatch'[Compensation(s, m)] = "absent"
      BY <1>9, <1>12
    <3> QED
      BY <2>2, <3>1, <3>2, <3>3, <1>9 DEF Settled, Unresolved
  <2> QED
    BY <2>1, <2>2, Zenon
<1>16. TerminalQuiescent'
  <2> SUFFICES ASSUME NEW e \in Dispatch, saga'[SagaOf(e)] \in TerminalSaga
               PROVE  dispatch'[e] \notin {"in_flight", "retry_wait"}
    BY DEF TerminalQuiescent
  <2>1. CASE SagaOf(e) # s
    <3>1. dispatch'[e] = dispatch[e] /\ saga'[SagaOf(e)] = saga[SagaOf(e)]
      BY <2>1, <1>1, <1>8, <1>9
    <3> QED
      BY <3>1 DEF TerminalQuiescent
  <2>2. CASE SagaOf(e) = s
    BY <2>2, <1>2, <1>4, <1>12 DEF Direction
  <2> QED
    BY <2>1, <2>2
<1>17. CompensationOrder'
  <2> SUFFICES ASSUME NEW t \in Saga, NEW m \in Sequence, NEW k \in Sequence,
                      dispatch'[Compensation(t, k)] # "absent", k < m, inverse[t][m]
               PROVE  step'[t][m] # "succeeded"
    BY <1>3 DEF CompensationOrder
  <2>1. CASE t # s
    BY <2>1, <1>3, <1>12 DEF CompensationOrder
  <2>2. CASE t = s
    <3>1. c # 0 /\ k = c
      BY <2>2, <1>12
    <3>2. step[s][m] # "succeeded"
      BY <2>2, <3>1, <1>8, SequenceNat
    <3> QED
      BY <2>2, <3>2, <1>1, <1>3
  <2> QED
    BY <2>1, <2>2
<1>18. CompensationAfterKnownFailure'
  <2> SUFFICES ASSUME NEW t \in Saga, NEW k \in Sequence,
                      dispatch'[Compensation(t, k)] # "absent"
               PROVE  /\ \E m \in Sequence : m > k /\ dispatch'[Forward(t, m)] = "failed_permanent"
                      /\ \A m \in Sequence : dispatch'[Forward(t, m)] \notin Unresolved
    BY DEF CompensationAfterKnownFailure
  <2>1. CASE t # s
    BY <2>1, <1>12 DEF CompensationAfterKnownFailure
  <2>2. CASE t = s
    <3>1. k = c /\ c # 0
      BY <2>2, <1>12
    <3>2. n > k /\ dispatch'[Forward(s, n)] = "failed_permanent"
      BY <3>1, <1>1, <1>4, <1>8, <1>12, SequenceNat
    <3>3. \A m \in Sequence : dispatch'[Forward(s, m)] \notin Unresolved
      BY <1>2, <1>4, <1>12 DEF Unresolved
    <3> QED
      BY <2>2, <3>2, <3>3, <1>1
  <2> QED
    BY <2>1, <2>2
<1>19. CompensatedSome'
  BY <1>1, <1>3, <1>9 DEF CompensatedSome
<1> QED
  BY <1>10, <1>11, <1>14, <1>15, <1>16, <1>17, <1>18, <1>19

\* An inverse dispatch that succeeds, and the next inverse it queues.
LEMMA CompensationSucceedsInv ==
    ASSUME OutboxInv, NEW d \in Dispatch, NEW a,
           CurrentAttempt(d, a),
           attempts' = [attempts EXCEPT ![d][a] = "success"],
           UNCHANGED <<inverse, granted>>,
           CompensationSucceeds(d)
    PROVE  OutboxInv'
<1> USE DispatchIds DEF OutboxInv
<1> DEFINE s == SagaOf(d)
           n == SeqOf(d)
           done == [dispatch EXCEPT ![d] = "succeeded"]
<1>1. /\ dispatch[d] = "in_flight"
      /\ s \in Saga /\ n \in Sequence /\ d = Compensation(s, n)
  BY DEF CurrentAttempt, CompensationSucceeds
<1>2. /\ saga[s] = "compensating"
      /\ inverse[s][n]
      /\ step[s][n] = "succeeded"
      /\ \A m \in Sequence :
            /\ dispatch[Forward(s, m)] \in {"absent", "queued", "succeeded", "failed_permanent"}
            /\ m # n => dispatch[Compensation(s, m)] \in {"absent", "succeeded"}
            /\ m > n /\ inverse[s][m] => step[s][m] # "succeeded"
      /\ \E m \in Sequence : m > n /\ dispatch[Forward(s, m)] = "failed_permanent"
  BY <1>1, InFlightCompensation
<1>3. /\ step' \in [Saga -> [Sequence -> StepState \cup {"absent"}]]
      /\ \A t \in Saga, m \in Sequence :
            step'[t][m] = IF t = s /\ m = n THEN "compensated" ELSE step[t][m]
      /\ timer' \in [Dispatch -> Timer]
      /\ inverse' = inverse /\ granted' = granted
  BY <1>1 DEF CompensationSucceeds, TypeOK, StepState, Timer
<1>4. enqueueNextCompensation(s, step', done)
  BY DEF CompensationSucceeds
<1>5. /\ done \in [Dispatch -> DispatchState \cup {"absent"}]
      /\ \A e \in Dispatch : done[e] = IF e = d THEN "succeeded" ELSE dispatch[e]
  BY DEF TypeOK, DispatchState
\* c is the step whose inverse is queued next, 0 when there is none.
<1> DEFINE Continued(c) ==
         /\ c # 0 => /\ c # n /\ step[s][c] = "succeeded" /\ inverse[s][c]
                     /\ dispatch[Compensation(s, c)] = "absent"
                     /\ \A m \in Sequence : m # n /\ step[s][m] = "succeeded" /\ inverse[s][m] => m <= c
                     /\ saga' = saga
         /\ c = 0 => \E w \in {"compensated", "blocked_compensation"} :
                        /\ saga' = [saga EXCEPT ![s] = w]
                        /\ w = "compensated" => \A m \in Sequence : step'[s][m] # "succeeded"
         /\ dispatch' \in [Dispatch -> DispatchState \cup {"absent"}]
         /\ \A e \in Dispatch : dispatch'[e] = IF e = d THEN "succeeded"
                                               ELSE IF c # 0 /\ e = Compensation(s, c) THEN "queued"
                                               ELSE dispatch[e]
<1>6. \E c \in Sequence \cup {0} : Continued(c)
  <2>1. CASE Uncompensable(s, step', done, "compensated")
    <3>1. /\ dispatch' = done
          /\ \E w \in {"compensated", "blocked_compensation"} :
                /\ saga' = [saga EXCEPT ![s] = w]
                /\ w = "compensated" => \A m \in Sequence : step'[s][m] # "succeeded"
      BY <2>1, Zenon DEF Uncompensable, Succeeded
    <3> QED
      BY <3>1, <1>5, Zenon
  <2>2. ASSUME NEW c \in Sequence,
               IsLast(c, Candidates(step', s)),
               enqueueCompensation(s, c, done),
               UNCHANGED saga
        PROVE  Continued(c)
    <3>1. /\ step'[s][c] = "succeeded" /\ inverse[s][c]
          /\ \A m \in Sequence : step'[s][m] = "succeeded" /\ inverse[s][m] => m <= c
      BY <2>2 DEF IsLast, Candidates, Succeeded
    <3>2. c # n /\ step[s][c] = "succeeded"
      BY <3>1, <1>1, <1>3
    <3>3. dispatch[Compensation(s, c)] = "absent"
      <4>1. dispatch[Compensation(s, c)] # "succeeded"
        BY <3>2, <1>1 DEF StepsAgree
      <4> QED
        BY <4>1, <3>2, <1>2
    <3>4. done[Compensation(s, c)] = "absent"
      BY <1>1, <1>5, <3>2, <3>3
    <3>5. dispatch' = [done EXCEPT ![Compensation(s, c)] = "queued"]
      BY <2>2, <3>4 DEF enqueueCompensation
    <3>6. /\ dispatch' \in [Dispatch -> DispatchState \cup {"absent"}]
          /\ \A e \in Dispatch : dispatch'[e] = IF e = d THEN "succeeded"
                                                ELSE IF e = Compensation(s, c) THEN "queued"
                                                ELSE dispatch[e]
      BY <1>1, <1>5, <3>2, <3>5 DEF DispatchState
    <3>7. c # 0
      BY SequenceNat
    <3>8. \A m \in Sequence : m # n /\ step[s][m] = "succeeded" /\ inverse[s][m] => m <= c
      BY <3>1, <1>1, <1>3
    <3> QED
      BY <2>2, <3>1, <3>2, <3>3, <3>6, <3>7, <3>8
  <2>3. ASSUME NEW c \in Sequence,
               IsLast(c, Candidates(step', s)),
               enqueueCompensation(s, c, done),
               UNCHANGED saga
        PROVE  \E b \in Sequence \cup {0} : Continued(b)
    <3> HIDE DEF Continued
    <3> QED
      BY <2>2, <2>3
  <2> HIDE DEF Continued, done
  <2> QED
    BY <1>4, <2>1, <2>3 DEF enqueueNextCompensation
<1>7. PICK c \in Sequence \cup {0} : Continued(c)
  BY <1>6
<1>8. /\ saga' \in [Saga -> SagaState \cup {"absent"}]
      /\ \A t \in Saga : t # s => saga'[t] = saga[t]
      /\ c # 0 => saga'[s] = "compensating"
      /\ c = 0 => saga'[s] \in {"compensated", "blocked_compensation"}
      /\ saga'[s] = "compensated" => \A m \in Sequence : step'[s][m] # "succeeded"
  <2>1. saga \in [Saga -> SagaState \cup {"absent"}]
        /\ {"compensated", "blocked_compensation"} \subseteq SagaState
    BY DEF TypeOK, SagaState, TerminalSaga
  <2>2. CASE c # 0
    BY <2>1, <2>2, <1>2, <1>7
  <2>3. CASE c = 0
    <3>1. PICK w \in {"compensated", "blocked_compensation"} :
             /\ saga' = [saga EXCEPT ![s] = w]
             /\ w = "compensated" => \A m \in Sequence : step'[s][m] # "succeeded"
      BY <2>3, <1>7
    <3> QED
      BY <2>1, <2>3, <3>1, <1>1
  <2> QED
    BY <2>2, <2>3
<1>9. /\ \A m \in Sequence :
            /\ dispatch'[Forward(s, m)] = dispatch[Forward(s, m)]
            /\ dispatch'[Compensation(s, m)] = IF m = n THEN "succeeded"
                                               ELSE IF c # 0 /\ m = c THEN "queued"
                                               ELSE dispatch[Compensation(s, m)]
      /\ \A t \in Saga, m \in Sequence : t # s =>
            /\ dispatch'[Forward(t, m)] = dispatch[Forward(t, m)]
            /\ dispatch'[Compensation(t, m)] = dispatch[Compensation(t, m)]
  BY <1>1, <1>7
<1>10. /\ attempts' \in [Dispatch -> Seq(AttemptOutcome)]
       /\ AttemptHistory' /\ ForwardOrder' /\ NoMaskedUnknown'
  <2>1. \A e \in Dispatch : e # d => \/ dispatch'[e] = dispatch[e]
                                     \/ /\ dispatch[e] = "absent"
                                        /\ dispatch'[e] = "queued"
                                        /\ DirectionOf(e) = "compensation"
    BY <1>1, <1>7
  <2>2. dispatch'[d] = "succeeded" /\ "success" \in Outcome
    BY <1>7 DEF Outcome
  <2> QED
    BY <1>1, <2>1, <2>2, RecordedAttempt, Zenon
<1>11. TypeOK'
  BY <1>3, <1>7, <1>8, <1>10, Zenon DEF TypeOK
<1>12. StepsAgree'
  <2> SUFFICES ASSUME NEW t \in Saga, NEW m \in Sequence PROVE StepsAgree!(t, m)'
    BY DEF StepsAgree
  <2>1. CASE t # s
    <3>1. StepsAgree!(t, m)
      BY DEF StepsAgree
    <3>2. /\ step'[t][m] = step[t][m] /\ inverse'[t][m] = inverse[t][m]
          /\ dispatch'[Forward(t, m)] = dispatch[Forward(t, m)]
          /\ dispatch'[Compensation(t, m)] = dispatch[Compensation(t, m)]
      BY <2>1, <1>3, <1>9
    <3> QED
      BY <3>1, <3>2
  <2>2. CASE t = s
    <3>1. StepsAgree!(s, m)
      BY <1>1 DEF StepsAgree
    <3>2. step'[s][m] = IF m = n THEN "compensated" ELSE step[s][m]
      BY <1>1, <1>3
    <3>3. CASE m = n
      BY <3>3, <2>2, <3>1, <3>2, <1>1, <1>2, <1>3, <1>9, Zenon
    <3>4. CASE m # n /\ c # 0 /\ m = c
      BY <3>4, <2>2, <3>1, <3>2, <1>1, <1>3, <1>7, <1>9, Zenon
    <3>5. CASE m # n /\ ~(c # 0 /\ m = c)
      BY <3>5, <2>2, <3>1, <3>2, <1>1, <1>3, <1>9, Zenon
    <3> QED
      BY <3>3, <3>4, <3>5, Zenon
  <2> QED
    BY <2>1, <2>2
<1>13. SagaPhase'
  <2> SUFFICES ASSUME NEW t \in Saga, NEW m \in Sequence PROVE SagaPhase!(t, m)'
    BY Zenon DEF SagaPhase
  <2>1. CASE t # s
    <3>1. /\ saga'[t] = saga[t] /\ step'[t][m] = step[t][m]
          /\ dispatch'[Forward(t, m)] = dispatch[Forward(t, m)]
          /\ dispatch'[Compensation(t, m)] = dispatch[Compensation(t, m)]
      BY <2>1, <1>3, <1>8, <1>9
    <3>2. SagaPhase!(t, m)
      BY DEF SagaPhase
    <3> QED
      BY <3>1, <3>2, Zenon
  <2>2. CASE t = s
    <3>1. dispatch'[Forward(s, m)] \in {"absent", "queued", "succeeded", "failed_permanent"}
      BY <1>2, <1>9
    <3>2. dispatch'[Compensation(s, m)] \in {"absent", "queued", "succeeded"}
      BY <1>2, <1>9
    <3>3. saga'[s] = "compensated" => /\ dispatch'[Compensation(s, m)] \in {"absent", "succeeded"}
                                      /\ step'[s][m] # "succeeded"
      BY <1>2, <1>8, <1>9, Zenon
    <3>4. saga'[s] \in {"compensating", "compensated", "blocked_compensation"}
      BY <1>8
    <3> QED
      BY <2>2, <3>1, <3>2, <3>3, <3>4 DEF Settled, Unresolved
  <2> QED
    BY <2>1, <2>2, Zenon
<1>14. TerminalQuiescent'
  <2> SUFFICES ASSUME NEW e \in Dispatch, saga'[SagaOf(e)] \in TerminalSaga
               PROVE  dispatch'[e] \notin {"in_flight", "retry_wait"}
    BY DEF TerminalQuiescent
  <2>1. CASE SagaOf(e) # s
    <3>1. dispatch'[e] = dispatch[e] /\ saga'[SagaOf(e)] = saga[SagaOf(e)]
      BY <2>1, <1>1, <1>7, <1>8
    <3> QED
      BY <3>1 DEF TerminalQuiescent
  <2>2. CASE SagaOf(e) = s
    BY <2>2, <1>2, <1>9 DEF Direction
  <2> QED
    BY <2>1, <2>2
<1>15. CompensationOrder'
  <2> SUFFICES ASSUME NEW t \in Saga, NEW m \in Sequence, NEW k \in Sequence,
                      dispatch'[Compensation(t, k)] # "absent", k < m, inverse[t][m]
               PROVE  step'[t][m] # "succeeded"
    BY <1>3 DEF CompensationOrder
  <2>1. CASE dispatch[Compensation(t, k)] # "absent"
    BY <2>1, <1>3 DEF CompensationOrder
  <2>2. CASE dispatch[Compensation(t, k)] = "absent"
    <3>1. t = s /\ k = c /\ c # 0
      BY <2>2, <1>1, <1>9
    <3>2. m # n => step[s][m] # "succeeded"
      BY <3>1, <1>7, SequenceNat
    <3> QED
      BY <3>1, <3>2, <1>1, <1>3
  <2> QED
    BY <2>1, <2>2
<1>16. CompensationAfterKnownFailure'
  <2> SUFFICES ASSUME NEW t \in Saga, NEW k \in Sequence,
                      dispatch'[Compensation(t, k)] # "absent"
               PROVE  /\ \E m \in Sequence : m > k /\ dispatch'[Forward(t, m)] = "failed_permanent"
                      /\ \A m \in Sequence : dispatch'[Forward(t, m)] \notin Unresolved
    BY DEF CompensationAfterKnownFailure
  <2>1. \A m \in Sequence : dispatch'[Forward(t, m)] = dispatch[Forward(t, m)]
    BY <1>9
  <2>2. CASE dispatch[Compensation(t, k)] # "absent"
    BY <2>1, <2>2 DEF CompensationAfterKnownFailure
  <2>3. CASE dispatch[Compensation(t, k)] = "absent"
    <3>1. t = s /\ k = c /\ c # 0
      BY <2>3, <1>1, <1>9
    <3>2. k < n
      <4>1. k # n /\ ~(k > n)
        BY <3>1, <1>2, <1>7
      <4> QED
        BY <4>1, <1>1, SequenceNat
    <3>3. \E m \in Sequence : m > k /\ dispatch[Forward(s, m)] = "failed_permanent"
      BY <3>2, <1>1, <1>2, SequenceNat
    <3> QED
      BY <2>1, <3>1, <3>3, <1>2 DEF Unresolved
  <2> QED
    BY <2>2, <2>3
<1>17. CompensatedSome'
  BY <1>1, <1>3, <1>8 DEF CompensatedSome
<1> QED
  BY <1>10, <1>11, <1>12, <1>13, <1>14, <1>15, <1>16, <1>17

\* Recording the outcome of the current attempt, whichever it is and whether
\* or not its lease is still live.
LEMMA CompletionInv ==
    ASSUME OutboxInv, NEW d \in Dispatch, NEW a, NEW o \in Outcome, NEW x \in BOOLEAN,
           CurrentAttempt(d, a), attempts' = [attempts EXCEPT ![d][a] = o],
           applyCompletion(d, o, x), UNCHANGED <<inverse, granted>>
    PROVE  OutboxInv'
<1>1. /\ CurrentAttempt(d, a)
      /\ attempts' = [attempts EXCEPT ![d][a] = o]
      /\ UNCHANGED <<inverse, granted>>
      /\ applyCompletion(d, o, x)
  OBVIOUS
<1>2. DirectionOf(d) \in {"forward", "compensation"}
  BY DispatchIds DEF Direction
<1>3. CASE BlockUnknown(d)
  <2>1. CASE DirectionOf(d) = "forward"
    <3>1. Block(d, "blocked_unknown", "blocked_unknown")
      BY <1>3, <2>1 DEF BlockUnknown
    <3> QED
      BY <1>1, <2>1, <3>1, BlockInv, Zenon
  <2>2. CASE DirectionOf(d) = "compensation"
    <3>1. Block(d, "blocked_unknown", "blocked_compensation")
      BY <1>3, <2>2 DEF BlockUnknown
    <3> QED
      BY <1>1, <2>2, <3>1, BlockInv, Zenon
  <2> QED
    BY <1>2, <2>1, <2>2
<1>4. CASE o = "success" /\ ForwardSucceeds(d)
  BY <1>1, <1>4, ForwardSucceedsInv, Zenon
<1>5. CASE o = "success" /\ CompensationSucceeds(d)
  BY <1>1, <1>5, CompensationSucceedsInv, Zenon
<1>6. CASE o \in {"retryable", "unknown"} /\ Retry(d)
  BY <1>1, <1>6, RetryInv, Zenon
<1>7. CASE /\ ~PriorUnresolved(d, o, x)
           /\ o = "permanent" \/ (o = "retryable" /\ x)
           /\ ForwardFails(d) \/ CompensationFails(d)
  <2>1. priorAttemptsKnownNotCommitted(d) /\ o \in {"retryable", "permanent"}
    BY <1>7 DEF PriorUnresolved, terminalOutcomeMayMaskPriorUnknown
  <2>2. CASE ForwardFails(d)
    BY <1>1, <2>1, <2>2, ForwardFailsInv, Zenon
  <2>3. CASE CompensationFails(d)
    <3>1. /\ DirectionOf(d) = "compensation"
          /\ Block(d, "failed_permanent", "blocked_compensation")
      BY <2>3 DEF CompensationFails
    <3> QED
      BY <1>1, <2>1, <3>1, BlockInv, Zenon
  <2> QED
    BY <1>7, <2>2, <2>3
<1>8. CASE Block(d, "blocked_fence", "blocked_fence")
  BY <1>1, <1>8, BlockInv, Zenon
<1> QED
  BY <1>1, <1>3, <1>4, <1>5, <1>6, <1>7, <1>8 DEF applyCompletion

\* CompleteDispatch records the outcome of the attempt that holds the lease.
LEMMA CompleteDispatchInv ==
    ASSUME OutboxInv, NEW d \in Dispatch, NEW a, NEW o \in Outcome, NEW x \in BOOLEAN,
           CompleteDispatch(d, a, o, x)
    PROVE  OutboxInv'
BY CompletionInv, Zenon DEF CompleteDispatch, currentLeaseAt, CurrentAttempt
=============================================================================
