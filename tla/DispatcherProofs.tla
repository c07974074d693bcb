-------------------------- MODULE DispatcherProofs --------------------------
(***************************************************************************)
(* Proofs about Dispatcher: it takes only steps the outbox allows, so      *)
(* every theorem about the outbox carries over, and an effect at the       *)
(* destination is never lost from the record.                              *)
(***************************************************************************)
EXTENDS Dispatcher, SagaOutboxProofs

\* Attempt rows are addressed by claim numbers, natural numbers from 1.
LEMMA ClaimNat ==
    /\ Claim \subseteq Nat \ {0}
    /\ MaxAttempts \in Nat
  BY OutboxAssumption, DispatcherAssumption DEF Claim

\* Every step of a dispatcher is a step of the store or leaves it alone.
LEMMA StoreStep ==
    ASSUME DispatcherTypeOK, [DispatcherNext]_allVars
    PROVE  [Next]_vars
<1>1. CASE EngineStep
  BY <1>1 DEF EngineStep, Next
<1>2. ASSUME NEW d \in Dispatch, Claims(d) \/ Elapse(d)
      PROVE  [Next]_vars
  <2>1. CASE Claims(d)
    BY <2>1, Zenon DEF Claims, Next
  <2>2. CASE Elapse(d)
    <3>1. TimePasses({d})
      BY <2>2 DEF Elapse
    <3>2. {d} \in SUBSET Running
      BY <3>1 DEF TimePasses
    <3> QED
      BY <3>1, <3>2, Zenon DEF Next
  <2> QED
    BY <1>2, <2>1, <2>2
<1>3. ASSUME NEW d \in Dispatch, NEW a \in Claim,
             NEW o \in Outcome, NEW x \in BOOLEAN, CompleteDispatch(d, a, o, x)
      PROVE  Next
  BY <1>3 DEF Next, Claim
<1>4. ASSUME NEW d \in Dispatch, NEW a \in Claim, Proceed(d, a)
      PROVE  [Next]_vars
  <2>1. CASE completeExhaustedClaim(d, a)
    BY <1>3, <2>1, Zenon DEF completeExhaustedClaim, Outcome
  <2>2. CASE fencesUnavailable(d, a)
    <3>1. (a >= MaxAttempts) \in BOOLEAN /\ "retryable" \in Outcome
      BY DEF Outcome
    <3> QED
      BY <1>3, <2>2, <3>1, Zenon DEF fencesUnavailable
  <2>3. CASE undecodable(d, a)
    BY <1>3, <2>3, Zenon DEF undecodable, Outcome
  <2>4. CASE Records(d, a)
    <3>1. Exhausted(d, a, call[d][a]) \in BOOLEAN /\ "unknown" \in Outcome
      BY DEF Exhausted, Outcome
    <3> QED
      BY <1>3, <2>4, <3>1, Zenon DEF Records
  <2>5. CASE SavesGrants(d, a)
    BY <2>5 DEF SavesGrants, Next, Claim
  <2>6. CASE acquireFences(d, a) \/ Invoke(d, a) \/ LeaseLost(d, a)
    BY <2>6 DEF acquireFences, Invoke, LeaseLost
  <2>7. CASE \E outcome \in Returned : Return(d, a, outcome)
    BY <2>7 DEF Return
  <2> QED
    BY <1>4, <2>1, <2>2, <2>3, <2>4, <2>5, <2>6, <2>7 DEF Proceed
<1>5. ASSUME NEW d \in Dispatch, NEW a \in Claim,
             Abandon(d, a) \/ Apply(d, a) \/ Refuse(d, a)
      PROVE  [Next]_vars
  BY <1>5 DEF Abandon, Apply, Refuse
<1>6. CASE UNCHANGED allVars
  BY <1>6 DEF allVars
<1> QED
  BY <1>1, <1>2, <1>4, <1>5, <1>6 DEF DispatcherNext

\* The invariant holds initially.
LEMMA DispatcherInitInv == DispatcherInit => DispatcherInv
<1> SUFFICES ASSUME DispatcherInit PROVE DispatcherInv
  OBVIOUS
<1>1. OutboxInv
  BY InitInv DEF DispatcherInit
<1>2. /\ call = [d \in Dispatch |-> [a \in Claim |-> "none"]]
      /\ request = [d \in Dispatch |-> [a \in Claim |-> "unsent"]]
      /\ faults = 0
      /\ attempts = [d \in Dispatch |-> <<>>]
  BY DEF DispatcherInit, Init
<1>3. DispatcherTypeOK
  BY <1>1, <1>2, DispatcherAssumption DEF DispatcherTypeOK, OutboxInv, Phase, Request
<1>4. RunProgress
  BY <1>2, ClaimNat DEF RunProgress, KnownNotCommitted
<1>5. EffectOnRecord /\ IntentBeforeEffect
  BY <1>2 DEF EffectOnRecord, IntentBeforeEffect
<1> QED
  BY <1>1, <1>3, <1>4, <1>5 DEF DispatcherInv

\* A run enters a phase without touching the store or the destination.
LEMMA PhaseStepInv ==
    ASSUME DispatcherInv, NEW d \in Dispatch, NEW a \in Claim, NEW p \in Phase,
           Enter(d, a, p), UNCHANGED <<vars, request>>, faults' \in 0..MaxFaults,
           call[d][a] \notin {"none", "done"}, p # "none",
           p \in {"claimed", "fenced", "granted"} => call[d][a] = "claimed" /\ p = "fenced",
           p \in KnownNotCommitted => request[d][a] = "refused",
           p # "done" => a <= MaxAttempts,
           p \notin {"done", "fenced"} => call[d][a] \in {"granted", "invoking"}
    PROVE  DispatcherInv'
<1> USE DEF DispatcherInv
<1>1. OutboxInv'
  <2>1. [Next]_vars
    OBVIOUS
  <2> QED
    BY <2>1, NextInv
<1>2. \A e \in Dispatch, b \in Claim :
         call'[e][b] = IF e = d /\ b = a THEN p ELSE call[e][b]
  BY DEF Enter, DispatcherTypeOK
<1>3. DispatcherTypeOK'
  BY <1>1 DEF Enter, DispatcherTypeOK, OutboxInv
<1>4. /\ attempts' = attempts /\ granted' = granted /\ request' = request
  BY DEF vars
<1>5. RunProgress'
  <2> SUFFICES ASSUME NEW e \in Dispatch, NEW b \in Claim PROVE RunProgress!(e, b)'
    BY DEF RunProgress
  <2>1. RunProgress!(e, b)
    BY DEF RunProgress
  <2>2. CASE ~(e = d /\ b = a)
    BY <1>2, <1>4, <2>1, <2>2
  <2>3. CASE e = d /\ b = a
    <3>1. call'[d][a] = p
      BY <1>2
    <3>2. ~(a > Len(attempts[d])) /\ attempts[d][a] = "open"
      BY <2>1, <2>3
    <3>3. p \in {"none", "claimed", "fenced", "granted"} => request[d][a] = "unsent"
      BY <2>1, <2>3
    <3>4. p \notin {"none", "claimed", "fenced", "done"} /\ a = Len(attempts[d]) => granted[d]
      BY <2>1, <2>3
    <3> QED
      BY <1>4, <2>3, <3>1, <3>2, <3>3, <3>4
  <2> QED
    BY <2>2, <2>3
<1>6. EffectOnRecord' /\ IntentBeforeEffect'
  BY <1>4 DEF EffectOnRecord, IntentBeforeEffect
<1> QED
  BY <1>1, <1>3, <1>5, <1>6

\* A run ends by recording an outcome, which is unknown or success whenever
\* its request may have had an effect.
LEMMA CompletionStepInv ==
    ASSUME DispatcherInv, NEW d \in Dispatch, NEW a \in Claim, NEW o \in Outcome,
           NEW x \in BOOLEAN, CompleteDispatch(d, a, o, x),
           Enter(d, a, "done"), UNCHANGED <<request, faults>>,
           call[d][a] \notin {"none", "done"},
           request[d][a] \in {"sent", "applied"} => o \in {"unknown", "success"}
    PROVE  DispatcherInv'
<1> USE DEF DispatcherInv
<1>1. OutboxInv'
  BY CompleteDispatchInv
<1>2. \A e \in Dispatch, b \in Claim :
         call'[e][b] = IF e = d /\ b = a THEN "done" ELSE call[e][b]
  BY DEF Enter, DispatcherTypeOK
<1>3. DispatcherTypeOK'
  BY <1>1 DEF Enter, DispatcherTypeOK, OutboxInv, Phase
<1>4. /\ a = Len(attempts[d])
      /\ attempts' = [attempts EXCEPT ![d][a] = o]
      /\ granted' = granted /\ request' = request
  BY DEF CompleteDispatch, currentLeaseAt
<1>5. /\ attempts \in [Dispatch -> Seq(AttemptOutcome)]
      /\ attempts[d] \in Seq(AttemptOutcome)
      /\ attempts[d] # <<>>
  BY DEF DispatcherTypeOK, TypeOK, OutboxInv, AttemptHistory, CompleteDispatch, currentLeaseAt,
     Unresolved
<1>6. attempts'[d] = [attempts[d] EXCEPT ![a] = o] /\ \A e \in Dispatch : e # d => attempts'[e] = attempts[e]
  BY <1>4, <1>5
<1>7. \A e \in Dispatch : Len(attempts'[e]) = Len(attempts[e])
  BY <1>4, <1>5, <1>6, RecordOutcome
<1>8. attempts'[d][a] = o
  BY <1>4, <1>5, <1>6, RecordOutcome
<1>9. \A e \in Dispatch, b \in Claim :
         ~(e = d /\ b = a) /\ b <= Len(attempts[e]) => attempts'[e][b] = attempts[e][b]
  <2> SUFFICES ASSUME NEW b \in Claim, b # a, b <= Len(attempts[d])
               PROVE  attempts'[d][b] = attempts[d][b]
    BY <1>6, Zenon
  <2>1. b \in Nat \ {0}
    BY ClaimNat, Zenon
  <2>2. Len(attempts[d]) \in Nat
    BY <1>5
  <2>3. b \in 1..Len(attempts[d])
    BY <2>1, <2>2
  <2> QED
    BY <1>4, <1>5, <1>6, <2>3, RecordOutcome
<1>10. RunProgress'
  <2> SUFFICES ASSUME NEW e \in Dispatch, NEW b \in Claim PROVE RunProgress!(e, b)'
    BY DEF RunProgress
  <2>1. RunProgress!(e, b)
    BY DEF RunProgress
  <2>2. CASE ~(e = d /\ b = a)
    <3>1. call'[e][b] = call[e][b]
      BY <1>2, <2>2
    <3>2. call[e][b] \notin {"none", "done"} => attempts'[e][b] = "open"
      <4>1. call[e][b] # "none" => b <= Len(attempts[e])
        <5>1. Len(attempts[e]) \in Nat
          BY <1>5
        <5>2. b \in Nat /\ (call[e][b] # "none" => ~(b > Len(attempts[e])))
          BY <2>1, ClaimNat, Zenon
        <5> QED
          BY <5>1, <5>2
      <4> QED
        BY <1>9, <2>1, <2>2, <4>1
    <3> QED
      BY <1>4, <1>7, <2>1, <3>1, <3>2
  <2>3. CASE e = d /\ b = a
    <3>1. call'[d][a] = "done"
      BY <1>2
    <3>2. ~(a > Len(attempts'[d]))
      BY <1>7, <2>1, <2>3
    <3> QED
      BY <2>3, <3>1, <3>2 DEF KnownNotCommitted
  <2> QED
    BY <2>2, <2>3
<1>11. EffectOnRecord'
  <2> SUFFICES ASSUME NEW e \in Dispatch, NEW b \in Claim, request[e][b] \in {"sent", "applied"}
               PROVE  attempts'[e][b] \in {"open", "unknown", "success"}
    BY <1>4 DEF EffectOnRecord
  <2>1. CASE e = d /\ b = a
    BY <1>8, <2>1
  <2>2. CASE ~(e = d /\ b = a)
    <3>1. b <= Len(attempts[e]) /\ attempts[e][b] \in {"open", "unknown", "success"}
      BY DEF IntentBeforeEffect, EffectOnRecord
    <3> QED
      BY <1>9, <2>2, <3>1
  <2> QED
    BY <2>1, <2>2
<1>12. IntentBeforeEffect'
  BY <1>4, <1>7 DEF IntentBeforeEffect
<1> QED
  BY <1>1, <1>3, <1>10, <1>11, <1>12

\* A claim starts a run that has sent nothing.
LEMMA ClaimsInv ==
    ASSUME DispatcherInv, NEW d \in Dispatch, Claims(d)
    PROVE  DispatcherInv'
<1> USE DEF DispatcherInv
<1> DEFINE k == Len(attempts[d]) + 1
<1>1. OutboxInv'
  BY ClaimDispatchInv DEF Claims
<1>2. attempts \in [Dispatch -> Seq(AttemptOutcome)] /\ attempts[d] \in Seq(AttemptOutcome)
  BY DEF OutboxInv, TypeOK
<1>3. /\ attempts' = [attempts EXCEPT ![d] = Append(@, "open")]
      /\ granted' = [granted EXCEPT ![d] = FALSE]
      /\ call' = [call EXCEPT ![d][k] = "claimed"]
      /\ request' = request /\ faults' = faults
      /\ Len(attempts[d]) < MaxClaims
  BY DEF Claims, ClaimDispatch, Enter
<1>4. k \in Claim /\ Len(attempts[d]) \in Nat
  BY <1>2, <1>3, OutboxAssumption DEF Claim
<1>5. \A e \in Dispatch, b \in Claim :
         call'[e][b] = IF e = d /\ b = k THEN "claimed" ELSE call[e][b]
  BY <1>3, <1>4 DEF DispatcherTypeOK
<1>6. /\ Len(attempts'[d]) = k
      /\ attempts'[d][k] = "open"
      /\ \A b \in Claim : b <= Len(attempts[d]) => attempts'[d][b] = attempts[d][b]
      /\ \A e \in Dispatch : e # d => attempts'[e] = attempts[e] /\ granted'[e] = granted[e]
  <2>1. attempts'[d] = Append(attempts[d], "open")
    BY <1>2, <1>3
  <2>2. \A b \in Claim : b <= Len(attempts[d]) => b \in 1..Len(attempts[d])
    BY <1>4, ClaimNat
  <2>3. \A e \in Dispatch : e # d => attempts'[e] = attempts[e] /\ granted'[e] = granted[e]
    BY <1>2, <1>3 DEF OutboxInv, TypeOK
  <2> QED
    BY <1>2, <2>1, <2>2, <2>3, AppendOpen
<1>7. DispatcherTypeOK'
  <2>1. "claimed" \in Phase
    BY DEF Phase
  <2> QED
    BY <1>1, <1>3, <1>4, <2>1 DEF DispatcherTypeOK, OutboxInv
<1>8. \A b \in Claim : b > Len(attempts[d]) => call[d][b] = "none" /\ request[d][b] = "unsent"
  BY DEF RunProgress
<1>9. RunProgress'
  <2> SUFFICES ASSUME NEW e \in Dispatch, NEW b \in Claim PROVE RunProgress!(e, b)'
    BY Zenon DEF RunProgress
  <2>1. RunProgress!(e, b)
    BY DEF RunProgress
  <2>2. CASE e # d
    BY <1>3, <1>5, <1>6, <2>1, <2>2
  <2>3. CASE e = d /\ b = k
    <3>1. /\ call'[d][k] = "claimed" /\ request'[d][k] = "unsent"
          /\ ~(k > Len(attempts'[d])) /\ attempts'[d][k] = "open"
      BY <1>3, <1>4, <1>5, <1>6, <1>8
    <3> QED
      BY <2>3, <3>1, Zenon DEF KnownNotCommitted
  <2>4. CASE e = d /\ b # k
    <3>1. call'[d][b] = call[d][b] /\ request'[d][b] = request[d][b]
      BY <1>3, <1>5, <2>4
    <3>2. b \in Nat /\ b # Len(attempts'[d]) /\ (b > Len(attempts'[d]) <=> b > Len(attempts[d]))
      BY <1>4, <1>6, <2>4, ClaimNat
    <3>3. call[d][b] # "none" => attempts'[d][b] = attempts[d][b]
      <4>1. call[d][b] # "none" => ~(b > Len(attempts[d]))
        BY <2>1, <2>4
      <4> QED
        BY <1>4, <1>6, <3>2, <4>1
    <3> QED
      BY <2>1, <2>4, <3>1, <3>2, <3>3
  <2> QED
    BY <2>2, <2>3, <2>4, Zenon
<1>10. EffectOnRecord'
  <2> SUFFICES ASSUME NEW e \in Dispatch, NEW b \in Claim, request[e][b] \in {"sent", "applied"}
               PROVE  attempts'[e][b] \in {"open", "unknown", "success"}
    BY <1>3, Zenon DEF EffectOnRecord
  <2>1. b <= Len(attempts[e]) /\ attempts[e][b] \in {"open", "unknown", "success"}
    BY DEF EffectOnRecord, IntentBeforeEffect
  <2> QED
    BY <1>6, <2>1
<1>11. IntentBeforeEffect'
  <2> SUFFICES ASSUME NEW e \in Dispatch, NEW b \in Claim, request[e][b] # "unsent"
               PROVE  IntentBeforeEffect!(e, b)!2'
    BY <1>3 DEF IntentBeforeEffect
  <2>1. /\ b <= Len(attempts[e])
        /\ b = Len(attempts[e]) => granted[e]
        /\ b <= MaxAttempts
    BY DEF IntentBeforeEffect
  <2>2. CASE e # d
    BY <1>6, <2>1, <2>2
  <2>3. CASE e = d
    BY <1>4, <1>6, <2>1, <2>3, ClaimNat
  <2> QED
    BY <2>2, <2>3
<1> QED
  BY <1>1, <1>7, <1>9, <1>10, <1>11

\* Persisting the grants of the current attempt.
LEMMA SavesGrantsInv ==
    ASSUME DispatcherInv, NEW d \in Dispatch, NEW a \in Claim, SavesGrants(d, a)
    PROVE  DispatcherInv'
<1> USE DEF DispatcherInv
<1>1. OutboxInv'
  BY SaveFencingGrantsInv DEF SavesGrants
<1>2. /\ call[d][a] = "fenced"
      /\ call' = [call EXCEPT ![d][a] = "granted"]
      /\ granted' = [granted EXCEPT ![d] = TRUE]
      /\ request' = request /\ faults' = faults /\ attempts' = attempts
  BY DEF SavesGrants, SaveFencingGrants, Enter
<1>3. /\ \A e \in Dispatch, b \in Claim :
            call'[e][b] = IF e = d /\ b = a THEN "granted" ELSE call[e][b]
      /\ \A e \in Dispatch : granted'[e] = IF e = d THEN TRUE ELSE granted[e]
  BY <1>2 DEF DispatcherTypeOK, TypeOK
<1>4. DispatcherTypeOK'
  <2>1. "granted" \in Phase
    BY DEF Phase
  <2> QED
    BY <1>1, <1>2, <2>1 DEF DispatcherTypeOK, OutboxInv
<1>5. RunProgress'
  <2> SUFFICES ASSUME NEW e \in Dispatch, NEW b \in Claim PROVE RunProgress!(e, b)'
    BY DEF RunProgress
  <2>1. RunProgress!(e, b)
    BY DEF RunProgress
  <2>2. CASE ~(e = d /\ b = a)
    BY <1>2, <1>3, <2>1, <2>2
  <2>3. CASE e = d /\ b = a
    <3>1. /\ call'[d][a] = "granted" /\ granted'[d]
          /\ request[d][a] = "unsent" /\ ~(a > Len(attempts[d]))
          /\ attempts[d][a] = "open" /\ a <= MaxAttempts
      BY <1>2, <1>3, <2>1, <2>3, Zenon
    <3> QED
      BY <1>2, <2>3, <3>1 DEF KnownNotCommitted
  <2> QED
    BY <2>2, <2>3
<1>6. EffectOnRecord'
  BY <1>2 DEF EffectOnRecord
<1>7. IntentBeforeEffect'
  BY <1>2, <1>3 DEF IntentBeforeEffect
<1> QED
  BY <1>1, <1>4, <1>5, <1>6, <1>7

\* The request leaves, or its fate is decided at the destination.
LEMMA RequestStepInv ==
    ASSUME DispatcherInv, NEW d \in Dispatch, NEW a \in Claim, NEW r \in {"sent", "applied", "refused"},
           request' = [request EXCEPT ![d][a] = r], UNCHANGED <<vars, faults>>,
           \/ call[d][a] = "granted" /\ Enter(d, a, "invoking")
           \/ request[d][a] = "sent" /\ UNCHANGED call
    PROVE  DispatcherInv'
<1> USE DEF DispatcherInv
<1>1. OutboxInv'
  <2>1. [Next]_vars
    OBVIOUS
  <2> QED
    BY <2>1, NextInv
<1>2. attempts' = attempts /\ granted' = granted
  BY DEF vars
<1>3. /\ \A e \in Dispatch, b \in Claim : ~(e = d /\ b = a) =>
            call'[e][b] = call[e][b] /\ request'[e][b] = request[e][b]
      /\ request'[d][a] = r
      /\ call'[d][a] = IF call' = call THEN call[d][a] ELSE "invoking"
  BY DEF DispatcherTypeOK, Enter
<1>4. DispatcherTypeOK'
  <2>1. "invoking" \in Phase /\ {"sent", "applied", "refused"} \subseteq Request
    BY DEF Phase, Request
  <2> QED
    <3>1. call' \in [Dispatch -> [Claim -> Phase]]
      <4>1. CASE Enter(d, a, "invoking")
        BY <2>1, <4>1 DEF DispatcherTypeOK, Enter
      <4>2. CASE UNCHANGED call
        BY <4>2 DEF DispatcherTypeOK
      <4> QED
        BY <4>1, <4>2
    <3>2. request' \in [Dispatch -> [Claim -> Request]]
      BY <2>1 DEF DispatcherTypeOK
    <3> QED
      BY <1>1, <3>1, <3>2 DEF DispatcherTypeOK, OutboxInv
<1>5. RunProgress!(d, a)
  BY DEF RunProgress
<1>6. call[d][a] \in {"granted", "invoking", "done"} \cup Returned /\ call[d][a] \notin KnownNotCommitted
  BY <1>5 DEF DispatcherTypeOK, Phase, KnownNotCommitted
<1>7. ~(a > Len(attempts[d])) /\ Len(attempts[d]) \in Nat /\ a \in Nat
  <2>1. ~(a > Len(attempts[d]))
    BY <1>5, <1>6 DEF Returned, Outcome
  <2> QED
    BY <2>1, ClaimNat DEF DispatcherTypeOK, TypeOK
<1>8. /\ a <= Len(attempts[d])
      /\ a = Len(attempts[d]) => granted[d]
      /\ a <= MaxAttempts
      /\ attempts[d][a] \in {"open", "unknown", "success"}
  <2>1. CASE call[d][a] = "granted"
    BY <1>5, <1>7, <2>1
  <2>2. CASE request[d][a] = "sent"
    BY <2>2 DEF EffectOnRecord, IntentBeforeEffect
  <2> QED
    BY <2>1, <2>2
<1>9. call'[d][a] \in {"invoking", "done"} \cup Returned /\ call'[d][a] \notin KnownNotCommitted
  <2>1. CASE call[d][a] = "granted" /\ Enter(d, a, "invoking")
    BY <2>1 DEF Enter, DispatcherTypeOK, KnownNotCommitted
  <2>2. CASE request[d][a] = "sent" /\ UNCHANGED call
    BY <1>5, <1>6, <2>2
  <2> QED
    BY <2>1, <2>2
<1>10. RunProgress'
  <2> SUFFICES ASSUME NEW e \in Dispatch, NEW b \in Claim PROVE RunProgress!(e, b)'
    BY DEF RunProgress
  <2>1. CASE ~(e = d /\ b = a)
    <3>1. RunProgress!(e, b)
      BY DEF RunProgress
    <3> QED
      BY <1>2, <1>3, <2>1, <3>1, Zenon
  <2>2. CASE e = d /\ b = a
    <3>1. call'[d][a] \notin {"none", "claimed", "fenced", "granted"}
      BY <1>9 DEF Returned, Outcome
    <3>2. call'[d][a] # "done" => attempts[d][a] = "open"
      <4>1. call[d][a] # "done" => attempts[d][a] = "open"
        BY <1>5, <1>6 DEF Returned, Outcome
      <4>2. CASE call[d][a] = "granted" /\ Enter(d, a, "invoking")
        BY <4>1, <4>2
      <4>3. CASE UNCHANGED call
        BY <4>1, <4>3
      <4> QED
        BY <4>2, <4>3
    <3> QED
      BY <1>2, <1>7, <1>8, <1>9, <2>2, <3>1, <3>2
  <2> QED
    BY <2>1, <2>2
<1>11. EffectOnRecord'
  BY <1>2, <1>3, <1>8 DEF EffectOnRecord
<1>12. IntentBeforeEffect'
  BY <1>2, <1>3, <1>8 DEF IntentBeforeEffect
<1> QED
  BY <1>1, <1>4, <1>10, <1>11, <1>12

\* Every step of a run of Dispatch preserves the invariant.
LEMMA ProceedInv ==
    ASSUME DispatcherInv, NEW d \in Dispatch, NEW a \in Claim, Proceed(d, a)
    PROVE  DispatcherInv'
<1>1. /\ RunProgress!(d, a)
      /\ call[d][a] \in Phase
      /\ request[d][a] \in Request
      /\ faults \in 0..MaxFaults
      /\ a \in Nat /\ MaxAttempts \in Nat
  BY ClaimNat DEF DispatcherInv, RunProgress, DispatcherTypeOK
<1>2. {"retryable", "unknown"} \subseteq Outcome
  BY DEF Outcome
<1>3. CASE completeExhaustedClaim(d, a)
  <2>1. PICK o \in {"retryable", "unknown"} : CompleteDispatch(d, a, o, TRUE)
    BY <1>3, Zenon DEF completeExhaustedClaim
  <2>2. /\ call[d][a] = "claimed" /\ Enter(d, a, "done") /\ UNCHANGED <<request, faults>>
        /\ request[d][a] = "unsent" /\ o \in Outcome
    BY <1>1, <1>2, <1>3, Zenon DEF completeExhaustedClaim
  <2> QED
    BY <2>1, <2>2, CompletionStepInv, Zenon
<1>4. CASE fencesUnavailable(d, a)
  <2>1. (a >= MaxAttempts) \in BOOLEAN
    BY <1>1
  <2>2. /\ CompleteDispatch(d, a, "retryable", a >= MaxAttempts)
        /\ call[d][a] = "claimed" /\ Enter(d, a, "done") /\ UNCHANGED <<request, faults>>
    BY <1>4, Zenon DEF fencesUnavailable
  <2>3. request[d][a] = "unsent" /\ "retryable" \in Outcome
    BY <1>1, <1>2, <2>2, Zenon
  <2> QED
    BY <2>1, <2>2, <2>3, CompletionStepInv, Zenon
<1>5. CASE undecodable(d, a)
  <2>1. /\ CompleteDispatch(d, a, "unknown", TRUE)
        /\ call[d][a] = "granted" /\ Enter(d, a, "done") /\ UNCHANGED <<request, faults>>
        /\ "unknown" \in Outcome
    BY <1>2, <1>5, Zenon DEF undecodable
  <2> QED
    BY <2>1, CompletionStepInv, Zenon
<1>6. CASE Records(d, a)
  <2>1. Enter(d, a, "done") /\ UNCHANGED <<request, faults>>
    BY <1>6, Zenon DEF Records
  <2>2. CASE call[d][a] \in Outcome /\ CompleteDispatch(d, a, call[d][a], Exhausted(d, a, call[d][a]))
    <3>1. Exhausted(d, a, call[d][a]) \in BOOLEAN /\ call[d][a] \notin {"none", "done"}
      BY <2>2 DEF Exhausted, Outcome
    <3>2. request[d][a] \in {"sent", "applied"} => call[d][a] \in {"unknown", "success"}
      BY <1>1, <2>2 DEF KnownNotCommitted, Outcome
    <3> QED
      BY <2>1, <2>2, <3>1, <3>2, CompletionStepInv
  <2>3. CASE call[d][a] = "malformed" /\ CompleteDispatch(d, a, "unknown", TRUE)
    BY <1>2, <2>1, <2>3, CompletionStepInv, Zenon
  <2> QED
    BY <1>6, <2>2, <2>3, Zenon DEF Records
<1>7. CASE SavesGrants(d, a)
  BY <1>7, SavesGrantsInv
<1>8. CASE acquireFences(d, a)
  <2>1. /\ call[d][a] = "claimed" /\ a <= MaxAttempts /\ Enter(d, a, "fenced")
        /\ UNCHANGED <<vars, request>> /\ faults' \in 0..MaxFaults /\ "fenced" \in Phase
        /\ "fenced" \notin KnownNotCommitted
    BY <1>1, <1>8, Zenon DEF acquireFences, Phase, KnownNotCommitted
  <2> QED
    BY <2>1, PhaseStepInv
<1>9. CASE LeaseLost(d, a)
  <2>1. /\ call[d][a] \notin {"none", "done"} /\ Enter(d, a, "done")
        /\ UNCHANGED <<vars, request>> /\ faults' \in 0..MaxFaults /\ "done" \in Phase
        /\ "done" \notin KnownNotCommitted
    BY <1>1, <1>9 DEF LeaseLost, Phase, KnownNotCommitted, Returned, Outcome
  <2> QED
    BY <2>1, PhaseStepInv
<1>10. CASE Invoke(d, a)
  BY <1>10, RequestStepInv, Zenon DEF Invoke
<1>11. ASSUME NEW o \in Returned, Return(d, a, o)
       PROVE  DispatcherInv'
  <2>1. /\ call[d][a] = "invoking" /\ a <= MaxAttempts /\ Enter(d, a, o)
        /\ UNCHANGED <<vars, request>> /\ faults' \in 0..MaxFaults
        /\ o \in KnownNotCommitted => request[d][a] = "refused"
    BY <1>1, <1>11 DEF Return
  <2>2. o \in Phase /\ o \notin {"none", "claimed", "fenced", "granted"}
    BY DEF Phase, Returned, Outcome
  <2> QED
    BY <2>1, <2>2, PhaseStepInv
<1> QED
  BY <1>3, <1>4, <1>5, <1>6, <1>7, <1>8, <1>9, <1>10, <1>11 DEF Proceed

\* Every step of the composed system preserves the invariant.
LEMMA DispatcherNextInv == DispatcherInv /\ [DispatcherNext]_allVars => DispatcherInv'
<1> SUFFICES ASSUME DispatcherInv, [DispatcherNext]_allVars PROVE DispatcherInv'
  OBVIOUS
<1>1. OutboxInv'
  BY StoreStep, NextInv DEF DispatcherInv
<1>2. ASSUME UNCHANGED <<attempts, granted, call, request>>, faults' \in 0..MaxFaults
      PROVE  DispatcherInv'
  <2>1. DispatcherTypeOK' /\ RunProgress'
    BY <1>1, <1>2, Zenon DEF DispatcherInv, DispatcherTypeOK, RunProgress, OutboxInv
  <2>2. EffectOnRecord' /\ IntentBeforeEffect'
    BY <1>2, Zenon DEF DispatcherInv, EffectOnRecord, IntentBeforeEffect
  <2> QED
    BY <1>1, <2>1, <2>2 DEF DispatcherInv
<1>3. faults \in 0..MaxFaults /\ MaxFaults \in Nat
  BY DispatcherAssumption DEF DispatcherInv, DispatcherTypeOK
<1>4. CASE EngineStep
  <2>1. UNCHANGED <<attempts, granted>>
    BY <1>4, Zenon DEF EngineStep, CreateSaga, EnqueueStep, CompleteSaga, BlockSagaCompensation,
       FinalizeFailFastSaga, FinalizeStoppedExecution
  <2> QED
    BY <1>2, <1>3, <1>4, <2>1 DEF EngineStep, dispatcherVars
<1>5. ASSUME NEW d \in Dispatch, Claims(d) PROVE DispatcherInv'
  BY <1>5, ClaimsInv
<1>6. ASSUME NEW d \in Dispatch, Elapse(d) PROVE DispatcherInv'
  <2>1. UNCHANGED <<attempts, granted, call, request>>
    BY <1>6 DEF Elapse, TimePasses
  <2>2. faults' \in 0..MaxFaults
    BY <1>3, <1>6 DEF Elapse
  <2> QED
    BY <1>2, <2>1, <2>2
<1>7. ASSUME NEW d \in Dispatch, NEW a \in Claim, Abandon(d, a) PROVE DispatcherInv'
  <2>1. /\ call[d][a] \notin {"none", "done"} /\ Enter(d, a, "done")
        /\ UNCHANGED <<vars, request>> /\ "done" \in Phase /\ "done" \notin KnownNotCommitted
    BY <1>7 DEF Abandon, Phase, KnownNotCommitted
  <2>2. faults' \in 0..MaxFaults
    BY <1>3, <1>7 DEF Abandon
  <2> QED
    BY <2>1, <2>2, PhaseStepInv
<1>8. ASSUME NEW d \in Dispatch, NEW a \in Claim, Apply(d, a) \/ Refuse(d, a) PROVE DispatcherInv'
  <2>1. CASE Apply(d, a)
    BY <2>1, RequestStepInv, Zenon DEF Apply
  <2>2. CASE Refuse(d, a)
    BY <2>2, RequestStepInv, Zenon DEF Refuse
  <2> QED
    BY <1>8, <2>1, <2>2
<1>9. CASE UNCHANGED allVars
  BY <1>2, <1>3, <1>9 DEF allVars, vars, dispatcherVars
<1> QED
  BY <1>4, <1>5, <1>6, <1>7, <1>8, <1>9, ProceedInv DEF DispatcherNext

\* The inductive invariant of outbox, dispatchers and destination.
THEOREM DispatcherInvariant == DispatcherSpec => []DispatcherInv
  BY DispatcherInitInv, DispatcherNextInv, PTL DEF DispatcherSpec

\* Every call, request and attempt row of a dispatcher has its type, for any
\* number of claims: attempt numbers stay within the rows the store keeps.
THEOREM DispatcherTyped == DispatcherSpec => []DispatcherTypeOK
<1>1. DispatcherInv => DispatcherTypeOK
  BY DEF DispatcherInv
<1> QED
  BY <1>1, DispatcherInvariant, PTL

\* Dispatchers, whatever their crashes and delays, drive the store only through
\* its operations: every theorem about Spec holds of the composed system.
THEOREM DispatcherImplementsOutbox == DispatcherSpec => Spec
<1>1. DispatcherInit => Init
  BY DEF DispatcherInit
<1>2. DispatcherInv /\ [DispatcherNext]_allVars => [Next]_vars
  BY StoreStep DEF DispatcherInv
<1> QED
  BY <1>1, <1>2, DispatcherInvariant, PTL DEF DispatcherSpec, Spec

\* A request that may have had an effect, of a dispatch with no attempt left
\* unresolved, was recorded as a success.
LEMMA EffectRecorded ==
    ASSUME DispatcherInv, NEW d \in Dispatch, NEW a \in Claim,
           request[d][a] \in {"sent", "applied"}, dispatch[d] \notin Unresolved
    PROVE  dispatch[d] = "succeeded"
<1>1. /\ a <= Len(attempts[d])
      /\ attempts[d][a] \in {"open", "unknown", "success"}
  BY DEF DispatcherInv, IntentBeforeEffect, EffectOnRecord
<1>2. attempts[d] \in Seq(AttemptOutcome) /\ a \in 1..Len(attempts[d])
  BY <1>1, ClaimNat DEF DispatcherInv, DispatcherTypeOK, TypeOK
<1>3. dispatch[d] \notin {"failed_permanent", "canceled"}
  BY <1>1, <1>2 DEF DispatcherInv, OutboxInv, NoMaskedUnknown
<1>4. dispatch[d] \notin {"absent", "queued"}
  BY <1>2 DEF DispatcherInv, OutboxInv, AttemptHistory
<1>5. dispatch[d] \in DispatchState \cup {"absent"}
  BY DEF DispatcherInv, OutboxInv, TypeOK
<1> QED
  BY <1>3, <1>4, <1>5 DEF DispatchState, Unresolved

\* No settled saga has an effect at the destination that the outbox does not
\* show as succeeded, for any number of workers, crashes and late answers.
THEOREM NoEffectIsSilent == DispatcherSpec => []NoSilentEffect
<1>1. ASSUME DispatcherInv, NEW d \in Dispatch, saga[SagaOf(d)] \in Settled
      PROVE  dispatch[d] \notin Unresolved
  BY <1>1, OutboxSettledMeaning, DispatchIds DEF DispatcherInv, SettledMeaning
<1>2. DispatcherInv => NoSilentEffect
  BY <1>1, EffectRecorded DEF NoSilentEffect
<1> QED
  BY <1>2, DispatcherInvariant, PTL

\* While a saga compensates, every forward effect it may have is one of the
\* succeeded steps that compensation walks back over.
THEOREM NoForwardEffectEscapes == DispatcherSpec => []NoEffectEscapesCompensation
<1>1. ASSUME DispatcherInv, NEW s \in Saga, NEW n \in Sequence, NEW m \in Sequence, NEW a \in Claim,
             dispatch[Compensation(s, n)] # "absent",
             request[Forward(s, m)][a] \in {"sent", "applied"}
      PROVE  dispatch[Forward(s, m)] = "succeeded"
  <2>1. dispatch[Forward(s, m)] \notin Unresolved
    BY <1>1 DEF DispatcherInv, OutboxInv, CompensationAfterKnownFailure
  <2> QED
    BY <1>1, <2>1, EffectRecorded, DispatchIds, Zenon
<1>2. DispatcherInv => NoEffectEscapesCompensation
  BY <1>1 DEF NoEffectEscapesCompensation
<1> QED
  BY <1>2, DispatcherInvariant, PTL

\* Dispatch calls a destination only under a durable claim with persisted
\* grants, and never beyond the retry budget.
THEOREM IntentPrecedesEffect == DispatcherSpec => []IntentBeforeEffect
<1>1. DispatcherInv => IntentBeforeEffect
  BY DEF DispatcherInv
<1> QED
  BY <1>1, DispatcherInvariant, PTL
=============================================================================
