----------------------- MODULE FencingPostgresProofs -----------------------
(***************************************************************************)
(* Proofs about FencingPostgres: the transactions of PostgresProvider      *)
(* implement the contract of a fencing provider, for any holders,          *)
(* resources and numbers of attempts, wherever connections break.          *)
(***************************************************************************)
EXTENDS FencingPostgres, FiniteSetTheorems, TLAPS

\* What the proof takes for granted of the constants.
PostgresConstants ==
    /\ IsFiniteSet(Holder) /\ "none" \notin Holder
    /\ TTL \in Nat \ {0} /\ MaxTime \in Nat /\ MaxToken \in Nat

Row == [holder : Holder \cup {"none"}, token : Nat, expires : Nat, revision : Nat]

\* A call before its first statement, and after it.
Begun == [phase : {"begun"}, resource : Resource, try : Nat, now : Nat]
Running == [phase : {"waiting", "issued", "persisted", "failed"}, resource : Resource,
            try : Nat, now : Nat, counter : Nat, row : Row]

PostgresTypeOK ==
    /\ clock \in 0..MaxTime
    /\ counter \in [Resource -> Nat]
    /\ row \in [Resource -> Row]
    /\ grants \subseteq [resource : Resource, holder : Holder, token : Nat]
    /\ held \in [Holder -> SUBSET grants]
    /\ tx \in [Holder -> {Idle} \cup Begun \cup Running]

\* The calls that run for a resource.
CallsOn(r) == {h \in Holder : tx[h] # Idle /\ tx[h].resource = r}

\* Time does not run backwards; the lock on a counter row keeps the counter
\* as the snapshot saw it; behind the lock on a lease row the lease expired.
CallOK(h) ==
    /\ tx[h] # Idle => tx[h].now <= clock
    /\ tx[h].phase \in {"issued", "persisted"} => counter[tx[h].resource] = tx[h].counter
    /\ tx[h].phase = "persisted" => row[tx[h].resource].expires <= clock

\* The row lock belongs to one transaction.
OneLock ==
    \A h, k \in Holder, r \in Resource : Locks(h, r) /\ Locks(k, r) => h = k

\* The tokens the running calls may still get are within the bound.
Budget ==
    \A r \in Resource : counter[r] + Cardinality(CallsOn(r)) <= MaxToken

PostgresInv ==
    /\ PostgresTypeOK
    /\ \A h \in Holder : CallOK(h)
    /\ OneLock
    /\ Budget

-----------------------------------------------------------------------------
(* Records.                                                                *)

\* The forms a call can have.
LEMMA CallForms ==
    ASSUME NEW t \in {Idle} \cup Begun \cup Running
    PROVE  /\ t = Idle <=> t.phase = "idle"
           /\ t # Idle => t.resource \in Resource /\ t.try \in Nat /\ t.now \in Nat
           /\ t.phase = "begun" => t \in Begun
           /\ t.phase \in {"waiting", "issued", "persisted", "failed"} => t \in Running
           /\ t \in Running => t.counter \in Nat /\ t.row \in Row
<1>1. Idle.phase = "idle"
  BY DEF Idle
<1>2. t \in Begun => t.phase = "begun" /\ t.resource \in Resource /\ t.try \in Nat /\ t.now \in Nat
  BY DEF Begun
<1>3. t \in Running => /\ t.phase \in {"waiting", "issued", "persisted", "failed"}
                       /\ t.resource \in Resource /\ t.try \in Nat /\ t.now \in Nat
                       /\ t.counter \in Nat /\ t.row \in Row
  BY DEF Running
<1> QED
  BY <1>1, <1>2, <1>3

\* Only the phase of a running call changes.
LEMMA NewPhase ==
    ASSUME NEW t \in Running, NEW p \in {"waiting", "issued", "persisted", "failed"}
    PROVE  LET y == [t EXCEPT !.phase = p]
           IN  /\ y \in Running /\ y.phase = p /\ y.resource = t.resource
               /\ y.now = t.now /\ y.counter = t.counter
  BY DEF Running

\* The calls on a resource are finitely many.
LEMMA CallsCounted ==
    ASSUME PostgresConstants, NEW r
    PROVE  IsFiniteSet(CallsOn(r)) /\ Cardinality(CallsOn(r)) \in Nat
<1>1. CallsOn(r) \subseteq Holder
  BY DEF CallsOn
<1> QED
  BY <1>1, FS_Subset, FS_CardinalityType DEF PostgresConstants

-----------------------------------------------------------------------------
(* The steps of a call up to COMMIT change nothing that others can see.    *)

\* A transaction that opens or goes on keeps the invariant.
LEMMA CallStep ==
    ASSUME PostgresConstants, PostgresInv, NEW h \in Holder,
           NEW y \in {Idle} \cup Begun \cup Running,
           tx' = [tx EXCEPT ![h] = y], UNCHANGED <<clock, counter, row, grants, held>>,
           y # Idle => y.now <= clock,
           y.phase \in {"issued", "persisted"} =>
             /\ counter[y.resource] = y.counter
             /\ \A k \in Holder \ {h} : ~Locks(k, y.resource),
           y.phase = "persisted" => row[y.resource].expires <= clock,
           y # Idle => \/ tx[h] # Idle /\ y.resource = tx[h].resource
                       \/ counter[y.resource] + Cardinality(CallsOn(y.resource)) < MaxToken
    PROVE  PostgresInv'
<1>0. PostgresTypeOK /\ tx \in [Holder -> {Idle} \cup Begun \cup Running]
  BY DEF PostgresInv, PostgresTypeOK
<1>1. tx'[h] = y /\ \A k \in Holder : k # h => tx'[k] = tx[k]
  BY <1>0
<1>2. PostgresTypeOK'
  <2>1. tx' \in [Holder -> {Idle} \cup Begun \cup Running]
    BY <1>0
  <2> QED
    BY <1>0, <2>1 DEF PostgresTypeOK
<1>3. ASSUME NEW k \in Holder
      PROVE  CallOK(k)'
  <2>1. CASE k = h
    BY <1>1, <2>1 DEF CallOK
  <2>2. CASE k # h
    BY <1>1, <2>2 DEF CallOK, PostgresInv
  <2> QED
    BY <2>1, <2>2
<1>4. OneLock'
  <2> SUFFICES ASSUME NEW j \in Holder, NEW k \in Holder, NEW r \in Resource,
                      Locks(j, r)', Locks(k, r)', j # k
               PROVE  FALSE
    BY DEF OneLock
  <2>1. ASSUME NEW i \in Holder, i # h, Locks(i, r)'
        PROVE  Locks(i, r)
    BY <1>1, <2>1 DEF Locks
  <2>2. Locks(h, r)' => y.phase \in {"issued", "persisted"} /\ y.resource = r
    BY <1>1 DEF Locks
  <2>3. CASE j = h
    BY <2>1, <2>2, <2>3
  <2>4. CASE k = h
    BY <2>1, <2>2, <2>4
  <2>5. CASE j # h /\ k # h
    BY <2>1, <2>5 DEF PostgresInv, OneLock
  <2> QED
    BY <2>3, <2>4, <2>5
<1>5. Budget'
  <2> SUFFICES ASSUME NEW r \in Resource
               PROVE  counter[r] + Cardinality(CallsOn(r)') <= MaxToken
    BY DEF Budget
  <2>0. /\ counter[r] \in Nat /\ MaxToken \in Nat
        /\ counter[r] + Cardinality(CallsOn(r)) <= MaxToken
        /\ IsFiniteSet(CallsOn(r)) /\ Cardinality(CallsOn(r)) \in Nat
    BY <1>0, CallsCounted DEF PostgresTypeOK, PostgresConstants, PostgresInv, Budget
  <2>1. CASE y = Idle \/ y.resource # r \/ (tx[h] # Idle /\ tx[h].resource = r)
    <3>1. CallsOn(r)' \subseteq CallsOn(r)
      BY <1>1, <2>1 DEF CallsOn
    <3>2. Cardinality(CallsOn(r)') \in Nat /\ Cardinality(CallsOn(r)') <= Cardinality(CallsOn(r))
      BY <2>0, <3>1, FS_Subset, FS_CardinalityType
    <3> QED
      BY <2>0, <3>2
  <2>2. CASE y # Idle /\ y.resource = r /\ ~(tx[h] # Idle /\ tx[h].resource = r)
    <3>1. counter[r] + Cardinality(CallsOn(r)) < MaxToken
      BY <2>2
    <3>2. CallsOn(r)' = CallsOn(r) \cup {h} /\ h \notin CallsOn(r)
      BY <1>1, <2>2 DEF CallsOn
    <3>3. Cardinality(CallsOn(r)') = Cardinality(CallsOn(r)) + 1
      BY <2>0, <3>2, FS_AddElement, Zenon
    <3> QED
      BY <2>0, <3>1, <3>3
  <2> QED
    BY <2>1, <2>2
<1> QED
  BY <1>2, <1>3, <1>4, <1>5 DEF PostgresInv

\* Acquire begins its transaction.
LEMMA AcquireCallInv ==
    ASSUME PostgresConstants, PostgresInv, NEW h \in Holder, NEW r \in Resource,
           AcquireCall(h, r)
    PROVE  PostgresInv'
<1> DEFINE y == [phase |-> "begun", resource |-> r, try |-> 1, now |-> clock]
           running == {k \in Holder : tx[k] # Idle}
<1>1. /\ tx' = [tx EXCEPT ![h] = y] /\ UNCHANGED <<clock, counter, row, grants, held>>
      /\ counter[r] + Cardinality(running) < MaxToken
  BY DEF AcquireCall, Begin
<1>2. counter[r] \in Nat /\ clock \in Nat /\ MaxToken \in Nat
  BY DEF PostgresInv, PostgresTypeOK, PostgresConstants
<1>3. y \in Begun /\ y.phase = "begun" /\ y.resource = r /\ y.now = clock
  BY <1>2 DEF Begun
<1>4. counter[r] + Cardinality(CallsOn(r)) < MaxToken
  <2>1. IsFiniteSet(running) /\ Cardinality(running) \in Nat
    BY FS_Subset, FS_CardinalityType DEF PostgresConstants
  <2>2. CallsOn(r) \subseteq running
    BY DEF CallsOn
  <2>3. Cardinality(CallsOn(r)) \in Nat /\ Cardinality(CallsOn(r)) <= Cardinality(running)
    <3> HIDE DEF running
    <3> QED
      BY <2>1, <2>2, FS_Subset, FS_CardinalityType
  <2> QED
    BY <1>1, <1>2, <2>1, <2>3
<1> HIDE DEF y, running
<1>5. /\ y \in {Idle} \cup Begun \cup Running /\ y.now <= clock
      /\ y.phase \notin {"issued", "persisted"} /\ y.phase # "persisted"
  BY <1>2, <1>3
<1> QED
  BY <1>1, <1>3, <1>4, <1>5, CallStep, Zenon

\* The statements of acquireOnce before COMMIT, the retries and the failures.
LEMMA StatementInv ==
    ASSUME PostgresConstants, PostgresInv, NEW h \in Holder,
           \/ Snapshot(h) \/ IssueToken(h) \/ LeaseHeld(h) \/ PersistLease(h)
           \/ Retry(h) \/ Broken(h) \/ Aborted(h)
    PROVE  PostgresInv'
<1> DEFINE t == tx[h]
<1>0. /\ t \in {Idle} \cup Begun \cup Running /\ CallOK(h) /\ OneLock
      /\ clock \in Nat /\ counter \in [Resource -> Nat] /\ row \in [Resource -> Row]
      /\ UNCHANGED <<clock, counter, row, grants, held>>
  BY DEF PostgresInv, PostgresTypeOK, Snapshot, IssueToken, LeaseHeld, PersistLease, Retry,
         Broken, Aborted
<1>1. t.phase # "idle" => t # Idle /\ t.now <= clock /\ t.resource \in Resource
  BY <1>0, CallForms DEF CallOK
<1>2. ASSUME tx' = [tx EXCEPT ![h] = Idle]
      PROVE  PostgresInv'
  <2>1. Idle.phase = "idle"
    BY DEF Idle
  <2> QED
    BY <1>0, <1>2, <2>1, CallStep, Zenon
<1>3. CASE Snapshot(h)
  <2> DEFINE y == [phase |-> "waiting", resource |-> t.resource, try |-> t.try, now |-> t.now,
                   counter |-> counter[t.resource], row |-> row[t.resource]]
  <2>1. t.phase = "begun" /\ tx' = [tx EXCEPT ![h] = y]
    BY <1>3 DEF Snapshot
  <2>2. t # Idle /\ t.now <= clock /\ t.resource \in Resource /\ t.try \in Nat /\ t.now \in Nat
    BY <1>0, <1>1, <2>1, CallForms
  <2>3. y \in Running /\ y.phase = "waiting" /\ y.resource = t.resource /\ y.now = t.now
    BY <1>0, <2>2 DEF Running
  <2> HIDE DEF y, t
  <2>4. y.phase \notin {"issued", "persisted"}
    BY <2>3
  <2> QED
    BY <1>0, <2>1, <2>2, <2>3, <2>4, CallStep, Zenon DEF t
<1>4. ASSUME NEW p \in {"waiting", "issued", "persisted", "failed"}, t \in Running,
             tx' = [tx EXCEPT ![h] = [t EXCEPT !.phase = p]], t.phase # "idle",
             p \in {"issued", "persisted"} =>
               /\ counter[t.resource] = t.counter
               /\ \A k \in Holder \ {h} : ~Locks(k, t.resource),
             p = "persisted" => row[t.resource].expires <= clock
      PROVE  PostgresInv'
  <2> DEFINE y == [t EXCEPT !.phase = p]
  <2>1. /\ y \in Running /\ y.phase = p /\ y.resource = t.resource
        /\ y.now = t.now /\ y.counter = t.counter
    BY <1>4, NewPhase, Zenon
  <2>2. tx' = [tx EXCEPT ![h] = y] /\ t # Idle /\ t.now <= clock
    BY <1>1, <1>4
  <2> HIDE DEF y
  <2> QED
    BY <1>0, <1>4, <2>1, <2>2, CallStep, ZenonT(30)
<1>5. CASE IssueToken(h)
  <2> DEFINE p == IF counter[t.resource] = t.counter THEN "issued" ELSE "failed"
  <2>1. /\ t.phase = "waiting" /\ tx' = [tx EXCEPT ![h] = [t EXCEPT !.phase = p]]
        /\ \A k \in Holder : ~Locks(k, t.resource)
    BY <1>5 DEF IssueToken
  <2>2. t \in Running
    BY <1>0, <2>1, CallForms
  <2> QED
    BY <1>4, <2>1, <2>2, Zenon
<1>6. CASE PersistLease(h)
  <2> DEFINE p == IF row[t.resource] \in {t.row, NoRow} THEN "persisted" ELSE "failed"
  <2>1. /\ t.phase = "issued" /\ tx' = [tx EXCEPT ![h] = [t EXCEPT !.phase = p]]
        /\ t.row = NoRow \/ t.row.expires <= t.now
    BY <1>6 DEF PersistLease
  <2>2. t \in Running /\ t.row \in Row /\ t.now \in Nat /\ t.now <= clock /\ t.resource \in Resource
    BY <1>0, <1>1, <2>1, CallForms
  <2>3. p = "persisted" => row[t.resource].expires <= clock
    <3>1. t.row.expires \in Nat /\ NoRow.expires = 0
      BY <2>2 DEF Row, NoRow
    <3>2. t.row.expires <= clock /\ NoRow.expires <= clock
      BY <1>0, <2>1, <2>2, <3>1
    <3> QED
      BY <3>2
  <2>4. counter[t.resource] = t.counter
    BY <1>0, <2>1 DEF CallOK
  <2>5. \A k \in Holder \ {h} : ~Locks(k, t.resource)
    BY <1>0, <2>1, <2>2 DEF OneLock, Locks
  <2> HIDE DEF t
  <2>6. p \in {"persisted", "failed"}
    OBVIOUS
  <2> HIDE DEF p
  <2> QED
    BY <1>4, <2>1, <2>2, <2>3, <2>4, <2>5, <2>6, Zenon DEF t
<1>7. CASE Aborted(h)
  <2>1. t.phase = "persisted" /\ tx' = [tx EXCEPT ![h] = [t EXCEPT !.phase = "failed"]]
    BY <1>7 DEF Aborted
  <2>2. t \in Running
    BY <1>0, <2>1, CallForms
  <2> QED
    BY <1>4, <2>1, <2>2
<1>8. CASE LeaseHeld(h) \/ Broken(h)
  BY <1>2, <1>8 DEF LeaseHeld, Broken
<1>9. CASE Retry(h)
  <2> DEFINE y == [phase |-> "begun", resource |-> t.resource, try |-> t.try + 1, now |-> clock]
  <2>1. t.phase = "failed" /\ (tx' = [tx EXCEPT ![h] = y] \/ tx' = [tx EXCEPT ![h] = Idle])
    BY <1>9 DEF Retry, Begin
  <2>2. t # Idle /\ t.resource \in Resource /\ t.try + 1 \in Nat
    BY <1>0, <1>1, <2>1, CallForms
  <2>3. y \in Begun /\ y.phase = "begun" /\ y.resource = t.resource /\ y.now = clock
    BY <1>0, <2>2 DEF Begun
  <2> HIDE DEF y, t
  <2>4. ASSUME tx' = [tx EXCEPT ![h] = y]
        PROVE  PostgresInv'
    <3>1. /\ y \in {Idle} \cup Begun \cup Running /\ y.now <= clock
          /\ y.phase \notin {"issued", "persisted"} /\ y.phase # "persisted"
      BY <1>0, <2>3
    <3> QED
      BY <1>0, <2>2, <2>3, <2>4, <3>1, CallStep, Zenon DEF t
  <2> QED
    BY <1>2, <2>1, <2>4
<1> QED
  BY <1>3, <1>5, <1>6, <1>7, <1>8, <1>9

\* What COMMIT does.
LEMMA CommitFacts ==
    ASSUME PostgresConstants, PostgresInv, NEW h \in Holder, NEW answered \in BOOLEAN,
           Commit(h, answered)
    PROVE  LET r == tx[h].resource
               g == [resource |-> r, holder |-> h, token |-> counter[r] + 1]
           IN  /\ tx[h] # Idle /\ r \in Resource /\ tx[h].now \in Nat /\ tx[h].now <= clock
               /\ row[r].expires <= clock /\ Locks(h, r)
               /\ counter[r] + 1 \in Nat /\ counter[r] + 1 <= MaxToken
               /\ counter' = [counter EXCEPT ![r] = counter[r] + 1]
               /\ \E v \in Nat :
                    row' = [row EXCEPT ![r] = [holder |-> h, token |-> counter[r] + 1,
                                               expires |-> tx[h].now + TTL, revision |-> v]]
               /\ grants' = grants \cup {g}
               /\ held' = [held EXCEPT ![h] = held[h] \cup IF answered THEN {g} ELSE {}]
               /\ tx' = [tx EXCEPT ![h] = Idle]
               /\ UNCHANGED clock
<1> DEFINE t == tx[h]
           r == t.resource
<1>0. /\ t \in {Idle} \cup Begun \cup Running /\ CallOK(h) /\ Budget
      /\ counter \in [Resource -> Nat] /\ row \in [Resource -> Row] /\ MaxToken \in Nat
  BY DEF PostgresInv, PostgresTypeOK, PostgresConstants
<1>1. t.phase = "persisted"
  BY DEF Commit
<1>2. t # Idle /\ r \in Resource /\ t.now \in Nat /\ t.now <= clock
  BY <1>0, <1>1, CallForms DEF CallOK
<1>3. counter[r] = t.counter /\ row[r].expires <= clock /\ Locks(h, r)
  BY <1>0, <1>1 DEF CallOK, Locks
<1>4. row[r].revision + 1 \in Nat
  BY <1>0, <1>2 DEF Row
<1>5. counter[r] + 1 \in Nat /\ counter[r] + 1 <= MaxToken
  <2>1. h \in CallsOn(r)
    BY <1>2 DEF CallsOn
  <2>2. Cardinality(CallsOn(r)) \in Nat /\ Cardinality(CallsOn(r)) # 0
    BY <2>1, CallsCounted, FS_EmptySet
  <2>3. counter[r] \in Nat /\ counter[r] + Cardinality(CallsOn(r)) <= MaxToken
    BY <1>0, <1>2 DEF Budget
  <2> QED
    BY <1>0, <2>2, <2>3
<1>6. /\ counter' = [counter EXCEPT ![r] = counter[r] + 1]
      /\ row' = [row EXCEPT ![r] = [holder |-> h, token |-> counter[r] + 1,
                                    expires |-> t.now + TTL, revision |-> row[r].revision + 1]]
      /\ grants' = grants \cup {[resource |-> r, holder |-> h, token |-> counter[r] + 1]}
      /\ held' = [held EXCEPT ![h] = held[h] \cup
                    IF answered THEN {[resource |-> r, holder |-> h, token |-> counter[r] + 1]}
                                ELSE {}]
      /\ tx' = [tx EXCEPT ![h] = Idle] /\ UNCHANGED clock
  BY <1>3 DEF Commit
<1> QED
  BY <1>2, <1>3, <1>4, <1>5, <1>6, Zenon

\* COMMIT keeps the invariant: the committed row was locked.
LEMMA CommitInv ==
    ASSUME PostgresConstants, PostgresInv, NEW h \in Holder, NEW answered \in BOOLEAN,
           Commit(h, answered)
    PROVE  PostgresInv'
<1> DEFINE r == tx[h].resource
           g == [resource |-> r, holder |-> h, token |-> counter[r] + 1]
<1>0. /\ PostgresTypeOK /\ OneLock /\ Budget /\ \A k \in Holder : CallOK(k)
      /\ counter \in [Resource -> Nat] /\ row \in [Resource -> Row]
      /\ tx \in [Holder -> {Idle} \cup Begun \cup Running]
      /\ held \in [Holder -> SUBSET grants]
      /\ grants \subseteq [resource : Resource, holder : Holder, token : Nat]
      /\ MaxToken \in Nat /\ TTL \in Nat
  BY DEF PostgresInv, PostgresTypeOK, PostgresConstants
<1>1. /\ tx[h] # Idle /\ r \in Resource /\ tx[h].now \in Nat /\ Locks(h, r)
      /\ counter[r] + 1 \in Nat /\ counter[r] + 1 <= MaxToken
      /\ counter' = [counter EXCEPT ![r] = counter[r] + 1]
      /\ grants' = grants \cup {g}
      /\ held' = [held EXCEPT ![h] = held[h] \cup IF answered THEN {g} ELSE {}]
      /\ tx' = [tx EXCEPT ![h] = Idle]
      /\ UNCHANGED clock
  BY CommitFacts, Zenon
<1>2. PICK v \in Nat :
        row' = [row EXCEPT ![r] = [holder |-> h, token |-> counter[r] + 1,
                                   expires |-> tx[h].now + TTL, revision |-> v]]
  BY CommitFacts, Zenon
<1> DEFINE x == [holder |-> h, token |-> counter[r] + 1,
                 expires |-> tx[h].now + TTL, revision |-> v]
<1>3. x \in Row /\ g \in [resource : Resource, holder : Holder, token : Nat]
  BY <1>0, <1>1 DEF Row
<1>4. row' = [row EXCEPT ![r] = x]
  BY <1>2
<1> HIDE DEF x, g, r
<1>5. PostgresTypeOK'
  <2>1. row' \in [Resource -> Row] /\ counter' \in [Resource -> Nat]
    BY <1>0, <1>1, <1>3, <1>4
  <2>2. held' \in [Holder -> SUBSET grants']
    <3>1. held[h] \cup (IF answered THEN {g} ELSE {}) \in SUBSET grants'
      BY <1>0, <1>1
    <3>2. held \in [Holder -> SUBSET grants']
      BY <1>0, <1>1
    <3> QED
      BY <1>1, <3>1, <3>2
  <2>3. tx' \in [Holder -> {Idle} \cup Begun \cup Running]
    BY <1>0, <1>1
  <2> QED
    BY <1>0, <1>1, <1>3, <2>1, <2>2, <2>3 DEF PostgresTypeOK
<1>6. tx'[h] = Idle /\ \A k \in Holder : k # h => tx'[k] = tx[k]
  BY <1>0, <1>1
<1>7. Idle.phase = "idle"
  BY DEF Idle
<1>8. OneLock'
  <2>1. \A k \in Holder, s \in Resource : Locks(k, s)' => Locks(k, s)
    BY <1>6, <1>7 DEF Locks
  <2> QED
    BY <1>0, <2>1 DEF OneLock
<1>9. ASSUME NEW k \in Holder
      PROVE  CallOK(k)'
  <2>1. CASE k = h
    BY <1>6, <1>7, <2>1 DEF CallOK
  <2>2. CASE k # h
    <3>1. tx[k].phase \in {"issued", "persisted"} => tx[k].resource \in Resource
      BY <1>0, CallForms
    <3>2. tx[k].phase \in {"issued", "persisted"} => tx[k].resource # r
      BY <1>0, <1>1, <2>2 DEF OneLock, Locks
    <3>3. CallOK(k) /\ tx'[k] = tx[k]
      BY <1>0, <1>6, <2>2
    <3>4. tx[k].phase \in {"issued", "persisted"} =>
            /\ counter'[tx[k].resource] = counter[tx[k].resource]
            /\ row'[tx[k].resource] = row[tx[k].resource]
      BY <1>0, <1>1, <1>4, <3>1, <3>2
    <3> QED
      BY <1>1, <3>3, <3>4, Zenon DEF CallOK
  <2> QED
    BY <2>1, <2>2
<1>10. Budget'
  <2> SUFFICES ASSUME NEW s \in Resource
               PROVE  counter'[s] + Cardinality(CallsOn(s)') <= MaxToken
    BY DEF Budget
  <2>0. /\ counter[s] \in Nat /\ counter[s] + Cardinality(CallsOn(s)) <= MaxToken
        /\ IsFiniteSet(CallsOn(s)) /\ Cardinality(CallsOn(s)) \in Nat
    BY <1>0, CallsCounted DEF Budget
  <2>1. CASE s = r
    <3>1. CallsOn(s)' = CallsOn(s) \ {h} /\ h \in CallsOn(s)
      BY <1>1, <1>6, <2>1 DEF CallsOn, r
    <3>2. Cardinality(CallsOn(s)') = Cardinality(CallsOn(s)) - 1
      BY <2>0, <3>1, FS_RemoveElement, Zenon
    <3>3. counter'[s] = counter[s] + 1
      BY <1>0, <1>1, <2>1
    <3> QED
      BY <2>0, <3>2, <3>3, <1>0
  <2>2. CASE s # r
    <3>1. CallsOn(s)' = CallsOn(s)
      BY <1>1, <1>6, <2>2 DEF CallsOn, r
    <3> QED
      BY <1>0, <1>1, <2>0, <2>2, <3>1
  <2> QED
    BY <2>1, <2>2
<1> QED
  BY <1>5, <1>8, <1>9, <1>10 DEF PostgresInv

\* A row that nobody locks may change under the calls that saw it.
LEMMA RowStep ==
    ASSUME PostgresInv, NEW r \in Resource, NEW x \in Row,
           row' = [row EXCEPT ![r] = x],
           \A k \in Holder : ~LocksLease(k, r),
           UNCHANGED <<clock, counter, grants, held, tx>>
    PROVE  PostgresInv'
<1>0. /\ PostgresTypeOK /\ OneLock /\ Budget /\ \A k \in Holder : CallOK(k)
      /\ row \in [Resource -> Row] /\ tx \in [Holder -> {Idle} \cup Begun \cup Running]
  BY DEF PostgresInv, PostgresTypeOK
<1>1. PostgresTypeOK'
  BY <1>0 DEF PostgresTypeOK
<1>2. OneLock' /\ Budget'
  BY <1>0 DEF OneLock, Budget, Locks, CallsOn
<1>3. ASSUME NEW k \in Holder
      PROVE  CallOK(k)'
  <2>1. tx[k].phase = "persisted" => tx[k].resource \in Resource /\ tx[k].resource # r
    BY <1>0, CallForms DEF LocksLease
  <2>2. tx[k].phase = "persisted" => row'[tx[k].resource] = row[tx[k].resource]
    BY <1>0, <2>1
  <2> QED
    BY <1>0, <2>2 DEF CallOK
<1> QED
  BY <1>1, <1>2, <1>3 DEF PostgresInv

\* What a handle of a caller is.
LEMMA HandleFacts ==
    ASSUME PostgresConstants, PostgresInv, NEW h \in Holder, NEW g \in held[h], Owns(h, g)
    PROVE  /\ g \in grants /\ g.resource \in Resource /\ g.holder \in Holder
           /\ row[g.resource] \in Row
           /\ row[g.resource].holder = g.holder /\ row[g.resource].token = g.token
           /\ row[g.resource].holder # "none"
           /\ \A k \in Holder : ~LocksLease(k, g.resource)
<1>1. g \in [resource : Resource, holder : Holder, token : Nat] /\ g \in grants
  BY DEF PostgresInv, PostgresTypeOK
<1>2. row \in [Resource -> Row]
  BY DEF PostgresInv, PostgresTypeOK
<1>3. g.resource \in Resource /\ g.holder \in Holder
  BY <1>1
<1> QED
  BY <1>1, <1>2, <1>3 DEF Owns, PostgresConstants

\* A row with a new expiry and revision.
LEMMA RenewedRow ==
    ASSUME NEW a \in Row, NEW e \in Nat, NEW v \in Nat
    PROVE  [[a EXCEPT !.expires = e] EXCEPT !.revision = v]
             = [holder |-> a.holder, token |-> a.token, expires |-> e, revision |-> v]
<1> DEFINE x == [[a EXCEPT !.expires = e] EXCEPT !.revision = v]
           y == [holder |-> a.holder, token |-> a.token, expires |-> e, revision |-> v]
<1>1. x \in Row /\ x.holder = a.holder /\ x.token = a.token /\ x.expires = e /\ x.revision = v
  BY Zenon DEF Row
<1>2. y \in Row /\ y.holder = a.holder /\ y.token = a.token /\ y.expires = e /\ y.revision = v
  BY DEF Row
<1>3. \A b, c \in Row : b.holder = c.holder /\ b.token = c.token /\ b.expires = c.expires
                         /\ b.revision = c.revision => b = c
  BY DEF Row
<1> HIDE DEF x, y
<1>4. x = y
  BY <1>1, <1>2, <1>3
<1> QED
  BY <1>4 DEF x, y

\* What a renewal writes.
LEMMA RenewFacts ==
    ASSUME PostgresConstants, PostgresInv, NEW h \in Holder, NEW g \in held[h], NEW ttl \in 1..TTL,
           Renew(h, g, ttl)
    PROVE  LET r == g.resource
           IN  \E v \in Nat :
                 row' = [row EXCEPT ![r] = [holder |-> row[r].holder, token |-> row[r].token,
                                            expires |-> clock + ttl, revision |-> v]]
<1> DEFINE r == g.resource
           x == [[row[r] EXCEPT !.expires = clock + ttl] EXCEPT !.revision = row[r].revision + 1]
<1>1. row[r] \in Row /\ row \in [Resource -> Row] /\ r \in Resource
  BY HandleFacts DEF Renew, PostgresInv, PostgresTypeOK
<1>2. row' = [row EXCEPT ![r] = x]
  BY <1>1 DEF Renew, Row
<1>3. x = [holder |-> row[r].holder, token |-> row[r].token,
           expires |-> clock + ttl, revision |-> row[r].revision + 1]
  <2>1. row[r].revision + 1 \in Nat
    BY <1>1 DEF Row
  <2>2. clock + ttl \in Nat
    BY DEF PostgresInv, PostgresTypeOK, PostgresConstants
  <2> QED
    BY <1>1, <2>1, <2>2, RenewedRow, Zenon
<1>4. row[r].revision + 1 \in Nat
  BY <1>1 DEF Row
<1> QED
  BY <1>2, <1>3, <1>4, Zenon

\* The invariant of the provider is kept by every step.
LEMMA PostgresStepInv ==
    ASSUME PostgresConstants, PostgresInv, [PostgresNext]_pgVars
    PROVE  PostgresInv'
<1>1. CASE Tick
  <2>1. /\ clock' = clock + 1 /\ clock < MaxTime /\ clock \in 0..MaxTime /\ MaxTime \in Nat
        /\ UNCHANGED <<counter, row, grants, held, tx>>
        /\ tx \in [Holder -> {Idle} \cup Begun \cup Running] /\ row \in [Resource -> Row]
    BY <1>1 DEF Tick, PostgresInv, PostgresTypeOK, PostgresConstants
  <2>2. PostgresTypeOK' /\ OneLock' /\ Budget'
    BY <2>1 DEF PostgresInv, PostgresTypeOK, OneLock, Budget, Locks, CallsOn
  <2>3. ASSUME NEW k \in Holder
        PROVE  CallOK(k)'
    <3>1. tx[k] # Idle => tx[k].now \in Nat
      BY <2>1, CallForms
    <3>2. tx[k].phase = "persisted" => row[tx[k].resource].expires \in Nat
      <4>1. tx[k].phase = "persisted" => tx[k].resource \in Resource
        BY <2>1, CallForms
      <4> QED
        BY <2>1, <4>1 DEF Row
    <3> QED
      BY <2>1, <3>1, <3>2 DEF PostgresInv, CallOK
  <2> QED
    BY <2>2, <2>3 DEF PostgresInv
<1>2. ASSUME NEW h \in Holder, NEW g \in held[h], Release(h, g)
      PROVE  PostgresInv'
  <2>1. NoRow \in Row
    BY DEF NoRow, Row
  <2> QED
    BY <1>2, <2>1, HandleFacts, RowStep, Zenon DEF Release
<1>3. ASSUME NEW h \in Holder, NEW g \in held[h], NEW ttl \in 1..TTL, Renew(h, g, ttl)
      PROVE  PostgresInv'
  <2> DEFINE r == g.resource
  <2>1. PICK v \in Nat :
          row' = [row EXCEPT ![r] = [holder |-> row[r].holder, token |-> row[r].token,
                                     expires |-> clock + ttl, revision |-> v]]
    BY <1>3, RenewFacts, Zenon
  <2> DEFINE x == [holder |-> row[r].holder, token |-> row[r].token,
                   expires |-> clock + ttl, revision |-> v]
  <2>2. r \in Resource /\ row[r] \in Row /\ \A k \in Holder : ~LocksLease(k, r)
    BY <1>3, HandleFacts DEF Renew
  <2>3. clock + ttl \in Nat
    BY DEF PostgresInv, PostgresTypeOK, PostgresConstants
  <2>4. x \in Row
    BY <2>2, <2>3 DEF Row
  <2>5. row' = [row EXCEPT ![r] = x] /\ UNCHANGED <<clock, counter, grants, held, tx>>
    BY <1>3, <2>1, Zenon DEF Renew
  <2> HIDE DEF x, r
  <2> QED
    BY <2>2, <2>4, <2>5, RowStep, Zenon
<1>4. CASE UNCHANGED pgVars
  BY <1>4 DEF pgVars, PostgresInv, PostgresTypeOK, OneLock, Budget, Locks, CallsOn, CallOK
<1>5. ASSUME NEW h \in Holder,
             \/ \E r \in Resource : AcquireCall(h, r)
             \/ AcquireStep(h) \/ Broken(h) \/ Aborted(h)
      PROVE  PostgresInv'
  BY <1>5, AcquireCallInv, StatementInv, CommitInv DEF AcquireStep
<1> QED
  BY <1>1, <1>2, <1>3, <1>4, <1>5 DEF PostgresNext

-----------------------------------------------------------------------------
(* The contract.                                                           *)

\* COMMIT is the moment of the grant.
LEMMA CommitIsAcquire ==
    ASSUME PostgresConstants, PostgresInv, NEW h \in Holder, NEW answered \in BOOLEAN,
           Commit(h, answered)
    PROVE  Contract!FencingNext
<1> DEFINE r == tx[h].resource
           e == tx[h].now + TTL
<1>1. /\ r \in Resource /\ tx[h].now \in Nat /\ tx[h].now <= clock
      /\ row[r].expires <= clock /\ counter[r] + 1 <= MaxToken
      /\ counter' = [counter EXCEPT ![r] = counter[r] + 1]
      /\ grants' = grants \cup {[resource |-> r, holder |-> h, token |-> counter[r] + 1]}
      /\ UNCHANGED clock
  BY CommitFacts, Zenon
<1>2. PICK v \in Nat :
        row' = [row EXCEPT ![r] = [holder |-> h, token |-> counter[r] + 1,
                                   expires |-> e, revision |-> v]]
  BY CommitFacts, Zenon
<1>3. row \in [Resource -> Row] /\ clock \in Nat /\ TTL \in Nat
  BY DEF PostgresInv, PostgresTypeOK, PostgresConstants
<1>4. e \in 0..(clock + TTL)
  BY <1>1, <1>3
<1>5. ~Contract!Held(r)
  <2>1. AsLease(row[r]).expires = row[r].expires
    BY DEF AsLease
  <2>2. row[r].expires \in Nat
    BY <1>1, <1>3 DEF Row
  <2> QED
    BY <1>1, <1>3, <2>1, <2>2 DEF Contract!Held
<1> DEFINE lease == [s \in Resource |-> AsLease(row[s])]
<1>6. lease' = [lease EXCEPT ![r] = [holder |-> h, token |-> counter[r] + 1, expires |-> e]]
  <2>1. \A s \in Resource : s # r => row'[s] = row[s]
    BY <1>1, <1>2, <1>3, Zenon
  <2>2. AsLease(row'[r]) = [holder |-> h, token |-> counter[r] + 1, expires |-> e]
    BY <1>1, <1>2, <1>3, Zenon DEF AsLease
  <2> QED
    BY <1>1, <2>1, <2>2, Zenon
<1>7. Contract!Acquire(r, h, e)
  BY <1>1, <1>5, <1>6, Zenon DEF Contract!Acquire
<1> QED
  BY <1>1, <1>4, <1>7, Zenon DEF Contract!FencingNext

\* A renewal by the owner is a renewal.
LEMMA RenewIsRenew ==
    ASSUME PostgresConstants, PostgresInv, NEW h \in Holder, NEW g \in held[h], NEW ttl \in 1..TTL,
           Renew(h, g, ttl)
    PROVE  Contract!FencingNext
<1> DEFINE r == g.resource
           e == clock + ttl
           lease == [s \in Resource |-> AsLease(row[s])]
<1>1. /\ g \in grants /\ r \in Resource /\ row[r] \in Row
      /\ row[r].holder = g.holder /\ row[r].token = g.token /\ row[r].holder # "none"
  BY HandleFacts DEF Renew
<1>2. /\ row[r].expires > clock /\ UNCHANGED <<clock, counter, grants>>
      /\ row \in [Resource -> Row] /\ clock \in Nat /\ TTL \in Nat
  BY DEF Renew, PostgresInv, PostgresTypeOK, PostgresConstants
<1>3. PICK v \in Nat :
        row' = [row EXCEPT ![r] = [holder |-> row[r].holder, token |-> row[r].token,
                                   expires |-> e, revision |-> v]]
  BY RenewFacts, Zenon
<1>4. e \in 0..(clock + TTL)
  BY <1>2
<1>5. /\ lease[r] = AsLease(row[r]) /\ lease[r].holder = row[r].holder
      /\ lease[r].token = row[r].token /\ lease[r].expires = row[r].expires
  BY <1>1, Zenon DEF AsLease
<1>6. Contract!Held(r) /\ Contract!Matches(g)
  <2>1. Contract!NoLease.holder = "none"
    BY Zenon DEF Contract!NoLease
  <2>2. lease[r] # Contract!NoLease
    BY <1>1, <1>5, <2>1, Zenon
  <2> QED
    BY <1>1, <1>2, <1>5, <2>2, Zenon DEF Contract!Held, Contract!Matches
<1>7. lease' = [lease EXCEPT ![r] = [lease[r] EXCEPT !.expires = e]]
  <2>1. \A s \in Resource : s # r => row'[s] = row[s]
    BY <1>1, <1>2, <1>3
  <2>2. AsLease(row'[r]) = [holder |-> row[r].holder, token |-> row[r].token, expires |-> e]
    BY <1>1, <1>2, <1>3 DEF AsLease
  <2>3. [AsLease(row[r]) EXCEPT !.expires = e]
          = [holder |-> row[r].holder, token |-> row[r].token, expires |-> e]
    BY DEF AsLease
  <2>4. lease' = [s \in Resource |-> IF s = r THEN AsLease(row'[r]) ELSE AsLease(row[s])]
    BY <2>1
  <2> QED
    BY <1>1, <1>5, <2>2, <2>3, <2>4
<1>8. Contract!Renew(g, e)
  BY <1>2, <1>6, <1>7 DEF Contract!Renew
<1> QED
  BY <1>1, <1>4, <1>8, Zenon DEF Contract!FencingNext

\* A release by the owner is a release.
LEMMA ReleaseIsRelease ==
    ASSUME PostgresConstants, PostgresInv, NEW h \in Holder, NEW g \in held[h], Release(h, g)
    PROVE  Contract!FencingNext
<1> DEFINE r == g.resource
           lease == [s \in Resource |-> AsLease(row[s])]
<1>1. /\ g \in grants /\ r \in Resource
      /\ row[r].holder = g.holder /\ row[r].token = g.token
  BY HandleFacts DEF Release
<1>2. /\ row' = [row EXCEPT ![r] = NoRow] /\ UNCHANGED <<clock, counter, grants>>
      /\ row \in [Resource -> Row]
  BY DEF Release, PostgresInv, PostgresTypeOK
<1>3. Contract!Matches(g)
  BY <1>1 DEF Contract!Matches, AsLease
<1>4. lease' = [lease EXCEPT ![r] = Contract!NoLease]
  <2>1. AsLease(NoRow) = Contract!NoLease
    BY DEF AsLease, NoRow, Contract!NoLease
  <2>2. lease' = [s \in Resource |-> IF s = r THEN AsLease(NoRow) ELSE AsLease(row[s])]
    BY <1>1, <1>2
  <2> QED
    BY <1>1, <2>1, <2>2, Zenon
<1>5. Contract!Release(g)
  BY <1>2, <1>3, <1>4 DEF Contract!Release
<1> QED
  BY <1>1, <1>5 DEF Contract!FencingNext

\* The transactions of PostgresProvider, interleaved in any way and broken
\* off anywhere, implement the contract: the commit is the grant, everything
\* before it is invisible, renewals and releases are what they say.
THEOREM PostgresImplementsContract ==
    ASSUME PostgresConstants
    PROVE  PostgresSpec => ImplementsContract
<1>1. PostgresInit => PostgresInv /\ Contract!FencingInit
  <2> SUFFICES ASSUME PostgresInit PROVE PostgresInv /\ Contract!FencingInit
    OBVIOUS
  <2>0. NoRow \in Row /\ AsLease(NoRow) = Contract!NoLease /\ Idle.phase = "idle"
    BY DEF NoRow, Row, AsLease, Contract!NoLease, Idle
  <2>1. PostgresTypeOK
    BY <2>0 DEF PostgresInit, PostgresTypeOK, PostgresConstants
  <2>2. \A h \in Holder : tx[h] = Idle
    BY DEF PostgresInit
  <2>3. OneLock /\ \A h \in Holder : CallOK(h)
    BY <2>0, <2>2 DEF OneLock, Locks, CallOK
  <2>4. Budget
    <3>1. \A r \in Resource : CallsOn(r) = {}
      BY <2>2 DEF CallsOn
    <3>2. \A r \in Resource : counter[r] = 0
      BY DEF PostgresInit
    <3> QED
      BY <3>1, <3>2, FS_EmptySet DEF Budget, PostgresConstants
  <2>5. Contract!FencingInit
    BY <2>0 DEF PostgresInit, Contract!FencingInit
  <2> QED
    BY <2>1, <2>3, <2>4, <2>5 DEF PostgresInv
<1>2. PostgresInv /\ [PostgresNext]_pgVars => PostgresInv'
  BY PostgresStepInv
<1>3. PostgresInv /\ [PostgresNext]_pgVars => [Contract!FencingNext]_(Contract!fencingVars)
  <2> SUFFICES ASSUME PostgresInv, [PostgresNext]_pgVars
               PROVE  Contract!FencingNext \/ UNCHANGED (Contract!fencingVars)
    OBVIOUS
  <2>1. ASSUME UNCHANGED <<clock, counter, row, grants>>
        PROVE  UNCHANGED (Contract!fencingVars)
    BY <2>1 DEF Contract!fencingVars
  <2>2. CASE Tick
    BY <2>2 DEF Tick, Contract!Tick, Contract!FencingNext
  <2>3. ASSUME NEW h \in Holder,
               \/ \E r \in Resource : AcquireCall(h, r)
               \/ Snapshot(h) \/ IssueToken(h) \/ LeaseHeld(h) \/ PersistLease(h)
               \/ Retry(h) \/ Broken(h) \/ Aborted(h)
        PROVE  UNCHANGED <<clock, counter, row, grants>>
    BY <2>3, Zenon DEF AcquireCall, Snapshot, IssueToken, LeaseHeld, PersistLease, Retry, Broken, Aborted
  <2>4. CASE UNCHANGED pgVars
    BY <2>1, <2>4 DEF pgVars
  <2> QED
    BY <2>1, <2>2, <2>3, <2>4, CommitIsAcquire, RenewIsRenew, ReleaseIsRelease
      , Zenon DEF PostgresNext, AcquireStep
<1> QED
  BY <1>1, <1>2, <1>3, PTL DEF PostgresSpec, ImplementsContract, Contract!FencingSpec
============================================================================
