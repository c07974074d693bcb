--------------------------- MODULE PostgresOutbox ---------------------------
(***************************************************************************)
(* The PostgreSQL outbox store (schema/saga_outbox_postgres.go): the       *)
(* operations of SagaOutbox as READ COMMITTED transactions that interleave.*)
(*                                                                         *)
(* The variables of SagaOutbox hold the committed rows.  A session runs    *)
(* one transaction at a time; tx says which and how far it is.  Row locks  *)
(* are held until the transaction ends, so they are read off tx.  What a   *)
(* transaction reads under the locks that protect it cannot change before  *)
(* it commits, so its reads and writes after the last lock are one step.   *)
(* Two reads are not protected, and are steps of their own: now(), which   *)
(* PostgreSQL fixes when the transaction begins, and the snapshot from     *)
(* which a claim picks its dispatch before it locks the row.               *)
(*                                                                         *)
(* A transaction that holds its last lock decides whether it commits in a  *)
(* step before it does; an error, a crash or a deadlock rolls it back at   *)
(* any earlier point.                                                      *)
(***************************************************************************)
EXTENDS SagaOutbox, FiniteSetsExt

CONSTANTS Session,   \* database sessions
          NoSaga,    \* the saga of a transaction that names none
          Rank,      \* the order of the dispatch identities
          SagaRank,  \* the order of the saga identities
          Fenced,    \* the dispatches with fencing requirements
          Inverses,  \* per saga and sequence number, whether the step may have an inverse
          MaxTotal   \* bound: claims of all dispatches together

\* dispatch_id and saga_id are primary keys, and ordered.
ASSUME PostgresAssumption ==
    /\ NoSaga \notin Saga
    /\ Rank \in [Dispatch -> Nat] /\ \A d, e \in Dispatch : Rank[d] = Rank[e] => d = e
    /\ SagaRank \in [Saga -> Nat] /\ \A s, t \in Saga : SagaRank[s] = SagaRank[t] => s = t
    /\ Inverses \in [Saga -> [Sequence -> SUBSET BOOLEAN]]

VARIABLES tx   \* per session, its transaction

Finalizers == {"finalize_stopped", "block_compensation", "finalize_failfast"}

\* A finalizer goes through its `sagas'; `saga' is the one it is at, and
\* `dispatches' the rows that its last statement selected.
Idle == [op |-> "none", sagas |-> {}, saga |-> NoSaga, dispatches |-> {}, attempt |-> 0,
         past |-> {}, at |-> "idle", rows |-> {}, locked |-> {}]

pgvars == <<vars, tx>>
rows == vars

PostgresInit == Init /\ tx = [c \in Session |-> Idle]

RowsOf(s) == {d \in Dispatch : SagaOf(d) = s /\ dispatch[d] # "absent"}

\* FOR UPDATE waits for these.
RowFree(c, d) == \A b \in Session \ {c} : d \notin tx[b].rows
SagaFree(c, s) == \A b \in Session \ {c} : s \notin tx[b].locked

\* The leases of D that have expired and the retries that are due: what lies
\* in the past of a transaction that begins now.
Past(D) == {<<d, Len(attempts[d]), timer[d]>> :
               d \in {e \in D : timer[e] \in {"expired", "due"}}}

Begin(c, op, s, D, attempt, at) ==
    /\ tx[c].at = "idle"
    /\ tx' = [tx EXCEPT ![c] =
          [Idle EXCEPT !.op = op, !.saga = s, !.dispatches = D, !.attempt = attempt,
                       !.past = Past(D), !.at = at]]

At(c, op, at) == tx[c].op = op /\ tx[c].at = at

Goto(c, at) == tx' = [tx EXCEPT ![c].at = at]

Ends(c) == tx' = [tx EXCEPT ![c] = Idle]

LockRow(c, d, at) ==
    /\ RowFree(c, d)
    /\ tx' = [tx EXCEPT ![c].rows = @ \cup {d}, ![c].at = at]

LockSaga(c, at) ==
    /\ SagaFree(c, tx[c].saga)
    /\ tx' = [tx EXCEPT ![c].locked = @ \cup {tx[c].saga}, ![c].at = at]

\* An error, a crash of the client, the deadlock detector, or the end
\* of a transaction with nothing to commit any more.
Rollback(c) ==
    /\ tx[c].at \notin {"idle", "committing"}
    /\ Ends(c)
    /\ UNCHANGED rows

-----------------------------------------------------------------------------
(* Admission.  Sagas are created in the transaction that admits their      *)
(* execution, before anything finalizes it.                                *)

createSagaTx(c, s) ==
    /\ tx[c].at = "idle"
    /\ \A b \in Session : tx[b].op \in Finalizers => ExecutionOf[tx[b].saga] # ExecutionOf[s]
    /\ CreateSaga(s)
    /\ UNCHANGED tx

\* Both lock the saga only, and wait for nothing while they hold it.
enqueueStepTx(c, s) ==
    /\ tx[c].at = "idle" /\ SagaFree(c, s)
    /\ saga[s] = "running"
    /\ \E n \in Sequence :
          /\ \A m \in Sequence : (step[s][m] = "absent") <=> (m >= n)
          /\ step' = [step EXCEPT ![s][n] = "pending"]
          /\ \E has \in Inverses[s][n] : inverse' = [inverse EXCEPT ![s][n] = has]
          /\ dispatch' = [dispatch EXCEPT ![Forward(s, n)] = "queued"]
    /\ UNCHANGED <<saga, timer, granted, attempts, tx>>

CompleteSagaTx(c, s) ==
    /\ tx[c].at = "idle" /\ SagaFree(c, s)
    /\ saga[s] = "running"
    /\ {d \in RowsOf(s) : dispatch[d] # "succeeded"} = {}
    /\ saga' = [saga EXCEPT ![s] = "completed"]
    /\ UNCHANGED <<step, inverse, dispatch, timer, granted, attempts, tx>>

-----------------------------------------------------------------------------
(* ClaimDispatch.                                                          *)

\* lease_deadline > now()
LeaseActive(d, past) == <<d, Len(attempts[d]), "expired">> \notin past

\* The columns of the dispatch's own row, with the transaction's now().
RowClaimable(d, past) ==
    \/ dispatch[d] = "queued"
    \/ dispatch[d] = "retry_wait" /\ <<d, Len(attempts[d]), "due">> \in past
    \/ dispatch[d] = "in_flight" /\ ~LeaseActive(d, past)

\* The whole WHERE clause.
Claimable(d, past) ==
    /\ RowClaimable(d, past)
    /\ \/ saga[SagaOf(d)] = "running" /\ DirectionOf(d) = "forward"
       \/ saga[SagaOf(d)] = "compensating" /\ DirectionOf(d) = "compensation"
    /\ \A active \in RowsOf(SagaOf(d)) \ {d} : 
          dispatch[active] = "in_flight" => ~LeaseActive(active, past)
    /\ DirectionOf(d) = "forward" =>
          \A earlier \in RowsOf(SagaOf(d)) :
             DirectionOf(earlier) = "forward" /\ SeqOf(earlier) < SeqOf(d)
                => dispatch[earlier] = "succeeded"

\* Bounds.
MayClaim(d) ==
    /\ Len(attempts[d]) < MaxClaims
    /\ FoldSet(LAMBDA e, n : n + Len(attempts[e]), 0, Dispatch) < MaxTotal

\* The statement's snapshot: every dispatch it finds claimable.
BeginClaim(c) ==
    LET found == {d \in Dispatch : Claimable(d, Past(Dispatch))} IN
    /\ found # {}
    /\ Begin(c, "claim", NoSaga, found, 0, "locking")
    /\ UNCHANGED rows

\* FOR UPDATE SKIP LOCKED takes a row nobody holds; a row that changed since
\* the snapshot is looked at again, its own columns only.
LockClaim(c, d) ==
    /\ At(c, "claim", "locking") /\ d \in tx[c].dispatches
    /\ RowClaimable(d, tx[c].past)
    /\ MayClaim(d)
    /\ LockRow(c, d, "committing")
    /\ UNCHANGED rows

CommitClaim(c) ==
    /\ At(c, "claim", "committing")
    /\ \E d \in tx[c].rows :
          /\ dispatch' = [dispatch EXCEPT ![d] = "in_flight"]
          /\ timer' = [timer EXCEPT ![d] = "live"]
          /\ granted' = [granted EXCEPT ![d] = FALSE]
          /\ attempts' = [attempts EXCEPT ![d] = Append(@, "open")]
    /\ UNCHANGED <<saga, step, inverse>>
    /\ Ends(c)

-----------------------------------------------------------------------------
(* SaveFencingGrants and CompleteDispatch.                                 *)

\* A worker holds the lease of some attempt of a dispatch.
BeginLeased(c, op, d, attempt) ==
    /\ attempt \in 1..Len(attempts[d])
    /\ op = "save" => d \in Fenced
    /\ Begin(c, op, SagaOf(d), {d}, attempt, "row")
    /\ UNCHANGED rows

currentLease(c, d) == dispatch[d] = "in_flight" /\ tx[c].attempt = Len(attempts[d])

\* replayExistingStep: a step enqueued before is locked and compared.
BeginReplay(c, d) ==
    /\ dispatch[d] # "absent" /\ DirectionOf(d) = "forward"
    /\ tx[c].at = "idle"
    /\ tx' = [tx EXCEPT ![c] = [Idle EXCEPT !.op = "replay", !.saga = SagaOf(d),
                                            !.dispatches = {d}, !.at = "row"]]
    /\ UNCHANGED rows

LockLeased(c, d) ==
    /\ tx[c].op \in {"save", "complete", "replay"} /\ tx[c].at = "row" /\ d \in tx[c].dispatches
    /\ LockRow(c, d, IF tx[c].op = "save" THEN "ready" ELSE "saga")
    /\ UNCHANGED rows

LockCompletedSaga(c) ==
    /\ tx[c].op \in {"complete", "replay"} /\ tx[c].at = "saga"
    /\ LockSaga(c, "ready")
    /\ UNCHANGED rows

CommitSaveFencingGrants(c) ==
    /\ At(c, "save", "ready")
    /\ \E d \in tx[c].rows :
          /\ currentLease(c, d) /\ LeaseActive(d, tx[c].past)
          /\ granted' = [granted EXCEPT ![d] = TRUE]
    /\ tx' = [tx EXCEPT ![c].at = "saved", ![c].rows = {}]
    /\ UNCHANGED <<saga, step, inverse, dispatch, timer, attempts>>

\* Every earlier attempt has a row, completed as known not committed.
KnownNotCommitted(d) ==
    LET previous == 1..(Len(attempts[d]) - 1)
        known == {i \in previous : attempts[d][i] = "retryable"}
    IN  known = previous

\* compensationCandidatePostgres: the last succeeded step with an inverse.
compensationCandidate(s, steps) ==
    LET found == {n \in Sequence : steps[s][n] = "succeeded" /\ inverse[s][n]} IN
    {n \in found : \A m \in found : m <= n}

hasSucceededStep(s, steps) == \E n \in Sequence : steps[s][n] = "succeeded"

\* The saga row and the outbox after the search for a step to undo; `idle'
\* is the state of a saga that has nothing to undo, `busy' of one that has.
\* The insert leaves a compensation that exists already alone.
UndoNext(s, steps, dispatches, idle, busy) ==
    LET candidate == compensationCandidate(s, steps) IN
    /\ saga' = [saga EXCEPT ![s] =
          CASE candidate # {} -> busy
            [] candidate = {} /\ hasSucceededStep(s, steps) -> "blocked_compensation"
            [] OTHER -> idle]
    /\ dispatch' = [d \in Dispatch |->
          IF \E n \in candidate : d = Compensation(s, n) /\ dispatches[d] = "absent"
          THEN "queued" ELSE dispatches[d]]

startCompensationPostgres(s, steps, dispatches) ==
    UndoNext(s, steps, dispatches, "failed", "compensating")

enqueueNextCompensationPostgres(s, steps, dispatches) ==
    UndoNext(s, steps, dispatches, "compensated", saga[s])

\* Mutant: the UPDATE does not compare the lease deadline, nor the attempt.
CommitCompleteUnguarded(c, outcome, exhausted) ==
    /\ At(c, "complete", "ready")
    /\ \E d \in tx[c].rows :
          /\ dispatch[d] = "in_flight"
          /\ attempts' = [attempts EXCEPT ![d][tx[c].attempt] = outcome]
          /\ applyCompletion(d, outcome, exhausted)
    /\ UNCHANGED <<inverse, granted>>
    /\ Ends(c)

\* The UPDATE is guarded by the attempt, the token and the deadline; the
\* compensation that the completion starts is part of the transaction.
CommitComplete(c, outcome, exhausted) ==
    /\ At(c, "complete", "ready")
    /\ \E d \in tx[c].rows :
          LET s == SagaOf(d)
              n == SeqOf(d)
              failed == outcome = "permanent" \/ (outcome = "retryable" /\ exhausted)
              unresolved == (failed \/ outcome = "stale_fence") /\ ~KnownNotCommitted(d)
          IN  /\ currentLease(c, d) /\ LeaseActive(d, tx[c].past)
              /\ attempts' = [attempts EXCEPT ![d][tx[c].attempt] = outcome]
              /\ \/ unresolved /\ BlockUnknown(d)
                 \/ ~unresolved /\ outcome \in {"retryable", "unknown"} /\ ~exhausted /\ Retry(d)
                 \/ outcome = "unknown" /\ exhausted /\ BlockUnknown(d)
                 \/ /\ outcome = "stale_fence" /\ ~unresolved
                    /\ Block(d, "blocked_fence", "blocked_fence")
                 \/ outcome = "success" /\ ForwardSucceeds(d)
                 \/ /\ outcome = "success" /\ DirectionOf(d) = "compensation"
                    /\ step' = [step EXCEPT ![s][n] = "compensated"]
                    /\ timer' = [timer EXCEPT ![d] = "none"]
                    /\ enqueueNextCompensationPostgres(s, step', [dispatch EXCEPT ![d] = "succeeded"])
                 \/ /\ failed /\ ~unresolved /\ DirectionOf(d) = "forward"
                    /\ step' = [step EXCEPT ![s][n] = "failed"]
                    /\ timer' = [timer EXCEPT ![d] = "none"]
                    /\ startCompensationPostgres(s, step', [dispatch EXCEPT ![d] = "failed_permanent"])
                 \/ failed /\ ~unresolved /\ CompensationFails(d)
    /\ UNCHANGED <<inverse, granted>>
    /\ Ends(c)

-----------------------------------------------------------------------------
(* The finalizers.  For each of their sagas: all its rows, the saga, and    *)
(* once more its rows.                                                     *)

\* The state of a pass whose statement saw the rows D and has locked `held'.
Pass(pass, D, held) ==
    CASE D \subseteq held /\ pass = "first" -> "saga"
      [] D \subseteq held /\ pass = "second" -> "ready"
      [] OTHER -> pass

\* ORDER BY saga_id
IsFirst(s, S) == s \in S /\ \A r \in S : SagaRank[s] <= SagaRank[r]

BeginFinalizer(c, op, S) ==
    /\ tx[c].at = "idle"
    /\ \E s \in S :
          /\ IsFirst(s, S)
          /\ tx' = [tx EXCEPT ![c] =
                [Idle EXCEPT !.op = op, !.sagas = S, !.saga = s, !.dispatches = RowsOf(s),
                             !.past = Past(UNION {RowsOf(r) : r \in S}),
                             !.at = Pass("first", RowsOf(s), {})]]
    /\ UNCHANGED rows

\* The sagas are selected once, before any lock.
BeginFinalizeStopped(c, e) ==
    BeginFinalizer(c, "finalize_stopped", {s \in Saga : ExecutionOf[s] = e /\ saga[s] # "absent"})

BeginFinalizeSaga(c, op, s) ==
    /\ op # "finalize_stopped"
    /\ saga[s] # "absent"
    /\ BeginFinalizer(c, op, {s})

\* Mutant: the rows are locked in no particular order.
LockAnyNext(c, d) ==
    LET rest == tx[c].dispatches \ tx[c].rows IN
    /\ tx[c].at \in {"first", "second"}
    /\ d \in rest
    /\ LockRow(c, d, Pass(tx[c].at, rest, {d}))
    /\ UNCHANGED rows

\* lockSagaDispatches: the rows its statement saw, by dispatch identity.
LockNext(c, d) ==
    LET rest == tx[c].dispatches \ tx[c].rows IN
    /\ tx[c].at \in {"first", "second"}
    /\ d \in rest /\ \A e \in rest : Rank[d] <= Rank[e]
    /\ LockRow(c, d, Pass(tx[c].at, rest, {d}))
    /\ UNCHANGED rows

LockFinalizedSaga(c) ==
    LET D == RowsOf(tx[c].saga) IN
    /\ tx[c].op \in Finalizers /\ tx[c].at = "saga"
    /\ SagaFree(c, tx[c].saga)
    /\ tx' = [tx EXCEPT ![c].locked = @ \cup {tx[c].saga}, ![c].dispatches = D,
                        ![c].at = Pass("second", D, tx[c].rows)]
    /\ UNCHANGED rows

rejectActiveDispatchLease(c) ==
    \A d \in RowsOf(tx[c].saga) : dispatch[d] = "in_flight" => ~LeaseActive(d, tx[c].past)

UncertainRetry(d) ==
    /\ dispatch[d] = "retry_wait"
    /\ \E i \in 1..Len(attempts[d]) : attempts[d][i] \in {"unknown", "open"}

\* The three UPDATEs of the outbox: expired leases, uncertain retries, the rest.
CloseRows(D) ==
    /\ dispatch' = [d \in Dispatch |->
          CASE d \in D /\ dispatch[d] = "in_flight" -> "blocked_unknown"
            [] d \in D /\ UncertainRetry(d) -> "blocked_unknown"
            [] d \in D /\ dispatch[d] \in {"queued", "retry_wait"} /\ ~UncertainRetry(d) -> "canceled"
            [] OTHER -> dispatch[d]]
    /\ timer' = [d \in Dispatch |-> IF d \in D THEN "none" ELSE timer[d]]

\* The checks of a finalizer, under the locks of a saga and its rows.
Accepts(c) ==
    LET s == tx[c].saga IN
    /\ tx[c].op = "finalize_stopped" => rejectActiveDispatchLease(c)
    /\ tx[c].op = "block_compensation" =>
          saga[s] = "compensating" /\ rejectActiveDispatchLease(c)
    /\ tx[c].op = "finalize_failfast" =>
          /\ saga[s] = "blocked_compensation"
          /\ \A d \in RowsOf(s) : DirectionOf(d) = "forward" /\ dispatch[d] # "in_flight"

\* What the updates of a saga write cannot be seen before the commit, and
\* what they read is locked until then: all sagas are updated there.
NextSaga(c) ==
    LET rest == tx[c].sagas \ tx[c].locked IN
    /\ tx[c].op \in Finalizers /\ tx[c].at = "ready"
    /\ Accepts(c)
    /\ \E s \in rest :
          /\ IsFirst(s, rest)
          /\ tx' = [tx EXCEPT ![c].saga = s, ![c].dispatches = RowsOf(s),
                              ![c].at = Pass("first", RowsOf(s), {})]
    /\ UNCHANGED rows

Decide(c) ==
    /\ tx[c].op \in Finalizers /\ tx[c].at = "ready"
    /\ Accepts(c)
    /\ tx[c].sagas \subseteq tx[c].locked
    /\ Goto(c, "committing")
    /\ UNCHANGED rows

\* What a stopped saga becomes.
Stopped(s) ==
    LET uncertain == \E d \in RowsOf(s) :
                        dispatch[d] \in {"in_flight", "blocked_unknown"} \/ UncertainRetry(d)
        succeeded == \E d \in RowsOf(s) : DirectionOf(d) = "forward" /\ dispatch[d] = "succeeded"
    IN  CASE uncertain -> "blocked_unknown"
          [] ~uncertain /\ saga[s] = "running" ->
                IF succeeded THEN "blocked_dependency" ELSE "failed"
          [] ~uncertain /\ saga[s] = "compensating" -> "blocked_dependency"
          [] OTHER -> saga[s]

CommitFinalizeStopped(c) ==
    /\ At(c, "finalize_stopped", "committing")
    /\ CloseRows(UNION {RowsOf(s) : s \in tx[c].sagas})
    /\ saga' = [s \in Saga |-> IF s \in tx[c].sagas THEN Stopped(s) ELSE saga[s]]
    /\ UNCHANGED <<step, inverse, granted, attempts>>
    /\ Ends(c)

CommitBlockCompensation(c) ==
    LET s == tx[c].saga
        D == {d \in RowsOf(s) : DirectionOf(d) = "compensation"}
        uncertain == \E d \in D : dispatch[d] = "in_flight" \/ UncertainRetry(d)
    IN  /\ At(c, "block_compensation", "committing")
        /\ CloseRows(D)
        /\ saga' = [saga EXCEPT ![s] =
              IF uncertain THEN "blocked_unknown" ELSE "blocked_compensation"]
        /\ UNCHANGED <<step, inverse, granted, attempts>>
        /\ Ends(c)

CommitFinalizeFailFast(c) ==
    /\ At(c, "finalize_failfast", "committing")
    /\ saga' = [saga EXCEPT ![tx[c].saga] = "failed"]
    /\ UNCHANGED <<step, inverse, dispatch, timer, granted, attempts>>
    /\ Ends(c)

-----------------------------------------------------------------------------
PostgresNext ==
    \/ \E D \in SUBSET Running : TimePasses(D) /\ UNCHANGED tx
    \/ \E c \in Session :
          \/ Rollback(c)
          \/ \E s \in Saga :
                \/ createSagaTx(c, s) \/ enqueueStepTx(c, s) \/ CompleteSagaTx(c, s)
                \/ \E op \in Finalizers : BeginFinalizeSaga(c, op, s)
          \/ \E e \in Execution : BeginFinalizeStopped(c, e)
          \/ BeginClaim(c)
          \/ \E d \in Dispatch : LockClaim(c, d) \/ LockLeased(c, d) \/ LockNext(c, d) \/ BeginReplay(c, d)
          \/ CommitClaim(c)
          \/ \E d \in Dispatch, attempt \in 1..MaxClaims, op \in {"save", "complete"} :
                BeginLeased(c, op, d, attempt)
          \/ LockCompletedSaga(c)
          \/ CommitSaveFencingGrants(c)
          \/ \E outcome \in Outcome, exhausted \in BOOLEAN : CommitComplete(c, outcome, exhausted)
          \/ LockFinalizedSaga(c) \/ NextSaga(c) \/ Decide(c)
          \/ CommitFinalizeStopped(c) \/ CommitBlockCompensation(c) \/ CommitFinalizeFailFast(c)

PostgresSpec == PostgresInit /\ [][PostgresNext]_pgvars

-----------------------------------------------------------------------------
(* What the transactions implement.                                        *)

\* A transaction that began before the deadline may still use the lease of
\* its dispatch, unless one that is about to commit holds the row.
UsableBy(c, d) ==
    /\ tx[c].op \in {"save", "complete"} /\ d \in tx[c].dispatches
    /\ LeaseActive(d, tx[c].past) /\ tx[c].attempt = Len(attempts[d])
    /\ ~\E b \in Session \ {c} : tx[b].at = "committing" /\ d \in tx[b].rows

AbstractTimer ==
    [d \in Dispatch |->
        IF timer[d] = "expired" /\ \E c \in Session : UsableBy(c, d) THEN "live" ELSE timer[d]]

Outbox == INSTANCE SagaOutbox WITH timer <- AbstractTimer

\* The interleaved transactions implement the outbox whose operations are
\* atomic: every commit is one operation of SagaOutbox on the committed rows,
\* although leases are compared with the time the transaction began, a claim
\* picks its row from an older snapshot, and SKIP LOCKED and the re-check look
\* at one row only.  (Outbox!Spec, with the steps that commit nothing first.)
ImplementsOutbox ==
    Outbox!Init /\ [][(Outbox!vars)' = Outbox!vars \/ Outbox!Next]_(Outbox!vars)

\* A session that waits for a lock of another.
WaitsFor(b, c) ==
    \/ tx[b].at = "saga" /\ tx[b].saga \in tx[c].locked
    \/ /\ tx[b].at \in {"row", "first", "second"}
       /\ (tx[b].dispatches \ tx[b].rows) \cap tx[c].rows # {}

\* Rows are locked before their saga everywhere but in a finalizer's second
\* pass, and otherwise in the order of the identities.  So two sessions wait
\* for each other only when one of them is in that pass, for a dispatch that
\* was enqueued after its first pass; the other one locked that dispatch and
\* wants the saga, or is in a first pass that has yet to come to a row of the
\* saga.  The database breaks the cycle (lockSagaDispatches, CompleteDispatch).
OnlySecondPassDeadlocks ==
    \A b, c \in Session :
        b # c /\ WaitsFor(b, c) /\ WaitsFor(c, b) =>
            \/ tx[b].at = "second" /\ tx[c].at \in {"first", "saga"}
            \/ tx[c].at = "second" /\ tx[b].at \in {"first", "saga"}
=============================================================================
