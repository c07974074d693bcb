--------------------------- MODULE FencingPostgres ---------------------------
(***************************************************************************)
(* fencing.PostgresProvider: Acquire is a serializable transaction of      *)
(* three statements, tried again after a serialization failure; Renew and  *)
(* Release are single statements outside it.  now() is the time of BEGIN,  *)
(* the snapshot is taken by the first statement, and a row that changed    *)
(* since the snapshot cannot be written (SQLSTATE 40001).  A connection    *)
(* may break at any point: before COMMIT nothing happened, during COMMIT   *)
(* the lease may exist with nobody to hold it.                             *)
(***************************************************************************)
EXTENDS Naturals, FiniteSets

CONSTANTS Resource, Holder, TTL, MaxTime, MaxToken,
    MaxTries,       \* attempts of one Acquire; 5 in the code
    MaxRevision     \* bound: renewals of one lease row

VARIABLES
    clock,      \* the time of the database
    counter,    \* effectus_fencing_counters.token, 0 without a row
    row,        \* effectus_fencing_leases
    grants,     \* every lease that was committed
    held,       \* the postgresLease values the callers got
    tx          \* the running Acquire of each holder

pgVars == <<clock, counter, row, grants, held, tx>>

-----------------------------------------------------------------------------
NoRow == [holder |-> "none", token |-> 0, expires |-> 0, revision |-> 0]

AsLease(r) == [holder |-> r.holder, token |-> r.token, expires |-> r.expires]

Contract == INSTANCE FencingContract WITH lease <- [r \in Resource |-> AsLease(row[r])]

\* Phases of a call: begun, waiting, issued, persisted, failed.
Idle == [phase |-> "idle"]

\* The transaction of h has written the counter row of r and locks it.
Locks(h, r) == tx[h].phase \in {"issued", "persisted"} /\ tx[h].resource = r

\* The transaction of h has written the lease row of r and locks it.
LocksLease(h, r) == tx[h].phase = "persisted" /\ tx[h].resource = r

PostgresInit ==
    /\ clock = 0
    /\ counter = [r \in Resource |-> 0]
    /\ row = [r \in Resource |-> NoRow]
    /\ grants = {}
    /\ held = [h \in Holder |-> {}]
    /\ tx = [h \in Holder |-> Idle]

Begin(h, r, try) ==
    tx' = [tx EXCEPT ![h] = [phase |-> "begun", resource |-> r, try |-> try, now |-> clock]]

-----------------------------------------------------------------------------
(* Acquire and acquireOnce.                                                *)

\* Tokens stay within the bound also when every running call gets one.
AcquireCall(h, r) ==
    /\ tx[h] = Idle
    /\ counter[r] + Cardinality({k \in Holder : tx[k] # Idle}) < MaxToken
    /\ Begin(h, r, 1)
    /\ UNCHANGED <<clock, counter, row, grants, held>>

\* The upsert of the counter takes the snapshot of the transaction, then
\* waits for the row.
Snapshot(h) ==
    LET t == tx[h]
    IN  /\ t.phase = "begun"
        /\ tx' = [tx EXCEPT ![h] = [phase |-> "waiting", resource |-> t.resource, try |-> t.try,
                                    now |-> t.now, counter |-> counter[t.resource],
                                    row |-> row[t.resource]]]
        /\ UNCHANGED <<clock, counter, row, grants, held>>

\* The row lock is free.  Somebody else committed a grant since the snapshot:
\* serialization failure.  Otherwise the next token is written, unseen.
IssueToken(h) ==
    LET t == tx[h]
    IN  /\ t.phase = "waiting"
        /\ \A k \in Holder : ~Locks(k, t.resource)
        /\ tx' = [tx EXCEPT ![h].phase = IF counter[t.resource] = t.counter THEN "issued" ELSE "failed"]
        /\ UNCHANGED <<clock, counter, row, grants, held>>

\* SELECT EXISTS on the snapshot: ErrLeaseHeld rolls the token back.
LeaseHeld(h) ==
    LET t == tx[h]
    IN  /\ t.phase = "issued"
        /\ t.row # NoRow /\ t.row.expires > t.now
        /\ tx' = [tx EXCEPT ![h] = Idle]
        /\ UNCHANGED <<clock, counter, row, grants, held>>

\* Mutant: the lease is written without looking for one.
PersistLeaseUnchecked(h) ==
    LET t == tx[h]
    IN  /\ t.phase = "issued"
        /\ tx' = [tx EXCEPT ![h].phase = IF row[t.resource] \in {t.row, NoRow} THEN "persisted" ELSE "failed"]
        /\ UNCHANGED <<clock, counter, row, grants, held>>

\* The upsert of the lease: a row renewed since the snapshot is a
\* serialization failure, a row deleted since then is inserted again.
PersistLease(h) ==
    LET t == tx[h]
    IN  /\ t.phase = "issued"
        /\ t.row = NoRow \/ t.row.expires <= t.now
        /\ tx' = [tx EXCEPT ![h].phase = IF row[t.resource] \in {t.row, NoRow} THEN "persisted" ELSE "failed"]
        /\ UNCHANGED <<clock, counter, row, grants, held>>

\* COMMIT.  The caller gets the lease unless the connection breaks first.
Commit(h, answered) ==
    LET t == tx[h]
        token == t.counter + 1
        grant == [resource |-> t.resource, holder |-> h, token |-> token]
    IN  /\ t.phase = "persisted"
        /\ counter' = [counter EXCEPT ![t.resource] = token]
        /\ row' = [row EXCEPT ![t.resource] =
                     [holder |-> h, token |-> token, expires |-> t.now + TTL,
                      revision |-> row[t.resource].revision + 1]]
        /\ grants' = grants \cup {grant}
        /\ held' = [held EXCEPT ![h] = @ \cup IF answered THEN {grant} ELSE {}]
        /\ tx' = [tx EXCEPT ![h] = Idle]
        /\ UNCHANGED clock

\* Another attempt after a serialization failure, up to the limit.
Retry(h) ==
    LET t == tx[h]
    IN  /\ t.phase = "failed"
        /\ IF t.try < MaxTries
             THEN Begin(h, t.resource, t.try + 1)
             ELSE tx' = [tx EXCEPT ![h] = Idle]
        /\ UNCHANGED <<clock, counter, row, grants, held>>

\* The connection or the caller's context is gone: the database rolls back.
Broken(h) ==
    /\ tx[h] # Idle
    /\ tx' = [tx EXCEPT ![h] = Idle]
    /\ UNCHANGED <<clock, counter, row, grants, held>>

\* COMMIT may also report 40001 for dependencies the database cannot exclude.
Aborted(h) ==
    /\ tx[h].phase = "persisted"
    /\ tx' = [tx EXCEPT ![h].phase = "failed"]
    /\ UNCHANGED <<clock, counter, row, grants, held>>

-----------------------------------------------------------------------------
(* Renew and Release of a postgresLease.                                   *)

Owns(h, g) ==
    /\ row[g.resource].holder = g.holder
    /\ row[g.resource].token = g.token
    /\ \A k \in Holder : ~LocksLease(k, g.resource)

Renew(h, g, ttl) ==
    /\ Owns(h, g)
    /\ row[g.resource].expires > clock
    /\ row[g.resource].revision < MaxRevision
    /\ row' = [row EXCEPT ![g.resource].expires = clock + ttl,
                          ![g.resource].revision = @ + 1]
    /\ UNCHANGED <<clock, counter, grants, held, tx>>

Release(h, g) ==
    /\ Owns(h, g)
    /\ row' = [row EXCEPT ![g.resource] = NoRow]
    /\ UNCHANGED <<clock, counter, grants, held, tx>>

Tick ==
    /\ clock < MaxTime
    /\ clock' = clock + 1
    /\ UNCHANGED <<counter, row, grants, held, tx>>

-----------------------------------------------------------------------------
AcquireStep(h) ==
    \/ Snapshot(h)
    \/ IssueToken(h)
    \/ LeaseHeld(h)
    \/ PersistLease(h)
    \/ \E answered \in BOOLEAN : Commit(h, answered)
    \/ Retry(h)

PostgresNext ==
    \/ Tick
    \/ \E h \in Holder :
         \/ \E r \in Resource : AcquireCall(h, r)
         \/ AcquireStep(h)
         \/ Broken(h)
         \/ Aborted(h)
         \/ \E g \in held[h] : Release(h, g) \/ \E ttl \in 1..TTL : Renew(h, g, ttl)

PostgresSpec == PostgresInit /\ [][PostgresNext]_pgVars

-----------------------------------------------------------------------------
(* Properties.                                                             *)

\* Renew, Release and concurrent Acquire transactions of PostgresProvider
\* implement the contract of a fencing provider.
ImplementsContract == Contract!FencingSpec
=============================================================================
