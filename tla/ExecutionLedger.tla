-------------------------- MODULE ExecutionLedger --------------------------
(***************************************************************************)
(* The execution ledger: one durable record per admitted execution, read   *)
(* and written by the engine's callers and by recovery workers of several  *)
(* replicas.  Every operation is one atomic action: the in-memory ledger   *)
(* runs it under a mutex, the PostgreSQL one as a single guarded UPDATE.   *)
(*                                                                         *)
(* Revisions and lease tokens are only ever compared for equality.  A      *)
(* revision is modelled by the pairs <<process, execution>> whose last     *)
(* read still is the stored revision, and a token by the process that      *)
(* holds it: a process works on one lease at a time and forgets the        *)
(* handle when its call ends.  Clocks are abstracted to whether the lease  *)
(* deadline has passed.                                                    *)
(***************************************************************************)
EXTENDS Naturals

CONSTANTS
    Execution,      \* execution identities
    Process,        \* callers and recovery workers, over all replicas
    Nobody          \* no recovery token

VARIABLES
    execution,      \* effectus_executions: state, recovery token and deadline
    known           \* the reads that hold the stored revision

ledgerVars == <<execution, known>>

-----------------------------------------------------------------------------
Blocked == {"blocked_unknown", "blocked_fence", "blocked_dependency", "blocked_compensation"}

IsTerminal(state) == state \in {"completed", "failed"} \cup Blocked

Record == [state : {"absent", "accepted", "running", "completed", "failed"} \cup Blocked,
           holder : Process \cup {Nobody},
           deadline : {"none", "live", "expired"}]

LedgerInit ==
    /\ execution = [e \in Execution |->
                      [state |-> "absent", holder |-> Nobody, deadline |-> "none"]]
    /\ known = {}

\* Every write increments the revision: only the writer's copy is current.
Write(p, e, record) ==
    /\ execution' = [execution EXCEPT ![e] = record]
    /\ known' = {k \in known : k[2] # e} \cup {<<p, e>>}

GetExecution(p, e) ==
    /\ known' = known \cup {<<p, e>>}
    /\ UNCHANGED execution

AdmitExecution(p, e, state) ==
    /\ execution[e].state = "absent"
    /\ Write(p, e, [state |-> state, holder |-> Nobody, deadline |-> "none"])

MaySetState(p, e) ==
    /\ <<p, e>> \in known
    /\ ~IsTerminal(execution[e].state)
    /\ execution[e].holder = Nobody

SetExecutionState(p, e, state) ==
    /\ MaySetState(p, e)
    /\ Write(p, e, [execution[e] EXCEPT !.state = state])

\* Mutant: settled executions are leased like any other.
LeasableWhenSettled(e) ==
    /\ execution[e].state # "absent"
    /\ execution[e].holder = Nobody \/ execution[e].deadline = "expired"

\* Mutant: an expired lease is not taken over.
LeasableWhenFree(e) ==
    /\ execution[e].state # "absent" /\ ~IsTerminal(execution[e].state)
    /\ execution[e].holder = Nobody

Leasable(e) ==
    /\ execution[e].state # "absent" /\ ~IsTerminal(execution[e].state)
    /\ execution[e].holder = Nobody \/ execution[e].deadline = "expired"

LeaseExecution(p, e) ==
    /\ Leasable(e)
    /\ Write(p, e, [execution[e] EXCEPT !.holder = p, !.deadline = "live"])

HoldsLease(p, e) == execution[e].holder = p /\ execution[e].deadline = "live"

\* Renewal moves the deadline and leaves the revision alone.
RenewExecutionLease(p, e) ==
    /\ HoldsLease(p, e) /\ ~IsTerminal(execution[e].state)
    /\ UNCHANGED <<execution, known>>

FinishExecutionLease(p, e, state) ==
    /\ HoldsLease(p, e)
    /\ Write(p, e, [state |-> state, holder |-> Nobody, deadline |-> "none"])

LeaseExpires(e) ==
    /\ execution[e].deadline = "live"
    /\ execution' = [execution EXCEPT ![e].deadline = "expired"]
    /\ UNCHANGED known

\* The ledger's records and reads keep their shape.
LedgerTypeOK ==
    /\ execution \in [Execution -> Record]
    /\ known \subseteq Process \X Execution
=============================================================================
