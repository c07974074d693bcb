---------------------------- MODULE FencedWorkers ----------------------------
(***************************************************************************)
(* The fences of schema.Dispatcher: acquireFences takes the leases of a    *)
(* claim one after the other in sorted order, gives back what it has when  *)
(* one is refused, and otherwise keeps them for the time of the call.      *)
(* Claims run concurrently, on a clock; a claim may crash anywhere, and    *)
(* any call of the provider may fail, with or without having its effect.   *)
(* A holder names one claim of one dispatch: dispatch, attempt and lease   *)
(* token.                                                                  *)
(***************************************************************************)
EXTENDS FencingContract, Sequences, TLC

CONSTANTS
    Fencing,            \* dispatch.Fencing of each claim, in the order it was stored
    InvocationTimeout,  \* DispatcherOptions.InvocationTimeout
    Margin              \* the tenth of the lease kept for recording the outcome

\* LeaseDuration is TTL; NewDispatcher rejects a timeout that is not shorter.
\* normalizeEnqueue refuses a step with a requirement twice.
ASSUME FencedWorkersAssumption ==
    /\ IsFiniteSet(Holder) /\ Resource \subseteq Nat
    /\ \A h \in Holder :
         /\ Fencing[h] \in Seq(Resource)
         /\ \A i, j \in 1..Len(Fencing[h]) : Fencing[h][i] = Fencing[h][j] => i = j
    /\ InvocationTimeout \in 1..(TTL - 1)
    /\ Margin \in 0..(TTL - 1)

VARIABLES
    phase,      \* where the run of Dispatch stands
    started,    \* when it took the time for leaseDeadline
    taken,      \* how many leases it holds
    deadline,   \* of its external call
    lost        \* the resources a claim got no answer about: lease stored, or not given back

workerVars == <<phase, started, taken, deadline, lost>>
fencedVars == <<fencingVars, workerVars>>

-----------------------------------------------------------------------------
WorkersTypeOK ==
    /\ FencingTypeOK
    /\ phase \in [Holder -> {"new", "acquiring", "fenced", "invoking", "releasing", "done", "crashed"}]
    /\ started \in [Holder -> 0..MaxTime]
    /\ taken \in [Holder -> Nat]
    /\ \A h \in Holder : taken[h] \in 0..Len(Fencing[h])
    /\ deadline \in [Holder -> 0..(MaxTime + TTL)]
    /\ lost \subseteq Holder \X Resource

WorkersInit ==
    /\ FencingInit
    /\ phase = [h \in Holder |-> "new"]
    /\ started = [h \in Holder |-> 0]
    /\ taken = [h \in Holder |-> 0]
    /\ deadline = [h \in Holder |-> 0]
    /\ lost = {}

\* Mutant: the leases are taken in the order they were stored.
requirementsAsStored(h) == Fencing[h]

\* sort.Slice by authority and name.
BySortKey(fencing) == SortSeq(fencing, LAMBDA a, b : a < b)

\* Sorting distinct requirements makes an ascending sequence of them.
ASSUME SortAssumption ==
    \A h \in Holder :
      LET sorted == BySortKey(Fencing[h])
      IN  /\ sorted \in Seq(Resource) /\ Len(sorted) = Len(Fencing[h])
          /\ \A i, j \in 1..Len(sorted) : i < j => sorted[i] < sorted[j]

requirements(h) == BySortKey(Fencing[h])

\* The handle of the i-th lease h took.
HandleOf(h, i) ==
    CHOOSE g \in grants : g.resource = requirements(h)[i] /\ g.holder = h

Enter(h, p) == phase' = [phase EXCEPT ![h] = p]

leaseDeadline(h) == started[h] + TTL

-----------------------------------------------------------------------------
\* The local deadline is taken before the claim.
StartClaim(h) ==
    /\ phase[h] = "new"
    /\ Enter(h, "acquiring")
    /\ started' = [started EXCEPT ![h] = clock]
    /\ UNCHANGED <<taken, deadline, lost, fencingVars>>

\* One round of the loop of acquireFences.  A provider dates the lease from
\* the time of the call: not before the claim, not after now.
AcquireNext(h) ==
    /\ phase[h] = "acquiring"
    /\ taken[h] < Len(Fencing[h])
    /\ \E at \in started[h]..clock : Acquire(requirements(h)[taken[h] + 1], h, at + TTL)
    /\ taken' = [taken EXCEPT ![h] = @ + 1]
    /\ UNCHANGED <<phase, started, deadline, lost>>

\* Mutant: what was acquired before the error is forgotten.
AcquireRefusedForgetting(h) ==
    /\ phase[h] = "acquiring"
    /\ taken[h] < Len(Fencing[h])
    /\ Enter(h, "done")
    /\ UNCHANGED <<started, taken, deadline, lost, fencingVars>>

\* ErrLeaseHeld, or any other error before a lease is stored: the leases taken
\* so far go back.
AcquireRefused(h) ==
    /\ phase[h] = "acquiring"
    /\ taken[h] < Len(Fencing[h])
    /\ Enter(h, "releasing")
    /\ UNCHANGED <<started, taken, deadline, lost, fencingVars>>

\* The answer to COMMIT is lost: the lease is stored, the claim has no handle
\* of it and gives back only the ones before.
AcquireAnswerLost(h) ==
    LET r == requirements(h)[taken[h] + 1]
    IN  /\ phase[h] = "acquiring"
        /\ taken[h] < Len(Fencing[h])
        /\ \E at \in started[h]..clock : Acquire(r, h, at + TTL)
        /\ Enter(h, "releasing")
        /\ lost' = lost \cup {<<h, r>>}
        /\ UNCHANGED <<started, taken, deadline>>

AllAcquired(h) ==
    /\ phase[h] = "acquiring"
    /\ taken[h] = Len(Fencing[h])
    /\ Enter(h, "fenced")
    /\ UNCHANGED <<started, taken, deadline, lost, fencingVars>>

\* Mutant: the call gets its full timeout whatever is left of the lease.
InvocationDeadlineFull(h) == clock + InvocationTimeout

\* The call ends a tenth of the lease before the lease does.
InvocationDeadline(h) ==
    IF leaseDeadline(h) - Margin < clock + InvocationTimeout
    THEN leaseDeadline(h) - Margin
    ELSE clock + InvocationTimeout

StartInvocation(h) ==
    /\ phase[h] = "fenced"
    /\ InvocationDeadline(h) > clock
    /\ deadline' = [deadline EXCEPT ![h] = InvocationDeadline(h)]
    /\ Enter(h, "invoking")
    /\ UNCHANGED <<started, taken, lost, fencingVars>>

\* Saving the grants, decoding or loading the saga failed, or the lease has
\* too little time left: Dispatch returns without calling.
NoInvocation(h) ==
    /\ phase[h] = "fenced"
    /\ Enter(h, "releasing")
    /\ UNCHANGED <<started, taken, deadline, lost, fencingVars>>

\* The executor answered, or its context ended.
InvocationReturns(h) ==
    /\ phase[h] = "invoking"
    /\ Enter(h, "releasing")
    /\ UNCHANGED <<started, taken, deadline, lost, fencingVars>>

\* One round of releaseFences, last lease first.  A handle that is no longer
\* the current one is refused with ErrStaleGrant, which is ignored.
ReleaseLast(h) ==
    LET g == HandleOf(h, taken[h])
    IN  /\ phase[h] = "releasing"
        /\ taken[h] > 0
        /\ IF Matches(g) THEN Release(g) ELSE UNCHANGED fencingVars
        /\ taken' = [taken EXCEPT ![h] = @ - 1]
        /\ UNCHANGED <<phase, started, deadline, lost>>

\* The provider could not be reached: the lease stays until it expires.
ReleaseFails(h) ==
    /\ phase[h] = "releasing"
    /\ taken[h] > 0
    /\ taken' = [taken EXCEPT ![h] = @ - 1]
    /\ lost' = lost \cup {<<h, requirements(h)[taken[h]]>>}
    /\ UNCHANGED <<phase, started, deadline, fencingVars>>

AllReleased(h) ==
    /\ phase[h] = "releasing"
    /\ taken[h] = 0
    /\ Enter(h, "done")
    /\ UNCHANGED <<started, taken, deadline, lost, fencingVars>>

WorkerCrashes(h) ==
    /\ phase[h] \in {"acquiring", "fenced", "invoking", "releasing"}
    /\ Enter(h, "crashed")
    /\ UNCHANGED <<started, taken, deadline, lost, fencingVars>>

TimePasses == Tick /\ UNCHANGED workerVars

WorkersNext ==
    \/ TimePasses
    \/ \E h \in Holder :
         \/ StartClaim(h)
         \/ AcquireNext(h) \/ AcquireRefused(h) \/ AcquireAnswerLost(h) \/ AllAcquired(h)
         \/ StartInvocation(h) \/ NoInvocation(h) \/ InvocationReturns(h)
         \/ ReleaseLast(h) \/ ReleaseFails(h) \/ AllReleased(h)
         \/ WorkerCrashes(h)

WorkersSpec == WorkersInit /\ [][WorkersNext]_fencedVars

-----------------------------------------------------------------------------
(* Properties.                                                             *)

\* Until the deadline of an external call passes, every fence of the call is
\* still its own and unexpired, although the fences were taken one by one,
\* at different times, and are never renewed: two calls on one resource do
\* not overlap.
FencesOutliveCall ==
    \A h \in Holder : phase[h] = "invoking" /\ clock < deadline[h] =>
      \A i \in 1..taken[h] : Held(requirements(h)[i]) /\ Matches(HandleOf(h, i))

\* Among the claims in the middle of acquireFences, one can go on: they take
\* their leases in one order, so they do not all refuse one another, give up
\* together and start again.
SomeClaimAdvances ==
    LET acquiring == {h \in Holder : phase[h] = "acquiring" /\ taken[h] > 0}
        blocked(h) == \E k \in acquiring \ {h} :
                        /\ taken[h] < Len(Fencing[h])
                        /\ Held(requirements(h)[taken[h] + 1])
                        /\ lease[requirements(h)[taken[h] + 1]].holder = k
    IN  acquiring # {} => \E h \in acquiring : ~blocked(h)

\* A claim that is over holds nothing, however far it got and whichever call
\* of the provider failed: what it leaves behind are at most the very leases
\* whose acquire or release got no answer, never one of the others it took.
NothingLeaks ==
    \A h \in Holder : phase[h] = "done" =>
      \A r \in Resource : lease[r].holder = h => <<h, r>> \in lost
=============================================================================
