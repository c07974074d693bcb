------------------------ MODULE FencedWorkersProofs ------------------------
(***************************************************************************)
(* Proofs about FencedWorkers, for any claims, resources and orders in     *)
(* which the claims list them: the fences of a call outlive it, a claim    *)
(* that is over holds nothing, and claims that wait for one another do not *)
(* all give up together.                                                   *)
(***************************************************************************)
EXTENDS FencedWorkers, FiniteSetTheorems, WellFoundedInduction, TLAPS

\* The resources a claim took and has not given back.
Has(h) == {requirements(h)[i] : i \in 1..taken[h]}

\* The stored lease is one that was handed out.
LeaseGranted ==
    \A r \in Resource : lease[r] # NoLease =>
      [resource |-> r, holder |-> lease[r].holder, token |-> lease[r].token] \in grants

\* A claim asks for a resource once, so a handle is known by both.
GrantedOnce ==
    \A g, k \in grants : g.resource = k.resource /\ g.holder = k.holder => g = k

\* What the run of a claim says about its grants and its leases.
ClaimOK(h) ==
    /\ phase[h] = "new" => \A g \in grants : g.holder # h
    /\ phase[h] \in {"new", "done"} => taken[h] = 0
    /\ phase[h] = "acquiring" => \A g \in grants : g.holder = h => g.resource \in Has(h)
    /\ \A i \in 1..taken[h] : \E g \in grants : g.resource = requirements(h)[i] /\ g.holder = h
    /\ phase[h] \in {"new", "acquiring", "fenced", "invoking"} =>
         \A r \in Resource : <<h, r>> \notin lost
    /\ \A r \in Resource : lease[r].holder = h => r \in Has(h) \/ <<h, r>> \in lost

\* Until the time a claim reckons with, the leases it took are its own and
\* last at least as long.
FencesFresh(h) ==
    phase[h] \in {"acquiring", "fenced", "invoking"} =>
      /\ started[h] <= clock
      /\ phase[h] = "invoking" => deadline[h] <= leaseDeadline(h)
      /\ clock < leaseDeadline(h) =>
           \A r \in Has(h) : lease[r].holder = h /\ lease[r].expires >= leaseDeadline(h)

WorkersInv ==
    /\ WorkersTypeOK
    /\ LeaseGranted
    /\ GrantedOnce
    /\ \A h \in Holder : ClaimOK(h) /\ FencesFresh(h)

-----------------------------------------------------------------------------
(* Requirements and handles.                                               *)

\* A set of natural numbers has a smallest element.
LEMMA SmallestElement ==
    ASSUME NEW T \in SUBSET Nat, T # {}
    PROVE  \E n \in T : \A m \in T : n <= m
<1> DEFINE R == {ss \in Nat \X Nat : ss[1] < ss[2]}
<1>1. IsWellFoundedOn(R, Nat)
  BY NatLessThanWellFounded DEF OpToRel
<1>2. PICK n \in T : \A m \in T : ~(<<m, n>> \in R)
  <2> HIDE DEF R
  <2> QED
    BY <1>1, WFMin, Zenon
<1>3. \A m \in T : ~(m < n)
  BY <1>2, Zenon
<1> QED
  BY <1>3

\* The requirements of a claim are resources in ascending order.
LEMMA RequirementFacts ==
    ASSUME NEW h \in Holder
    PROVE  /\ Len(Fencing[h]) \in Nat
           /\ \A i \in 1..Len(Fencing[h]) : requirements(h)[i] \in Resource
           /\ \A i, j \in 1..Len(Fencing[h]) : i < j => requirements(h)[i] < requirements(h)[j]
<1>1. /\ requirements(h) \in Seq(Resource) /\ Len(requirements(h)) = Len(Fencing[h])
      /\ \A i, j \in 1..Len(requirements(h)) : i < j => requirements(h)[i] < requirements(h)[j]
  BY SortAssumption DEF requirements
<1>2. /\ Len(requirements(h)) \in Nat
      /\ \A i \in 1..Len(requirements(h)) : requirements(h)[i] \in Resource
  BY <1>1
<1> QED
  BY <1>1, <1>2

\* No requirement is listed twice.
LEMMA RequirementsDistinct ==
    ASSUME NEW h \in Holder, NEW i \in 1..Len(Fencing[h]), NEW j \in 1..Len(Fencing[h]),
           requirements(h)[i] = requirements(h)[j]
    PROVE  i = j
<1>1. /\ Len(Fencing[h]) \in Nat
      /\ requirements(h)[i] \in Nat /\ requirements(h)[j] \in Nat
      /\ i < j => requirements(h)[i] < requirements(h)[j]
      /\ j < i => requirements(h)[j] < requirements(h)[i]
  BY RequirementFacts, FencedWorkersAssumption, Zenon
<1> QED
  BY <1>1

\* The handle of a lease is the only grant of its resource to the claim.
LEMMA HandleIsGrant ==
    ASSUME GrantedOnce, NEW h \in Holder, NEW i, NEW g \in grants,
           g.resource = requirements(h)[i], g.holder = h
    PROVE  HandleOf(h, i) = g
  BY DEF GrantedOnce, HandleOf

\* What a claim took are requirements of it.
LEMMA HasFacts ==
    ASSUME WorkersTypeOK, NEW h \in Holder
    PROVE  /\ taken[h] \in Nat /\ taken[h] <= Len(Fencing[h]) /\ Len(Fencing[h]) \in Nat
           /\ Has(h) \subseteq Resource
           /\ \A i \in 1..taken[h] : requirements(h)[i] \in Has(h)
           /\ taken[h] = 0 => Has(h) = {}
           /\ taken[h] < Len(Fencing[h]) => requirements(h)[taken[h] + 1] \notin Has(h)
<1>1. Len(Fencing[h]) \in Nat /\ taken[h] \in 0..Len(Fencing[h])
  BY RequirementFacts DEF WorkersTypeOK
<1>2. \A i \in 1..taken[h] : i \in 1..Len(Fencing[h]) /\ i # taken[h] + 1
  BY <1>1
<1>3. Has(h) \subseteq Resource
  BY <1>2, RequirementFacts DEF Has
<1>4. taken[h] = 0 => Has(h) = {}
  BY <1>1 DEF Has
<1>5. ASSUME taken[h] < Len(Fencing[h])
      PROVE  requirements(h)[taken[h] + 1] \notin Has(h)
  <2>1. taken[h] + 1 \in 1..Len(Fencing[h])
    BY <1>1, <1>5
  <2> QED
    BY <1>2, <2>1, RequirementsDistinct DEF Has
<1> QED
  BY <1>1, <1>3, <1>4, <1>5 DEF Has

-----------------------------------------------------------------------------
(* The steps.                                                              *)

\* The steps of a claim that leave the provider alone.
QuietStep(h) ==
    \/ StartClaim(h) \/ AcquireRefused(h) \/ AllAcquired(h)
    \/ StartInvocation(h) \/ NoInvocation(h) \/ InvocationReturns(h)
    \/ ReleaseFails(h) \/ AllReleased(h) \/ WorkerCrashes(h)

\* Nothing about a claim changes when neither its run nor its leases do.
LEMMA OthersKept ==
    ASSUME NEW k \in Holder, ClaimOK(k), FencesFresh(k), UNCHANGED fencingVars,
           phase'[k] = phase[k], started'[k] = started[k], taken'[k] = taken[k],
           deadline'[k] = deadline[k],
           \A r \in Resource : <<k, r>> \in lost' <=> <<k, r>> \in lost
    PROVE  ClaimOK(k)' /\ FencesFresh(k)'
<1>1. Has(k)' = Has(k) /\ leaseDeadline(k)' = leaseDeadline(k)
  BY DEF Has, leaseDeadline
<1>2. UNCHANGED <<clock, counter, lease, grants>>
  BY DEF fencingVars
<1> QED
  BY <1>1, <1>2 DEF ClaimOK, FencesFresh

\* The types are kept by the steps that leave the provider alone.
LEMMA QuietType ==
    ASSUME WorkersTypeOK, NEW h \in Holder, QuietStep(h)
    PROVE  WorkersTypeOK'
<1>0. /\ FencingTypeOK /\ started \in [Holder -> 0..MaxTime] /\ taken \in [Holder -> Nat]
      /\ \A k \in Holder : taken[k] \in 0..Len(Fencing[k])
      /\ deadline \in [Holder -> 0..(MaxTime + TTL)] /\ lost \subseteq Holder \X Resource
      /\ phase \in [Holder -> {"new", "acquiring", "fenced", "invoking", "releasing", "done",
                               "crashed"}]
      /\ Len(Fencing[h]) \in Nat
  BY RequirementFacts DEF WorkersTypeOK
<1>1. FencingTypeOK'
  <2>1. UNCHANGED fencingVars
    BY DEF QuietStep, StartClaim, AcquireRefused, AllAcquired, StartInvocation,
           NoInvocation, InvocationReturns, ReleaseFails, AllReleased, WorkerCrashes
  <2> QED
    BY <1>0, <2>1 DEF FencingTypeOK, fencingVars
<1>2. phase' \in [Holder -> {"new", "acquiring", "fenced", "invoking", "releasing", "done",
                             "crashed"}]
  BY <1>0, Zenon DEF QuietStep, StartClaim, AcquireRefused, AllAcquired, StartInvocation,
              NoInvocation, InvocationReturns, ReleaseFails, AllReleased, WorkerCrashes, Enter
<1>3. started' \in [Holder -> 0..MaxTime]
  <2>1. clock \in 0..MaxTime
    BY <1>0 DEF FencingTypeOK
  <2>2. started' = started \/ started' = [started EXCEPT ![h] = clock]
    BY DEF QuietStep, StartClaim, AcquireRefused, AllAcquired, StartInvocation,
           NoInvocation, InvocationReturns, ReleaseFails, AllReleased, WorkerCrashes
  <2> QED
    BY <1>0, <2>1, <2>2, Zenon
<1>4. taken' \in [Holder -> Nat] /\ \A k \in Holder : taken'[k] \in 0..Len(Fencing[k])
  <2>1. taken' = taken \/ (taken[h] > 0 /\ taken' = [taken EXCEPT ![h] = @ - 1])
    BY DEF QuietStep, StartClaim, AcquireRefused, AllAcquired, StartInvocation,
           NoInvocation, InvocationReturns, ReleaseFails, AllReleased, WorkerCrashes
  <2>2. taken[h] > 0 => taken[h] - 1 \in Nat /\ taken[h] - 1 \in 0..Len(Fencing[h])
    BY <1>0
  <2>3. CASE taken' = taken
    BY <1>0, <2>3
  <2>4. CASE taken[h] > 0 /\ taken' = [taken EXCEPT ![h] = @ - 1]
    <3>1. \A k \in Holder : taken'[k] = IF k = h THEN taken[h] - 1 ELSE taken[k]
      BY <1>0, <2>4
    <3>2. taken' \in [Holder -> Nat]
      BY <1>0, <2>2, <2>4
    <3> QED
      BY <1>0, <2>2, <2>4, <3>1, <3>2
  <2> QED
    BY <2>1, <2>3, <2>4
<1>5. deadline' \in [Holder -> 0..(MaxTime + TTL)]
  <2>1. \/ deadline' = deadline
        \/ /\ deadline' = [deadline EXCEPT ![h] = InvocationDeadline(h)]
           /\ InvocationDeadline(h) > clock
    BY DEF QuietStep, StartClaim, AcquireRefused, AllAcquired, StartInvocation,
           NoInvocation, InvocationReturns, ReleaseFails, AllReleased, WorkerCrashes
  <2>2. InvocationDeadline(h) > clock => InvocationDeadline(h) \in 0..(MaxTime + TTL)
    <3>1. /\ clock \in 0..MaxTime /\ started[h] \in 0..MaxTime
      BY <1>0 DEF FencingTypeOK
    <3>2. /\ TTL \in Nat /\ MaxTime \in Nat /\ Margin \in Nat /\ Margin < TTL
          /\ InvocationTimeout \in Nat /\ InvocationTimeout < TTL
      BY FencedWorkersAssumption, FencingAssumption
    <3> QED
      BY <3>1, <3>2 DEF InvocationDeadline, leaseDeadline
  <2> QED
    BY <1>0, <2>1, <2>2, Zenon
<1>6. lost' \subseteq Holder \X Resource
  <2>1. \/ lost' = lost
        \/ taken[h] > 0 /\ lost' = lost \cup {<<h, requirements(h)[taken[h]]>>}
    BY Zenon DEF QuietStep, StartClaim, AcquireRefused, AllAcquired, StartInvocation,
           NoInvocation, InvocationReturns, ReleaseFails, AllReleased, WorkerCrashes
  <2>2. taken[h] > 0 => taken[h] \in 1..Len(Fencing[h])
    BY <1>0
  <2>3. taken[h] > 0 => requirements(h)[taken[h]] \in Resource
    BY <2>2, RequirementFacts
  <2> QED
    BY <1>0, <2>1, <2>3
<1> QED
  BY <1>1, <1>2, <1>3, <1>4, <1>5, <1>6 DEF WorkersTypeOK

\* A step that leaves the provider alone keeps what is known of every claim.
LEMMA QuietClaims ==
    ASSUME WorkersInv, NEW h \in Holder, QuietStep(h)
    PROVE  \A k \in Holder : ClaimOK(k)' /\ FencesFresh(k)'
<1>0. /\ WorkersTypeOK /\ ClaimOK(h) /\ FencesFresh(h)
      /\ phase \in [Holder -> {"new", "acquiring", "fenced", "invoking", "releasing", "done",
                               "crashed"}]
      /\ started \in [Holder -> 0..MaxTime] /\ taken \in [Holder -> Nat]
      /\ deadline \in [Holder -> 0..(MaxTime + TTL)]
      /\ clock \in Nat /\ started[h] \in Nat /\ TTL \in Nat
      /\ clock' = clock /\ lease' = lease /\ grants' = grants /\ UNCHANGED fencingVars
  <2>1. UNCHANGED fencingVars
    BY Zenon DEF QuietStep, StartClaim, AcquireRefused, AllAcquired, StartInvocation,
             NoInvocation, InvocationReturns, ReleaseFails, AllReleased, WorkerCrashes
  <2>2. WorkersTypeOK /\ FencingTypeOK /\ ClaimOK(h) /\ FencesFresh(h)
    BY Zenon DEF WorkersInv, WorkersTypeOK
  <2>3. clock \in Nat /\ started[h] \in Nat /\ TTL \in Nat
    BY <2>2, FencingAssumption DEF WorkersTypeOK, FencingTypeOK
  <2> QED
    BY <2>1, <2>2, <2>3, Zenon DEF WorkersTypeOK, fencingVars
<1>1. ASSUME NEW k \in Holder, k # h
      PROVE  ClaimOK(k)' /\ FencesFresh(k)'
  <2>1. /\ phase'[k] = phase[k] /\ started'[k] = started[k] /\ taken'[k] = taken[k]
        /\ deadline'[k] = deadline[k]
        /\ \A r \in Resource : <<k, r>> \in lost' <=> <<k, r>> \in lost
    BY <1>0, <1>1
       DEF QuietStep, StartClaim, AcquireRefused, AllAcquired, StartInvocation,
           NoInvocation, InvocationReturns, ReleaseFails, AllReleased, WorkerCrashes, Enter
  <2>2. ClaimOK(k) /\ FencesFresh(k)
    BY DEF WorkersInv
  <2> QED
    BY <1>0, <2>1, <2>2, OthersKept
<1> SUFFICES ClaimOK(h)' /\ FencesFresh(h)'
  BY <1>1
<1>2. taken'[h] = taken[h] => Has(h)' = Has(h)
  BY DEF Has
<1>3. CASE StartClaim(h)
  <2>1. /\ phase[h] = "new" /\ phase'[h] = "acquiring" /\ started'[h] = clock
        /\ taken'[h] = taken[h] /\ lost' = lost
    BY <1>0, <1>3 DEF StartClaim, Enter
  <2>2. taken[h] = 0 /\ Has(h) = {} /\ Has(h)' = {}
    BY <1>0, <1>2, <2>1, HasFacts DEF ClaimOK
  <2>3. ClaimOK(h)'
    BY <1>0, <2>1, <2>2 DEF ClaimOK
  <2> QED
    BY <1>0, <2>1, <2>2, <2>3 DEF FencesFresh
<1>4. CASE AcquireRefused(h) \/ NoInvocation(h) \/ InvocationReturns(h)
  <2>1. /\ phase'[h] = "releasing" /\ taken'[h] = taken[h] /\ lost' = lost
    BY <1>0, <1>4 DEF AcquireRefused, NoInvocation, InvocationReturns, Enter
  <2> QED
    BY <1>0, <1>2, <2>1 DEF ClaimOK, FencesFresh
<1>5. CASE AllAcquired(h)
  <2>1. /\ phase'[h] = "fenced" /\ phase[h] = "acquiring" /\ taken'[h] = taken[h]
        /\ lost' = lost /\ leaseDeadline(h)' = leaseDeadline(h) /\ started'[h] = started[h]
    BY <1>0, <1>5 DEF AllAcquired, Enter, leaseDeadline
  <2> QED
    BY <1>0, <1>2, <2>1 DEF ClaimOK, FencesFresh
<1>6. CASE StartInvocation(h)
  <2>1. /\ phase'[h] = "invoking" /\ phase[h] = "fenced" /\ taken'[h] = taken[h]
        /\ lost' = lost /\ leaseDeadline(h)' = leaseDeadline(h) /\ started'[h] = started[h]
        /\ deadline'[h] = InvocationDeadline(h)
    BY <1>0, <1>6 DEF StartInvocation, Enter, leaseDeadline
  <2>2. deadline'[h] <= leaseDeadline(h)'
    <3>1. InvocationTimeout \in Nat /\ Margin \in Nat
      BY FencedWorkersAssumption, FencingAssumption
    <3>2. /\ InvocationDeadline(h) > clock
          /\ leaseDeadline(h) \in Nat
      BY <1>0, <1>6 DEF StartInvocation, leaseDeadline
    <3>3. leaseDeadline(h) - Margin < clock + InvocationTimeout =>
             leaseDeadline(h) - Margin <= leaseDeadline(h)
      BY <1>0, <3>1, <3>2
    <3>4. ~(leaseDeadline(h) - Margin < clock + InvocationTimeout) =>
             clock + InvocationTimeout <= leaseDeadline(h)
      BY <1>0, <3>1, <3>2
    <3> QED
      BY <2>1, <3>3, <3>4 DEF InvocationDeadline
  <2> QED
    BY <1>0, <1>2, <2>1, <2>2 DEF ClaimOK, FencesFresh
<1>7. CASE ReleaseFails(h)
  <2>1. /\ phase[h] = "releasing" /\ phase'[h] = "releasing" /\ taken'[h] = taken[h] - 1
        /\ lost' = lost \cup {<<h, requirements(h)[taken[h]]>>} /\ taken[h] > 0 /\ taken[h] \in Nat
    BY <1>0, <1>7 DEF ReleaseFails
  <2>2. /\ \A i \in 1..taken'[h] : i \in 1..taken[h]
        /\ \A i \in 1..taken[h] : i \in 1..taken'[h] \/ i = taken[h]
    BY <2>1
  <2>3. \A r \in Has(h) : r \in Has(h)' \/ <<h, r>> \in lost'
    BY <2>1, <2>2 DEF Has
  <2>4. \A r \in Resource : lease'[r].holder = h => r \in Has(h)' \/ <<h, r>> \in lost'
    BY <1>0, <2>1, <2>3 DEF ClaimOK
  <2> QED
    BY <1>0, <2>1, <2>2, <2>4, Zenon DEF ClaimOK, FencesFresh
<1>8. CASE AllReleased(h)
  <2>1. /\ phase'[h] = "done" /\ taken'[h] = 0 /\ taken[h] = 0 /\ lost' = lost
    BY <1>0, <1>8 DEF AllReleased, Enter
  <2> QED
    BY <1>0, <1>2, <2>1 DEF ClaimOK, FencesFresh
<1>9. CASE WorkerCrashes(h)
  <2>1. /\ phase'[h] = "crashed" /\ taken'[h] = taken[h] /\ lost' = lost
    BY <1>0, <1>9 DEF WorkerCrashes, Enter
  <2> QED
    BY <1>0, <1>2, <2>1 DEF ClaimOK, FencesFresh
<1> QED
  BY <1>3, <1>4, <1>5, <1>6, <1>7, <1>8, <1>9 DEF QuietStep

\* The passing of time only makes leases expire.
LEMMA TickInv ==
    ASSUME WorkersInv, TimePasses
    PROVE  WorkersInv'
<1>0. /\ WorkersTypeOK /\ LeaseGranted /\ GrantedOnce
      /\ \A h \in Holder : ClaimOK(h) /\ FencesFresh(h)
      /\ UNCHANGED <<phase, started, taken, deadline, lost, counter, lease, grants>>
      /\ clock' = clock + 1 /\ clock < MaxTime /\ clock \in 0..MaxTime /\ MaxTime \in Nat
  BY FencingAssumption
     DEF WorkersInv, TimePasses, Tick, workerVars, WorkersTypeOK, FencingTypeOK
<1>1. WorkersTypeOK'
  BY <1>0 DEF WorkersTypeOK, FencingTypeOK
<1>2. LeaseGranted' /\ GrantedOnce'
  BY <1>0 DEF LeaseGranted, GrantedOnce
<1>3. ASSUME NEW h \in Holder
      PROVE  ClaimOK(h)' /\ FencesFresh(h)'
  <2>1. Has(h)' = Has(h) /\ leaseDeadline(h)' = leaseDeadline(h)
    BY <1>0 DEF Has, leaseDeadline
  <2>2. ClaimOK(h)'
    BY <1>0, <2>1 DEF ClaimOK
  <2>3. /\ started[h] \in Nat /\ leaseDeadline(h) \in Nat
        /\ started[h] <= clock => started[h] <= clock'
        /\ clock' < leaseDeadline(h) => clock < leaseDeadline(h)
    BY <1>0, FencingAssumption DEF WorkersTypeOK, leaseDeadline
  <2> QED
    BY <1>0, <2>1, <2>2, <2>3 DEF FencesFresh
<1> QED
  BY <1>1, <1>2, <1>3 DEF WorkersInv

\* A lease somebody holds is not the empty one.
LEMMA HolderOfLease ==
    ASSUME FencingTypeOK, NEW r \in Resource
    PROVE  /\ lease[r].holder \in Holder => lease[r] \in Lease /\ lease[r] # NoLease
           /\ lease[r] # NoLease => lease[r] \in Lease /\ lease[r].holder \in Holder
<1>1. lease[r] \in Lease \/ lease[r] = NoLease
  BY DEF FencingTypeOK
<1>2. lease[r] \in Lease => lease[r].holder \in Holder
  BY DEF Lease
<1>3. NoLease.holder \notin Holder
  BY FencingAssumption DEF NoLease
<1> QED
  BY <1>1, <1>2, <1>3

\* A lease is stored for the claim; only its own run may notice.
StoresLease(h) ==
    /\ phase[h] = "acquiring" /\ taken[h] < Len(Fencing[h])
    /\ \E at \in started[h]..clock : Acquire(requirements(h)[taken[h] + 1], h, at + TTL)
    /\ UNCHANGED <<started, deadline>>
    /\ \A k \in Holder : k # h =>
         /\ phase'[k] = phase[k] /\ taken'[k] = taken[k]
         /\ \A s \in Resource : <<k, s>> \in lost' <=> <<k, s>> \in lost

\* Storing a lease: what it does to the provider.
LEMMA AcquireFacts ==
    ASSUME WorkersInv, NEW h \in Holder, StoresLease(h)
    PROVE  LET r == requirements(h)[taken[h] + 1]
               g == [resource |-> r, holder |-> h, token |-> counter[r] + 1]
           IN  /\ r \in Resource /\ r \notin Has(h) /\ ~Held(r)
               /\ phase[h] = "acquiring"
               /\ \A k \in grants : ~(k.resource = r /\ k.holder = h)
               /\ counter[r] + 1 \in Token
               /\ counter' = [counter EXCEPT ![r] = counter[r] + 1]
               /\ grants' = grants \cup {g} /\ g \in Grant
               /\ \E e \in Expiry :
                    /\ lease' = [lease EXCEPT ![r] =
                                   [holder |-> h, token |-> counter[r] + 1, expires |-> e]]
                    /\ e >= leaseDeadline(h)
               /\ taken[h] + 1 \in 0..Len(Fencing[h])
               /\ UNCHANGED <<clock, started, deadline>>
<1> DEFINE r == requirements(h)[taken[h] + 1]
           g == [resource |-> r, holder |-> h, token |-> counter[r] + 1]
<1>0. /\ WorkersTypeOK /\ FencingTypeOK /\ ClaimOK(h)
      /\ taken \in [Holder -> Nat] /\ started \in [Holder -> 0..MaxTime]
      /\ clock \in 0..MaxTime /\ counter \in [Resource -> 0..MaxToken]
      /\ MaxToken \in Nat /\ MaxTime \in Nat /\ TTL \in Nat
  BY FencingAssumption DEF WorkersInv, WorkersTypeOK, FencingTypeOK
<1>1. /\ phase[h] = "acquiring" /\ taken[h] < Len(Fencing[h])
      /\ UNCHANGED <<started, deadline>>
  BY DEF StoresLease
<1>2. PICK at \in started[h]..clock : Acquire(r, h, at + TTL)
  BY DEF StoresLease
<1>3. taken[h] + 1 \in 1..Len(Fencing[h]) /\ taken[h] + 1 \in 0..Len(Fencing[h])
  BY <1>0, <1>1, HasFacts
<1>4. r \in Resource /\ r \notin Has(h)
  BY <1>0, <1>1, <1>3, HasFacts, RequirementFacts
<1>5. \A k \in grants : ~(k.resource = r /\ k.holder = h)
  BY <1>0, <1>1, <1>4 DEF ClaimOK
<1>6. counter[r] + 1 \in Token
  <2>1. counter[r] \in 0..MaxToken /\ counter[r] + 1 <= MaxToken
    BY <1>0, <1>2, <1>4 DEF Acquire
  <2> QED
    BY <1>0, <2>1 DEF Token
<1>7. at + TTL \in Expiry /\ at + TTL >= leaseDeadline(h)
  <2>1. started[h] \in 0..MaxTime /\ at \in 0..MaxTime /\ at >= started[h]
    BY <1>0
  <2> QED
    BY <1>0, <2>1 DEF Expiry, leaseDeadline
<1>8. /\ ~Held(r) /\ UNCHANGED clock
      /\ counter' = [counter EXCEPT ![r] = counter[r] + 1]
      /\ grants' = grants \cup {g}
      /\ lease' = [lease EXCEPT ![r] = [holder |-> h, token |-> counter[r] + 1,
                                        expires |-> at + TTL]]
  BY <1>2, Zenon DEF Acquire
<1>9. g \in Grant
  BY <1>4, <1>6, Zenon DEF Grant
<1> QED
  BY <1>1, <1>3, <1>4, <1>5, <1>6, <1>7, <1>8, <1>9, Zenon

\* Storing a lease keeps the provider in order and what is known of the other
\* claims: the lease was free, so none that still counts on its leases loses one.
LEMMA AcquireOthers ==
    ASSUME WorkersInv, NEW h \in Holder, StoresLease(h)
    PROVE  LET r == requirements(h)[taken[h] + 1]
           IN  /\ FencingTypeOK' /\ LeaseGranted' /\ GrantedOnce'
               /\ \A s \in Resource : s # r => lease'[s] = lease[s]
               /\ lease'[r].holder = h /\ lease'[r].expires >= leaseDeadline(h)
               /\ \A k \in grants' : k \in grants \/ k.resource = r
               /\ grants \subseteq grants'
               /\ \E k \in grants' : k.resource = r /\ k.holder = h
               /\ \A k \in Holder : k # h => ClaimOK(k)' /\ FencesFresh(k)'
<1> DEFINE r == requirements(h)[taken[h] + 1]
           t == counter[r] + 1
           g == [resource |-> r, holder |-> h, token |-> t]
<1>0. /\ WorkersTypeOK /\ FencingTypeOK /\ LeaseGranted /\ GrantedOnce
      /\ \A k \in Holder : ClaimOK(k) /\ FencesFresh(k)
  BY DEF WorkersInv, WorkersTypeOK
<1>1. /\ r \in Resource /\ r \notin Has(h) /\ ~Held(r)
      /\ phase[h] = "acquiring"
      /\ \A k \in grants : ~(k.resource = r /\ k.holder = h)
      /\ t \in Token
      /\ counter' = [counter EXCEPT ![r] = t]
      /\ grants' = grants \cup {g} /\ g \in Grant
      /\ UNCHANGED <<clock, started, deadline>>
  BY AcquireFacts, Zenon
<1>2. PICK e \in Expiry :
        /\ lease' = [lease EXCEPT ![r] = [holder |-> h, token |-> t, expires |-> e]]
        /\ e >= leaseDeadline(h)
  BY AcquireFacts, Zenon
<1> DEFINE x == [holder |-> h, token |-> t, expires |-> e]
<1>3. /\ x \in Lease /\ x.holder = h /\ x.token = t /\ x.expires = e
      /\ g.resource = r /\ g.holder = h /\ g.token = t
  BY <1>1, Zenon DEF Lease
<1>4. lease' = [lease EXCEPT ![r] = x]
  BY <1>2, Zenon
<1>gx. /\ [resource |-> r, holder |-> x.holder, token |-> x.token] = g
  BY <1>3, Zenon
<1> HIDE DEF x, g, t, r
<1>5. \A s \in Resource : lease'[s] = IF s = r THEN x ELSE lease[s]
  BY <1>0, <1>1, <1>4, Zenon DEF FencingTypeOK
<1>6. FencingTypeOK'
  <2>1. counter' \in [Resource -> 0..MaxToken]
    BY <1>0, <1>1 DEF FencingTypeOK, Token
  <2>2. lease' \in [Resource -> Lease \cup {NoLease}]
    BY <1>0, <1>1, <1>3, <1>4, Zenon DEF FencingTypeOK
  <2> QED
    BY <1>0, <1>1, <2>1, <2>2 DEF FencingTypeOK
<1>7. LeaseGranted'
  <2> SUFFICES ASSUME NEW s \in Resource, lease'[s] # NoLease
               PROVE  [resource |-> s, holder |-> lease'[s].holder, token |-> lease'[s].token]
                        \in grants'
    BY DEF LeaseGranted
  <2>1. CASE s = r
    BY <1>1, <1>5, <1>gx, <2>1
  <2>2. CASE s # r
    BY <1>0, <1>1, <1>5, <2>2, Zenon DEF LeaseGranted
  <2> QED
    BY <2>1, <2>2
<1>8. GrantedOnce'
  BY <1>0, <1>1, <1>3 DEF GrantedOnce
<1>9. \A k \in Holder : leaseDeadline(k)' = leaseDeadline(k)
  BY <1>1 DEF leaseDeadline
<1>10. ASSUME NEW k \in Holder, k # h
       PROVE  ClaimOK(k)' /\ FencesFresh(k)'
  <2>1. /\ taken'[k] = taken[k] /\ phase'[k] = phase[k]
        /\ \A s \in Resource : <<k, s>> \in lost' <=> <<k, s>> \in lost
    BY <1>10, Zenon DEF StoresLease
  <2>2. Has(k)' = Has(k)
    BY <2>1 DEF Has
  <2>3. \A s \in Resource : lease'[s].holder = k => lease[s].holder = k
    BY <1>3, <1>5, <1>10
  <2>4. ClaimOK(k)'
    <3>1. \A j \in grants' : j.holder = k => j \in grants
      BY <1>1, <1>3, <1>10, Zenon
    <3>2. grants \subseteq grants'
      BY <1>1, Zenon
    <3> QED
      BY <1>0, <1>1, <2>1, <2>2, <2>3, <3>1, <3>2 DEF ClaimOK
  <2>5. ASSUME phase[k] \in {"acquiring", "fenced", "invoking"}, clock < leaseDeadline(k),
               NEW s \in Has(k)
        PROVE  s \in Resource /\ s # r
    <3>1. /\ s \in Resource /\ lease[s].holder = k /\ lease[s].expires >= leaseDeadline(k)
      BY <1>0, <2>5, HasFacts, Zenon DEF FencesFresh
    <3>2. lease[s] \in Lease /\ lease[s] # NoLease
      BY <1>0, <3>1, HolderOfLease
    <3>3. lease[s].expires \in Nat /\ clock \in Nat /\ leaseDeadline(k) \in Nat
      <4>1. lease[s].expires \in Expiry
        BY <3>2 DEF Lease
      <4> QED
        BY <4>1, <1>0, FencingAssumption
           DEF Expiry, FencingTypeOK, WorkersTypeOK, leaseDeadline
    <3>4. Held(s)
      BY <2>5, <3>1, <3>2, <3>3 DEF Held
    <3> QED
      BY <1>1, <3>1, <3>4
  <2>6. FencesFresh(k)'
    BY <1>0, <1>1, <1>5, <1>9, <2>1, <2>2, <2>5 DEF FencesFresh
  <2> QED
    BY <2>4, <2>6
<1>11. /\ \A s \in Resource : s # r => lease'[s] = lease[s]
       /\ lease'[r].holder = h /\ lease'[r].expires >= leaseDeadline(h)
  BY <1>1, <1>2, <1>3, <1>5
<1>12. /\ \A k \in grants' : k \in grants \/ k.resource = r
       /\ grants \subseteq grants'
       /\ \E k \in grants' : k.resource = r /\ k.holder = h
  BY <1>1, <1>3, Zenon
<1> QED
  BY <1>6, <1>7, <1>8, <1>10, <1>11, <1>12, Zenon DEF r

\* A claim that takes its next lease stores it.
LEMMA AcquireStores ==
    ASSUME WorkersTypeOK, NEW h \in Holder, AcquireNext(h)
    PROVE  StoresLease(h)
<1>1. \A k \in Holder : k # h => taken'[k] = taken[k]
  BY DEF AcquireNext, WorkersTypeOK
<1> QED
  BY <1>1, Zenon DEF AcquireNext, StoresLease

\* So does one that does not hear of it.
LEMMA AnswerLostStores ==
    ASSUME WorkersTypeOK, NEW h \in Holder, AcquireAnswerLost(h)
    PROVE  StoresLease(h)
<1>1. \A k \in Holder : k # h => phase'[k] = phase[k]
  BY DEF AcquireAnswerLost, WorkersTypeOK, Enter
<1>2. ASSUME NEW k \in Holder, k # h, NEW s \in Resource
      PROVE  <<k, s>> \in lost' <=> <<k, s>> \in lost
  BY <1>2 DEF AcquireAnswerLost
<1> QED
  BY <1>1, <1>2, Zenon DEF AcquireAnswerLost, StoresLease

\* Taking the next lease keeps the invariant.
LEMMA AcquireInv ==
    ASSUME WorkersInv, NEW h \in Holder, AcquireNext(h)
    PROVE  WorkersInv'
<1> DEFINE r == requirements(h)[taken[h] + 1]
<1>0. /\ WorkersTypeOK /\ FencingTypeOK /\ LeaseGranted /\ GrantedOnce
      /\ \A k \in Holder : ClaimOK(k) /\ FencesFresh(k)
      /\ taken \in [Holder -> Nat]
  BY DEF WorkersInv, WorkersTypeOK
<1>1. /\ phase[h] = "acquiring" /\ taken[h] < Len(Fencing[h])
      /\ taken' = [taken EXCEPT ![h] = taken[h] + 1]
      /\ UNCHANGED <<phase, started, deadline, lost>>
  BY DEF AcquireNext
<1>2. StoresLease(h)
  BY <1>0, AcquireStores
<1>3. r \in Resource /\ taken[h] + 1 \in 0..Len(Fencing[h]) /\ UNCHANGED clock
  BY <1>2, AcquireFacts, Zenon
<1>4. /\ FencingTypeOK' /\ LeaseGranted' /\ GrantedOnce'
      /\ \A s \in Resource : s # r => lease'[s] = lease[s]
      /\ lease'[r].holder = h /\ lease'[r].expires >= leaseDeadline(h)
      /\ \A k \in grants' : k \in grants \/ k.resource = r
      /\ grants \subseteq grants'
      /\ \E k \in grants' : k.resource = r /\ k.holder = h
      /\ \A k \in Holder : k # h => ClaimOK(k)' /\ FencesFresh(k)'
  BY <1>2, AcquireOthers, Zenon
<1>5. taken[h] \in Nat /\ taken'[h] = taken[h] + 1
  BY <1>0, <1>1
<1>6. Has(h)' = Has(h) \cup {r}
  <2>1. 1..(taken[h] + 1) = (1..taken[h]) \cup {taken[h] + 1}
    BY <1>5
  <2> QED
    BY <1>5, <2>1 DEF Has
<1>7. WorkersTypeOK'
  <2>1. taken' \in [Holder -> Nat] /\ \A k \in Holder : taken'[k] \in 0..Len(Fencing[k])
    <3>1. taken \in [Holder -> Nat] /\ \A k \in Holder : taken[k] \in 0..Len(Fencing[k])
      BY <1>0 DEF WorkersTypeOK
    <3>2. \A k \in Holder : taken'[k] = IF k = h THEN taken[h] + 1 ELSE taken[k]
      BY <1>1, <3>1
    <3> QED
      BY <1>1, <1>3, <3>1, <3>2
  <2> QED
    BY <1>0, <1>1, <1>4, <2>1, Zenon DEF WorkersTypeOK
<1>8. ClaimOK(h)'
  <2> HIDE DEF r
  <2>1. \A k \in grants' : k.holder = h => k.resource \in Has(h)'
    BY <1>0, <1>1, <1>4, <1>6, Zenon DEF ClaimOK
  <2>2. \A i \in 1..taken'[h] : \E k \in grants' : k.resource = requirements(h)[i] /\ k.holder = h
    <3>1. \A i \in 1..taken'[h] : i \in 1..taken[h] \/ i = taken[h] + 1
      BY <1>5
    <3>2. \A i \in 1..taken[h] : \E k \in grants : k.resource = requirements(h)[i] /\ k.holder = h
      BY <1>0 DEF ClaimOK
    <3> QED
      BY <1>4, <3>1, <3>2, Zenon DEF r
  <2>3. \A s \in Resource : lease'[s].holder = h => s \in Has(h)' \/ <<h, s>> \in lost'
    <3>1. \A s \in Resource : lease[s].holder = h => s \in Has(h) \/ <<h, s>> \in lost
      BY <1>0 DEF ClaimOK
    <3> QED
      BY <1>1, <1>4, <1>6, <3>1
  <2>4. \A s \in Resource : <<h, s>> \notin lost'
    BY <1>0, <1>1, Zenon DEF ClaimOK
  <2> QED
    BY <1>1, <2>1, <2>2, <2>3, <2>4, Zenon DEF ClaimOK
<1>9. FencesFresh(h)'
  <2> HIDE DEF r
  <2>1. \A s \in Has(h)' : s = r \/ (s # r /\ s \in Has(h) /\ s \in Resource)
    BY <1>0, <1>6, HasFacts, Zenon
  <2>2. leaseDeadline(h)' = leaseDeadline(h)
    BY <1>1 DEF leaseDeadline
  <2> QED
    BY <1>0, <1>1, <1>3, <1>4, <2>1, <2>2, SMTT(30) DEF FencesFresh
<1> QED
  BY <1>4, <1>7, <1>8, <1>9 DEF WorkersInv

\* A lease stored for a claim that does not hear of it is one of the claim's
\* that nobody gives back.
LEMMA AnswerLostInv ==
    ASSUME WorkersInv, NEW h \in Holder, AcquireAnswerLost(h)
    PROVE  WorkersInv'
<1> DEFINE r == requirements(h)[taken[h] + 1]
<1>0. /\ WorkersTypeOK /\ ClaimOK(h)
      /\ phase \in [Holder -> {"new", "acquiring", "fenced", "invoking", "releasing", "done",
                               "crashed"}]
  BY DEF WorkersInv, WorkersTypeOK
<1>1. /\ phase[h] = "acquiring" /\ taken[h] < Len(Fencing[h])
      /\ phase' = [phase EXCEPT ![h] = "releasing"]
      /\ lost' = lost \cup {<<h, r>>}
      /\ UNCHANGED <<started, taken, deadline>>
  BY DEF AcquireAnswerLost, Enter
<1>2. StoresLease(h)
  BY <1>0, AnswerLostStores
<1>3. r \in Resource
  BY <1>2, AcquireFacts, Zenon
<1>4. /\ FencingTypeOK' /\ LeaseGranted' /\ GrantedOnce'
      /\ \A s \in Resource : s # r => lease'[s] = lease[s]
      /\ grants \subseteq grants'
      /\ \A k \in Holder : k # h => ClaimOK(k)' /\ FencesFresh(k)'
  BY <1>2, AcquireOthers, Zenon
<1> HIDE DEF r
<1>5. WorkersTypeOK'
  BY <1>0, <1>1, <1>3, <1>4 DEF WorkersTypeOK
<1>6. phase'[h] = "releasing" /\ Has(h)' = Has(h)
  BY <1>0, <1>1 DEF Has
<1>7. ClaimOK(h)'
  <2>1. \A s \in Resource : lease'[s].holder = h => s \in Has(h)' \/ <<h, s>> \in lost'
    BY <1>0, <1>1, <1>4, <1>6 DEF ClaimOK
  <2>2. \A i \in 1..taken'[h] : \E k \in grants' : k.resource = requirements(h)[i] /\ k.holder = h
    BY <1>0, <1>1, <1>4, Zenon DEF ClaimOK
  <2> QED
    BY <1>6, <2>1, <2>2, Zenon DEF ClaimOK
<1>8. FencesFresh(h)'
  BY <1>6 DEF FencesFresh
<1> QED
  BY <1>4, <1>5, <1>7, <1>8 DEF WorkersInv

\* Giving back the last lease keeps the invariant, whether the handle was
\* still the current one or not.
LEMMA ReleaseInv ==
    ASSUME WorkersInv, NEW h \in Holder, ReleaseLast(h)
    PROVE  WorkersInv'
<1> DEFINE r == requirements(h)[taken[h]]
<1>0. /\ WorkersTypeOK /\ FencingTypeOK /\ LeaseGranted /\ GrantedOnce
      /\ \A k \in Holder : ClaimOK(k) /\ FencesFresh(k)
      /\ lease \in [Resource -> Lease \cup {NoLease}] /\ taken \in [Holder -> Nat]
  BY DEF WorkersInv, WorkersTypeOK, FencingTypeOK
<1>1. /\ phase[h] = "releasing" /\ taken[h] > 0 /\ taken[h] \in Nat
      /\ taken' = [taken EXCEPT ![h] = taken[h] - 1]
      /\ UNCHANGED <<phase, started, deadline, lost>>
  BY <1>0 DEF ReleaseLast
<1>2. taken[h] \in 1..taken[h] /\ taken[h] \in 1..Len(Fencing[h]) /\ r \in Resource
  BY <1>0, <1>1, HasFacts, RequirementFacts
<1>3. PICK g \in grants : g.resource = r /\ g.holder = h
  BY <1>0, <1>2 DEF ClaimOK
<1>4. HandleOf(h, taken[h]) = g
  BY <1>0, <1>3, HandleIsGrant
<1>5. IF Matches(g) THEN Release(g) ELSE UNCHANGED fencingVars
  BY <1>4 DEF ReleaseLast
<1>6. lease[r].holder = h => Matches(g)
  <2> SUFFICES ASSUME lease[r].holder = h PROVE Matches(g)
    OBVIOUS
  <2>1. lease[r] # NoLease
    BY <1>0, <1>2, HolderOfLease
  <2>2. [resource |-> r, holder |-> lease[r].holder, token |-> lease[r].token] \in grants
    BY <1>0, <1>2, <2>1, Zenon DEF LeaseGranted
  <2>3. [resource |-> r, holder |-> lease[r].holder, token |-> lease[r].token] = g
    BY <1>0, <1>3, <2>2, Zenon DEF GrantedOnce
  <2> QED
    BY <1>3, <2>3 DEF Matches
<1>7. /\ UNCHANGED <<clock, counter, grants>>
      /\ lease' = lease \/ (lease[r].holder = h /\ lease' = [lease EXCEPT ![r] = NoLease])
      /\ lease[r].holder = h => lease' = [lease EXCEPT ![r] = NoLease]
  BY <1>3, <1>5, <1>6, Zenon DEF Release, Matches, fencingVars
<1> HIDE DEF r
<1>8. \A s \in Resource :
        /\ lease'[s] = lease[s] \/ (s = r /\ lease[s].holder = h /\ lease'[s] = NoLease)
        /\ lease'[s].holder = h => s # r /\ lease[s].holder = h
  <2>1. NoLease.holder # h
    BY FencingAssumption DEF NoLease
  <2> QED
    BY <1>0, <1>2, <1>7, <2>1
<1>9. WorkersTypeOK'
  <2>1. lease' \in [Resource -> Lease \cup {NoLease}]
    BY <1>0, <1>2, <1>7
  <2>2. FencingTypeOK'
    BY <1>0, <1>7, <2>1 DEF FencingTypeOK
  <2>3. taken' \in [Holder -> Nat] /\ \A k \in Holder : taken'[k] \in 0..Len(Fencing[k])
    <3>1. \A k \in Holder : taken[k] \in 0..Len(Fencing[k])
      BY <1>0 DEF WorkersTypeOK
    <3>2. \A k \in Holder : taken'[k] = IF k = h THEN taken[h] - 1 ELSE taken[k]
      BY <1>0, <1>1
    <3>3. taken[h] - 1 \in Nat /\ taken[h] - 1 \in 0..Len(Fencing[h])
      BY <1>0, <1>1, HasFacts
    <3> QED
      BY <1>0, <1>1, <3>1, <3>2, <3>3
  <2> QED
    BY <1>0, <1>1, <2>2, <2>3 DEF WorkersTypeOK
<1>10. LeaseGranted' /\ GrantedOnce'
  BY <1>0, <1>7, <1>8 DEF LeaseGranted, GrantedOnce
<1>11. ClaimOK(h)'
  <2>1. taken'[h] = taken[h] - 1
    BY <1>0, <1>1
  <2>2. \A i \in 1..taken[h] : i \in 1..taken'[h] \/ i = taken[h]
    BY <1>1, <2>1
  <2>3. \A i \in 1..taken'[h] : i \in 1..taken[h]
    BY <1>1, <2>1
  <2>4. \A s \in Has(h) : s = r \/ s \in Has(h)'
    BY <2>2 DEF Has, r
  <2>5. \A s \in Resource : lease'[s].holder = h => s \in Has(h)' \/ <<h, s>> \in lost'
    BY <1>0, <1>1, <1>8, <2>4, Zenon DEF ClaimOK
  <2>6. \A i \in 1..taken'[h] : \E k \in grants' : k.resource = requirements(h)[i] /\ k.holder = h
    BY <1>0, <1>7, <2>3, Zenon DEF ClaimOK
  <2> QED
    BY <1>1, <2>5, <2>6, Zenon DEF ClaimOK
<1>12. FencesFresh(h)'
  BY <1>1 DEF FencesFresh
<1>13. ASSUME NEW k \in Holder, k # h
       PROVE  ClaimOK(k)' /\ FencesFresh(k)'
  <2>1. taken'[k] = taken[k] /\ leaseDeadline(k)' = leaseDeadline(k)
    BY <1>0, <1>1, <1>13, Zenon DEF leaseDeadline
  <2>2. Has(k)' = Has(k) /\ Has(k) \subseteq Resource
    BY <1>0, <2>1, HasFacts, Zenon DEF Has
  <2>3. \A s \in Resource : /\ lease[s].holder = k => lease'[s] = lease[s]
                            /\ lease'[s].holder = k => lease[s].holder = k
    <3>1. NoLease.holder # k
      BY FencingAssumption DEF NoLease
    <3> QED
      BY <1>8, <1>13, <3>1, Zenon
  <2>4. ClaimOK(k)'
    BY <1>0, <1>1, <1>7, <2>1, <2>2, <2>3, SMTT(30) DEF ClaimOK
  <2>5. FencesFresh(k)'
    BY <1>0, <1>1, <1>7, <2>1, <2>2, <2>3, SMTT(30) DEF FencesFresh
  <2> QED
    BY <2>4, <2>5
<1> QED
  BY <1>9, <1>10, <1>11, <1>12, <1>13 DEF WorkersInv

-----------------------------------------------------------------------------
(* The results.                                                            *)

\* The invariant holds in every reachable state.
THEOREM WorkersInvariant == WorkersSpec => []WorkersInv
<1>1. WorkersInit => WorkersInv
  <2> SUFFICES ASSUME WorkersInit PROVE WorkersInv
    OBVIOUS
  <2>1. FencingTypeOK
    BY FencingAssumption DEF WorkersInit, FencingInit, FencingTypeOK
  <2>2. WorkersTypeOK
    BY <2>1, FencingAssumption, RequirementFacts DEF WorkersInit, WorkersTypeOK
  <2>3. LeaseGranted /\ GrantedOnce
    BY DEF WorkersInit, FencingInit, LeaseGranted, GrantedOnce
  <2>4. ASSUME NEW h \in Holder
        PROVE  ClaimOK(h) /\ FencesFresh(h)
    <3>1. phase[h] = "new" /\ taken[h] = 0 /\ grants = {} /\ lost = {}
      BY DEF WorkersInit, FencingInit
    <3>2. \A r \in Resource : lease[r].holder # h
      BY FencingAssumption DEF WorkersInit, FencingInit, NoLease
    <3> QED
      BY <3>1, <3>2 DEF ClaimOK, FencesFresh
  <2> QED
    BY <2>2, <2>3, <2>4 DEF WorkersInv
<1>2. WorkersInv /\ [WorkersNext]_fencedVars => WorkersInv'
  <2> SUFFICES ASSUME WorkersInv, [WorkersNext]_fencedVars PROVE WorkersInv'
    OBVIOUS
  <2>1. CASE TimePasses
    BY <2>1, TickInv
  <2>2. ASSUME NEW h \in Holder, AcquireNext(h)
        PROVE  WorkersInv'
    BY <2>2, AcquireInv
  <2>a. ASSUME NEW h \in Holder, AcquireAnswerLost(h)
        PROVE  WorkersInv'
    BY <2>a, AnswerLostInv
  <2>3. ASSUME NEW h \in Holder, ReleaseLast(h)
        PROVE  WorkersInv'
    BY <2>3, ReleaseInv
  <2>4. ASSUME NEW h \in Holder, QuietStep(h)
        PROVE  WorkersInv'
    <3>1. UNCHANGED fencingVars
      BY <2>4, Zenon DEF QuietStep, StartClaim, AcquireRefused, AllAcquired, StartInvocation,
                  NoInvocation, InvocationReturns, ReleaseFails, AllReleased, WorkerCrashes
    <3>2. LeaseGranted' /\ GrantedOnce'
      BY <3>1 DEF WorkersInv, LeaseGranted, GrantedOnce, fencingVars
    <3>3. WorkersTypeOK'
      BY <2>4, QuietType DEF WorkersInv
    <3>4. \A k \in Holder : ClaimOK(k)' /\ FencesFresh(k)'
      BY <2>4, QuietClaims
    <3> QED
      BY <3>2, <3>3, <3>4 DEF WorkersInv
  <2>5. CASE UNCHANGED fencedVars
    <3>1. /\ UNCHANGED fencingVars
          /\ UNCHANGED <<phase, started, taken, deadline, lost>>
      BY <2>5 DEF fencedVars, workerVars
    <3>2. \A k \in Holder : ClaimOK(k)' /\ FencesFresh(k)'
      BY <3>1, OthersKept, Zenon DEF WorkersInv
    <3> QED
      BY <3>1, <3>2 DEF WorkersInv, WorkersTypeOK, FencingTypeOK, LeaseGranted, GrantedOnce,
                        fencingVars
  <2> QED
    BY <2>1, <2>2, <2>a, <2>3, <2>4, <2>5 DEF WorkersNext, QuietStep
<1> QED
  BY <1>1, <1>2, PTL DEF WorkersSpec

\* Until the deadline of an external call passes, all its fences are still
\* its own and unexpired, whatever the other claims did meanwhile.
THEOREM CallsStayFenced == WorkersSpec => []FencesOutliveCall
<1>1. WorkersInv => FencesOutliveCall
  <2> SUFFICES ASSUME WorkersInv, NEW h \in Holder, phase[h] = "invoking",
                      clock < deadline[h], NEW i \in 1..taken[h]
               PROVE  Held(requirements(h)[i]) /\ Matches(HandleOf(h, i))
    BY Zenon DEF FencesOutliveCall
  <2> DEFINE r == requirements(h)[i]
  <2>0. /\ WorkersTypeOK /\ FencingTypeOK /\ LeaseGranted /\ GrantedOnce /\ FencesFresh(h)
        /\ clock \in Nat /\ deadline[h] \in Nat /\ leaseDeadline(h) \in Nat
    BY FencingAssumption, SMTT(30)
       DEF WorkersInv, WorkersTypeOK, FencingTypeOK, leaseDeadline
  <2>1. deadline[h] <= leaseDeadline(h)
    BY <2>0 DEF FencesFresh
  <2>2. clock < leaseDeadline(h)
    BY <2>0, <2>1
  <2>3. r \in Has(h) /\ r \in Resource
    BY <2>0, HasFacts
  <2>4. lease[r].holder = h /\ lease[r].expires >= leaseDeadline(h)
    BY <2>0, <2>2, <2>3, Zenon DEF FencesFresh
  <2>5. lease[r] # NoLease /\ lease[r] \in Lease
    BY <2>0, <2>3, <2>4, HolderOfLease
  <2>6. lease[r].expires \in Nat
    BY <2>5, FencingAssumption DEF Lease, Expiry
  <2>7. Held(r)
    BY <2>0, <2>2, <2>4, <2>5, <2>6 DEF Held
  <2> DEFINE g == [resource |-> r, holder |-> lease[r].holder, token |-> lease[r].token]
  <2>8. g \in grants
    BY <2>0, <2>3, <2>5, Zenon DEF LeaseGranted
  <2>9. HandleOf(h, i) = g
    BY <2>0, <2>4, <2>8, HandleIsGrant, Zenon
  <2> QED
    BY <2>7, <2>9, SMTT(30) DEF Matches
<1> QED
  BY <1>1, WorkersInvariant, PTL

\* A claim that is over holds no lease but those whose acquire or release got
\* no answer, whatever failed along its way.
THEOREM EveryFenceReturned == WorkersSpec => []NothingLeaks
<1>1. WorkersInv => NothingLeaks
  BY HasFacts, Zenon DEF WorkersInv, ClaimOK, NothingLeaks
<1> QED
  BY <1>1, WorkersInvariant, PTL

\* Of the claims in the middle of acquireFences one is not refused by any
\* other of them: the one whose last lease sorts highest.
THEOREM AscendingOrderAdvances == WorkersSpec => []SomeClaimAdvances
<1> DEFINE acquiring == {h \in Holder : phase[h] = "acquiring" /\ taken[h] > 0}
           top(h) == requirements(h)[taken[h]]
           above(h) == {k \in acquiring : top(k) > top(h)}
           blocked(h) == \E k \in acquiring \ {h} :
                           /\ taken[h] < Len(Fencing[h])
                           /\ Held(requirements(h)[taken[h] + 1])
                           /\ lease[requirements(h)[taken[h] + 1]].holder = k
<1>1. ASSUME WorkersInv, NEW h \in acquiring
      PROVE  top(h) \in Nat /\ \A r \in Has(h) : r \in Nat /\ r <= top(h)
  <2>1. /\ taken[h] \in Nat /\ taken[h] <= Len(Fencing[h]) /\ Len(Fencing[h]) \in Nat
        /\ taken[h] > 0
    BY <1>1, HasFacts DEF WorkersInv
  <2>2. taken[h] \in 1..Len(Fencing[h])
    BY <2>1
  <2>3. \A i \in 1..taken[h] : i \in 1..Len(Fencing[h]) /\ (i < taken[h] \/ i = taken[h])
    BY <2>1
  <2>4. \A i \in 1..Len(Fencing[h]) : requirements(h)[i] \in Nat
    BY RequirementFacts, FencedWorkersAssumption, Zenon
  <2>5. \A i \in 1..taken[h] : i < taken[h] => requirements(h)[i] < requirements(h)[taken[h]]
    BY <2>2, <2>3, RequirementFacts
  <2> QED
    BY <2>2, <2>3, <2>4, <2>5 DEF Has
<1>2. ASSUME WorkersInv, NEW h \in acquiring, blocked(h)
      PROVE  \E k \in acquiring : top(h) < top(k)
  <2> DEFINE r == requirements(h)[taken[h] + 1]
  <2>1. PICK k \in acquiring : taken[h] < Len(Fencing[h]) /\ lease[r].holder = k
    BY <1>2
  <2>2. /\ taken[h] \in Nat /\ Len(Fencing[h]) \in Nat /\ taken[h] > 0
    BY <1>2, HasFacts, Zenon DEF WorkersInv
  <2>3. taken[h] \in 1..Len(Fencing[h]) /\ taken[h] + 1 \in 1..Len(Fencing[h])
    BY <2>1, <2>2
  <2>4. r \in Resource /\ top(h) < r
    BY <2>2, <2>3, RequirementFacts
  <2>5. r \in Has(k)
    <3>1. \A q \in Resource : <<k, q>> \notin lost
      BY <1>2, Zenon DEF WorkersInv, ClaimOK
    <3>2. \A q \in Resource : lease[q].holder = k => q \in Has(k) \/ <<k, q>> \in lost
      BY <1>2, Zenon DEF WorkersInv, ClaimOK
    <3> HIDE DEF r
    <3> QED
      BY <2>1, <2>4, <3>1, <3>2, Zenon
  <2>6. r \in Nat /\ r <= top(k) /\ top(k) \in Nat /\ top(h) \in Nat
    BY <1>1, <1>2, <2>5, Zenon
  <2>7. top(h) < top(k)
    <3> HIDE DEF r, top
    <3> QED
      BY <2>4, <2>6
  <2> QED
    BY <2>7
<1>3. WorkersInv => SomeClaimAdvances
  <2> SUFFICES ASSUME WorkersInv, acquiring # {}
               PROVE  \E h \in acquiring : ~blocked(h)
    BY Zenon DEF SomeClaimAdvances
  <2>1. IsFiniteSet(acquiring)
    BY FencedWorkersAssumption, FS_Subset
  <2>2. \A h \in acquiring : IsFiniteSet(above(h)) /\ Cardinality(above(h)) \in Nat
    <3>1. \A h \in acquiring : above(h) \subseteq acquiring
      OBVIOUS
    <3> HIDE DEF above, acquiring
    <3> QED
      BY <2>1, <3>1, FS_Subset, FS_CardinalityType
  <2> DEFINE T == {Cardinality(above(h)) : h \in acquiring}
  <2>3. PICK n \in T : \A m \in T : n <= m
    <3>1. T \in SUBSET Nat /\ T # {}
      BY <2>2, Zenon
    <3> HIDE DEF T
    <3> QED
      BY <3>1, SmallestElement
  <2>4. PICK h \in acquiring : \A k \in acquiring : Cardinality(above(h)) <= Cardinality(above(k))
    <3> HIDE DEF above, acquiring
    <3> QED
      BY <2>3
  <2>6. ASSUME NEW k \in acquiring, top(h) < top(k)
        PROVE  FALSE
    <3>1. \A j \in acquiring : top(j) \in Nat
      BY <1>1
    <3>2. above(k) \subseteq above(h) /\ k \in above(h) /\ k \notin above(k)
      <4> HIDE DEF top, acquiring
      <4> QED
        BY <2>6, <3>1
    <3>3. Cardinality(above(k)) <= Cardinality(above(h)) /\ Cardinality(above(k)) # Cardinality(above(h))
      <4> HIDE DEF above
      <4> QED
        BY <2>2, <3>2, FS_Subset, Zenon
    <3>4. /\ Cardinality(above(h)) \in Nat /\ Cardinality(above(k)) \in Nat
          /\ Cardinality(above(h)) <= Cardinality(above(k))
      BY <2>2, <2>4, Zenon
    <3> QED
      <4> HIDE DEF above
      <4> QED
        BY <3>3, <3>4
  <2> QED
    BY <1>2, <2>6, Zenon
<1> QED
  BY <1>3, WorkersInvariant, PTL

-----------------------------------------------------------------------------
(* The provider's contract.                                                *)

\* The claims use the provider as its contract allows: every step of theirs
\* is a step of FencingContract or leaves the provider alone.
THEOREM WorkersUseContract == WorkersSpec => FencingSpec
<1>1. WorkersInit => FencingInit
  BY DEF WorkersInit
<1>2. WorkersInv /\ [WorkersNext]_fencedVars => [FencingNext]_fencingVars
  <2> SUFFICES ASSUME WorkersInv, [WorkersNext]_fencedVars
               PROVE  FencingNext \/ UNCHANGED fencingVars
    OBVIOUS
  <2>1. CASE TimePasses
    BY <2>1 DEF TimePasses, FencingNext
  <2>b. ASSUME NEW h \in Holder, StoresLease(h)
        PROVE  FencingNext
    <3>1. PICK at \in started[h]..clock : Acquire(requirements(h)[taken[h] + 1], h, at + TTL)
      BY <2>b, Zenon DEF StoresLease
    <3>2. at + TTL \in 0..(clock + TTL)
      BY FencingAssumption DEF WorkersInv, WorkersTypeOK, FencingTypeOK
    <3>3. requirements(h)[taken[h] + 1] \in Resource
      BY <2>b, AcquireFacts, Zenon
    <3> QED
      BY <3>1, <3>2, <3>3, Zenon DEF FencingNext
  <2>2. ASSUME NEW h \in Holder, AcquireNext(h)
        PROVE  FencingNext
    <3>1. StoresLease(h)
      BY <2>2, AcquireStores DEF WorkersInv
    <3> QED
      BY <2>b, <3>1
  <2>a. ASSUME NEW h \in Holder, AcquireAnswerLost(h)
        PROVE  FencingNext
    <3>1. StoresLease(h)
      BY <2>a, AnswerLostStores DEF WorkersInv
    <3> QED
      BY <2>b, <3>1
  <2>3. ASSUME NEW h \in Holder, ReleaseLast(h)
        PROVE  FencingNext \/ UNCHANGED fencingVars
    <3>1. taken[h] \in 1..taken[h]
      BY <2>3, HasFacts DEF ReleaseLast, WorkersInv
    <3>2. PICK g \in grants : g.resource = requirements(h)[taken[h]] /\ g.holder = h
      BY <3>1, Zenon DEF WorkersInv, ClaimOK
    <3>3. HandleOf(h, taken[h]) = g
      BY <3>2, HandleIsGrant, Zenon DEF WorkersInv
    <3>4. Release(g) \/ UNCHANGED fencingVars
      BY <2>3, <3>3, Zenon DEF ReleaseLast
    <3> QED
      BY <3>4 DEF FencingNext
  <2>4. ASSUME NEW h \in Holder, QuietStep(h)
        PROVE  UNCHANGED fencingVars
    BY <2>4, Zenon DEF QuietStep, StartClaim, AcquireRefused, AllAcquired, StartInvocation,
                NoInvocation, InvocationReturns, ReleaseFails, AllReleased, WorkerCrashes
  <2>5. CASE UNCHANGED fencedVars
    BY <2>5 DEF fencedVars
  <2> QED
    BY <2>1, <2>2, <2>a, <2>3, <2>4, <2>5 DEF WorkersNext, QuietStep
<1> QED
  BY <1>1, <1>2, WorkersInvariant, PTL DEF WorkersSpec, FencingSpec

\* What the contract keeps of leases, counters and grants.
ContractInv ==
    /\ FencingTypeOK
    /\ NewestGrantRules
    /\ OneHolderPerToken
    /\ TokensAreCounted

\* A grant counts one more token.
LEMMA AcquireCounts ==
    ASSUME ContractInv, NEW r \in Resource, NEW h \in Holder, NEW e \in 0..(clock + TTL),
           Acquire(r, h, e)
    PROVE  ContractInv'
<1> DEFINE t == counter[r] + 1
           g == [resource |-> r, holder |-> h, token |-> t]
           x == [holder |-> h, token |-> t, expires |-> e]
<1>0. /\ clock \in 0..MaxTime /\ counter \in [Resource -> 0..MaxToken]
      /\ lease \in [Resource -> Lease \cup {NoLease}] /\ grants \subseteq Grant
      /\ MaxToken \in Nat /\ MaxTime \in Nat /\ TTL \in Nat
  BY FencingAssumption DEF ContractInv, FencingTypeOK
<1>1. /\ t <= MaxToken /\ UNCHANGED clock
      /\ counter' = [counter EXCEPT ![r] = t]
      /\ lease' = [lease EXCEPT ![r] = x]
      /\ grants' = grants \cup {g}
  BY DEF Acquire
<1>2. counter[r] \in Nat /\ t \in Token /\ e \in Expiry
  BY <1>0, <1>1 DEF Token, Expiry
<1>3. /\ x \in Lease /\ x.token = t
      /\ g \in Grant /\ g.resource = r /\ g.holder = h /\ g.token = t
  BY <1>2 DEF Lease, Grant
<1> HIDE DEF x, g
<1>4. FencingTypeOK'
  <2>1. lease' \in [Resource -> Lease \cup {NoLease}]
    BY <1>0, <1>1, <1>3
  <2>2. counter' \in [Resource -> 0..MaxToken]
    BY <1>0, <1>1, <1>2
  <2> QED
    BY <1>0, <1>1, <1>3, <2>1, <2>2 DEF FencingTypeOK
<1>5. NewestGrantRules'
  BY <1>0, <1>1, <1>3 DEF ContractInv, NewestGrantRules
<1> DEFINE tokens(s) == {k.token : k \in {j \in grants : j.resource = s}}
<1>6. \A s \in Resource : tokens(s) = 1..counter[s]
  BY Zenon DEF ContractInv, TokensAreCounted
<1>7. OneHolderPerToken'
  <2>1. \A k \in grants : k.resource = r => k.token \in tokens(r)
    BY Zenon
  <2>2. \A k \in grants : k.resource = r => k.token \in 1..counter[r]
    BY <1>6, <2>1
  <2>3. \A k \in grants : k.resource = r => k.token # t
    <3> HIDE DEF tokens
    <3> QED
      BY <1>2, <2>2
  <2> QED
    BY <1>1, <1>3, <2>3 DEF ContractInv, OneHolderPerToken
<1>8. TokensAreCounted'
  <2> SUFFICES ASSUME NEW s \in Resource
               PROVE  {k.token : k \in {j \in grants' : j.resource = s}} = 1..counter'[s]
    BY DEF TokensAreCounted
  <2>1. CASE s = r
    <3>1. {k.token : k \in {j \in grants' : j.resource = r}} = tokens(r) \cup {t}
      BY <1>1, <1>3
    <3>2. 1..t = (1..counter[r]) \cup {t}
      BY <1>2
    <3> QED
      BY <1>0, <1>1, <1>6, <2>1, <3>1, <3>2, Zenon
  <2>2. CASE s # r
    <3>1. {k.token : k \in {j \in grants' : j.resource = s}} = tokens(s)
      BY <1>1, <1>3, <2>2
    <3> QED
      BY <1>0, <1>1, <1>6, <2>2, <3>1, Zenon
  <2> QED
    BY <2>1, <2>2
<1> QED
  BY <1>4, <1>5, <1>7, <1>8 DEF ContractInv

\* Renewals and releases count nothing.
LEMMA OthersCountNothing ==
    ASSUME ContractInv,
           \/ \E g \in grants, e \in 0..(clock + TTL) : Renew(g, e)
           \/ \E g \in grants : Release(g)
           \/ Tick
           \/ UNCHANGED fencingVars
    PROVE  ContractInv'
<1>0. /\ clock \in 0..MaxTime /\ counter \in [Resource -> 0..MaxToken]
      /\ lease \in [Resource -> Lease \cup {NoLease}] /\ grants \subseteq Grant
      /\ MaxToken \in Nat /\ MaxTime \in Nat /\ TTL \in Nat
  BY FencingAssumption DEF ContractInv, FencingTypeOK
<1>1. UNCHANGED <<counter, grants>>
  BY Zenon DEF Renew, Release, Tick, fencingVars
<1>2. OneHolderPerToken' /\ TokensAreCounted'
  BY <1>1, Zenon DEF ContractInv, OneHolderPerToken, TokensAreCounted
<1>3. clock' \in 0..MaxTime
  <2>1. clock' = clock \/ (clock < MaxTime /\ clock' = clock + 1)
    BY Zenon DEF Renew, Release, Tick, fencingVars
  <2> QED
    BY <1>0, <2>1
<1>4. ASSUME NEW g \in grants, NEW e \in 0..(clock + TTL), Renew(g, e)
      PROVE  /\ lease' \in [Resource -> Lease \cup {NoLease}]
             /\ NewestGrantRules'
  <2>1. g.resource \in Resource
    BY <1>0 DEF Grant
  <2>2. lease[g.resource] \in Lease /\ lease[g.resource] # NoLease
    BY <1>0, <1>4, <2>1 DEF Renew, Held
  <2> DEFINE x == [lease[g.resource] EXCEPT !.expires = e]
  <2>3. x \in Lease /\ x.token = lease[g.resource].token
    <3>1. e \in Expiry
      BY <1>0 DEF Expiry
    <3> QED
      BY <2>2, <3>1 DEF Lease
  <2>4. lease' = [lease EXCEPT ![g.resource] = x]
    BY <1>4 DEF Renew
  <2> HIDE DEF x
  <2> QED
    BY <1>0, <1>1, <2>1, <2>2, <2>3, <2>4 DEF ContractInv, NewestGrantRules
<1>5. ASSUME NEW g \in grants, Release(g)
      PROVE  /\ lease' \in [Resource -> Lease \cup {NoLease}]
             /\ NewestGrantRules'
  BY <1>0, <1>1, <1>5, Zenon DEF ContractInv, NewestGrantRules, Release
<1>6. CASE lease' = lease
  BY <1>0, <1>1, <1>6, <1>2, <1>3 DEF ContractInv, NewestGrantRules, FencingTypeOK
<1>7. CASE \/ \E g \in grants, e \in 0..(clock + TTL) : Renew(g, e)
           \/ \E g \in grants : Release(g)
  <2>1. lease' \in [Resource -> Lease \cup {NoLease}] /\ NewestGrantRules'
    BY <1>4, <1>5, <1>7
  <2> QED
    BY <1>0, <1>1, <1>2, <1>3, <2>1 DEF ContractInv, FencingTypeOK
<1> QED
  BY <1>6, <1>7 DEF Tick, fencingVars

\* Whatever is acquired, renewed, released or left to expire: a token is
\* granted to one holder only, tokens leave no gap, and the stored lease
\* carries the newest one.
THEOREM ContractInvariant == FencingSpec => []ContractInv
<1>1. FencingInit => ContractInv
  <2> SUFFICES ASSUME FencingInit PROVE ContractInv
    OBVIOUS
  <2>1. FencingTypeOK
    BY FencingAssumption DEF FencingInit, FencingTypeOK
  <2>2. TokensAreCounted
    BY DEF FencingInit, TokensAreCounted
  <2> QED
    BY <2>1, <2>2 DEF FencingInit, ContractInv, NewestGrantRules, OneHolderPerToken
<1>2. ContractInv /\ [FencingNext]_fencingVars => ContractInv'
  BY AcquireCounts, OthersCountNothing DEF FencingNext
<1> QED
  BY <1>1, <1>2, PTL DEF FencingSpec

\* The holder of an unexpired lease changes only when it gives the lease
\* back: nobody takes over before the expiry the lease had.
THEOREM TakeoverWaits == FencingSpec => NoEarlyTakeover
<1>1. ContractInv /\ [FencingNext]_fencingVars =>
        [\A r \in Resource :
           Held(r) /\ lease'[r] # NoLease =>
             lease'[r].holder = lease[r].holder /\ lease'[r].token = lease[r].token]_fencingVars
  <2> SUFFICES ASSUME ContractInv, FencingNext, NEW r \in Resource, Held(r), lease'[r] # NoLease
               PROVE  lease'[r].holder = lease[r].holder /\ lease'[r].token = lease[r].token
    OBVIOUS
  <2>0. lease \in [Resource -> Lease \cup {NoLease}] /\ grants \subseteq Grant
    BY DEF ContractInv, FencingTypeOK
  <2>1. ASSUME NEW s \in Resource, NEW h \in Holder, NEW e \in 0..(clock + TTL), Acquire(s, h, e)
        PROVE  lease'[r] = lease[r]
    BY <2>0, <2>1 DEF Acquire
  <2>2. ASSUME NEW g \in grants, NEW e \in 0..(clock + TTL), Renew(g, e)
        PROVE  lease'[r].holder = lease[r].holder /\ lease'[r].token = lease[r].token
    <3>1. lease' = [lease EXCEPT ![g.resource] = [lease[g.resource] EXCEPT !.expires = e]]
      BY <2>2 DEF Renew
    <3>2. lease[r] \in Lease
      BY <2>0 DEF Held
    <3>3. CASE r = g.resource
      BY <2>0, <3>1, <3>2, <3>3 DEF Lease
    <3>4. CASE r # g.resource
      BY <2>0, <3>1, <3>4
    <3> QED
      BY <3>3, <3>4
  <2>3. ASSUME NEW g \in grants, Release(g)
        PROVE  lease'[r] = lease[r]
    BY <2>0, <2>3 DEF Release
  <2>4. CASE Tick
    BY <2>4 DEF Tick
  <2> QED
    BY <2>1, <2>2, <2>3, <2>4, Zenon DEF FencingNext
<1> QED
  BY <1>1, ContractInvariant, PTL DEF FencingSpec, NoEarlyTakeover
============================================================================
