--------------------------- MODULE FencingContract ---------------------------
(***************************************************************************)
(* What a fencing.Provider promises its callers: on each resource at most  *)
(* one lease, a token that grows with every grant, and no effect of a      *)
(* handle whose grant was replaced.  InMemoryProvider performs exactly     *)
(* these steps under its mutex.  A provider may date a lease from an       *)
(* earlier moment than the grant itself, never from a later one.           *)
(***************************************************************************)
EXTENDS Naturals, FiniteSets

CONSTANTS
    Resource,       \* resourceKey: authority and resource name
    Holder,         \* Request.Holder
    TTL,            \* the longest TTL asked for
    MaxTime,        \* bound: how far the clock runs
    MaxToken        \* bound: grants on one resource

ASSUME FencingAssumption ==
    /\ "none" \notin Holder
    /\ TTL \in Nat \ {0}
    /\ MaxTime \in Nat
    /\ MaxToken \in Nat

VARIABLES
    clock,          \* provider.now
    counter,        \* provider.counters
    lease,          \* provider.leases
    grants          \* every memoryLease handed out: who holds it and its token

fencingVars == <<clock, counter, lease, grants>>

-----------------------------------------------------------------------------
Token == 1..MaxToken

\* The latest expiry a lease can have.
Expiry == 0..(MaxTime + TTL)

Lease == [holder : Holder, token : Token, expires : Expiry]

NoLease == [holder |-> "none", token |-> 0, expires |-> 0]

Grant == [resource : Resource, holder : Holder, token : Token]

FencingTypeOK ==
    /\ clock \in 0..MaxTime
    /\ counter \in [Resource -> 0..MaxToken]
    /\ lease \in [Resource -> Lease \cup {NoLease}]
    /\ grants \subseteq Grant

FencingInit ==
    /\ clock = 0
    /\ counter = [r \in Resource |-> 0]
    /\ lease = [r \in Resource |-> NoLease]
    /\ grants = {}

\* An unexpired lease refuses the next acquisition with ErrLeaseHeld.
Held(r) == lease[r] # NoLease /\ lease[r].expires > clock

\* The stored lease is the one this handle was given.
Matches(g) ==
    /\ lease[g.resource].holder = g.holder
    /\ lease[g.resource].token = g.token

-----------------------------------------------------------------------------
\* Acquire: nothing is held, so count one more grant and store it.
Acquire(r, h, expires) ==
    LET token == counter[r] + 1
    IN  /\ ~Held(r)
        /\ token <= MaxToken
        /\ counter' = [counter EXCEPT ![r] = token]
        /\ lease' = [lease EXCEPT ![r] = [holder |-> h, token |-> token, expires |-> expires]]
        /\ grants' = grants \cup {[resource |-> r, holder |-> h, token |-> token]}
        /\ UNCHANGED clock

\* Renew restarts the TTL, which may also shorten the lease.  A handle that
\* was replaced, released or left to expire gets ErrStaleGrant.
Renew(g, expires) ==
    /\ Matches(g)
    /\ Held(g.resource)
    /\ lease' = [lease EXCEPT ![g.resource].expires = expires]
    /\ UNCHANGED <<clock, counter, grants>>

\* Release deletes the lease it was given, expired or not, and no other.
Release(g) ==
    /\ Matches(g)
    /\ lease' = [lease EXCEPT ![g.resource] = NoLease]
    /\ UNCHANGED <<clock, counter, grants>>

Tick ==
    /\ clock < MaxTime
    /\ clock' = clock + 1
    /\ UNCHANGED <<counter, lease, grants>>

FencingNext ==
    \/ \E r \in Resource, h \in Holder, expires \in 0..(clock + TTL) : Acquire(r, h, expires)
    \/ \E g \in grants, expires \in 0..(clock + TTL) : Renew(g, expires)
    \/ \E g \in grants : Release(g)
    \/ Tick

FencingSpec == FencingInit /\ [][FencingNext]_fencingVars

-----------------------------------------------------------------------------
(* Properties.                                                             *)

\* A token is given to one holder only, whatever was released, expired or
\* acquired again in between: a destination that remembers the highest token
\* it saw can tell an old holder from the current one.
OneHolderPerToken ==
    \A g, k \in grants : g.resource = k.resource /\ g.token = k.token => g = k

\* The stored lease carries the newest token of its resource, so every older
\* handle is refused by Renew and by Release.
NewestGrantRules ==
    \A r \in Resource : lease[r] # NoLease => lease[r].token = counter[r]

\* Tokens leave no gap: a refused acquisition consumes none.
TokensAreCounted ==
    \A r \in Resource : {g.token : g \in {k \in grants : k.resource = r}} = 1..counter[r]

\* The holder of an unexpired lease changes only when that holder gives the
\* lease back: nobody takes over before the expiry the lease had.
NoEarlyTakeover ==
    [][\A r \in Resource :
         Held(r) /\ lease'[r] # NoLease =>
           lease'[r].holder = lease[r].holder /\ lease'[r].token = lease[r].token]_fencingVars
=============================================================================
