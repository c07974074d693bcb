----------------------------- MODULE MCServices -----------------------------
(***************************************************************************)
(* Finite instances of parts around the saga core, in one run: the fences, *)
(* the program pipeline, an HTTP invocation and retention.  They share no  *)
(* state, so a behaviour is one of the part in focus, and the others stay  *)
(* at one initial state.                                                   *)
(***************************************************************************)
EXTENDS FencedWorkers, MCProgram, MCRetention

-----------------------------------------------------------------------------
(* The fences: two claims, and the PostgreSQL provider.                    *)

CONSTANTS h1, h2
VARIABLES dbClock, dbCounter, dbRow, dbGrants, dbHeld, dbTx

dbVars == <<dbClock, dbCounter, dbRow, dbGrants, dbHeld, dbTx>>

\* Two claims list the same two resources in opposite orders.
Opposite == h1 :> <<1, 2>> @@ h2 :> <<2, 1>>

Postgres == INSTANCE FencingPostgres
    WITH clock <- dbClock, counter <- dbCounter, row <- dbRow, grants <- dbGrants,
         held <- dbHeld, tx <- dbTx, Resource <- {1}, MaxTime <- 3,
         TTL <- 2, MaxTries <- 2, MaxRevision <- 2

-----------------------------------------------------------------------------
(* An HTTP invocation.                                                     *)

CONSTANTS Calls, Workloads, HTTPDescriptors, RedirectTargets, MaxRequestBytes,
          MaxFaults
VARIABLES executor, request, call, copy, reviews, wrote, faults

HTTP == INSTANCE HTTPInvocation

httpVars == <<executor, request, call, copy, reviews, wrote, faults>>

Forward == [verb |-> "RequestManualReview", direction |-> "forward", key |-> "f",
            order |-> "o", hash |-> "h", canonical |-> "h", bytes |-> 1]
Compensation == [Forward EXCEPT !.verb = "CancelManualReview",
                                !.direction = "compensation", !.key = "x"]

\* Two attempts of one effect and its compensation.
Retried == ("first" :> Forward) @@ ("again" :> Forward) @@ ("undo" :> Compensation)

\* The effects of two executions on one order, and one key with other arguments.
Contended == ("first" :> Forward) @@ ("again" :> [Forward EXCEPT !.key = "g"])
             @@ ("undo" :> [Forward EXCEPT !.hash = "i", !.canonical = "i"])

\* A request that is too large, a compensation sent to the forward endpoint,
\* and one without an order.
Misused == ("first" :> [Forward EXCEPT !.bytes = 9])
           @@ ("again" :> [Compensation EXCEPT !.direction = "forward"])
           @@ ("undo" :> [Forward EXCEPT !.order = ""])

\* Two compensations of one effect.
Undone == ("first" :> Forward) @@ ("again" :> [Compensation EXCEPT !.key = "y"])
          @@ ("undo" :> Compensation)

SomeWorkloads == {Retried, Contended, Misused, Undone}

Service == [scheme |-> "https", host |-> "reviews", port |-> 0, user |-> FALSE, ip |-> "none"]
SomeTargets == {Service, [Service EXCEPT !.scheme = "http"], [Service EXCEPT !.host = "other"]}

Described == [type |-> "http", resolver |-> "effectus/http/v1", pinned |-> FALSE,
              reference |-> Service,
              headers |-> <<[fold |-> "x-demo-token", rank |-> 1]>>,
              settings |-> [method |-> {}, timeout |-> {}, max_response_bytes |-> {},
                            allow_private_network |-> {}]]

\* The last five are refused.
SomeDescriptors ==
  { Described,
    [Described EXCEPT !.settings.method = {"PUT"}],
    [Described EXCEPT !.headers = <<>>],
    [Described EXCEPT !.settings.max_response_bytes = {5}],
    [Described EXCEPT !.settings.timeout = {0}],
    [Described EXCEPT !.settings.allow_private_network = {"yes"}],
    [Described EXCEPT !.reference = [Service EXCEPT !.ip = "private"]],
    [Described EXCEPT !.headers = <<[fold |-> "idempotency-key", rank |-> 1]>>],
    [Described EXCEPT !.resolver = ""] }

-----------------------------------------------------------------------------
VARIABLE focus      \* the part that moves

everything == <<focus, fencedVars, dbVars, vars, httpVars, retentionVars>>

ServicesInit ==
  /\ focus \in {"workers", "provider", "program", "http", "executions",
                "deliveries"}
  /\ WorkersInit /\ Postgres!PostgresInit
  /\ Init
  /\ HTTP!HTTPInit
  /\ focus # "http" => executor = HTTP!Resolve(Described)
  /\ executor # HTTP!Resolve(Described) \/ focus # "http" => request = Retried
  /\ RetentionInit

ServicesNext ==
  \/ /\ focus = "workers" /\ WorkersNext
     /\ UNCHANGED <<focus, dbVars, vars, httpVars, retentionVars>>
  \/ /\ focus = "provider" /\ Postgres!PostgresNext
     /\ UNCHANGED <<focus, fencedVars, vars, httpVars, retentionVars>>
  \/ /\ focus = "program" /\ Next
     /\ UNCHANGED <<focus, fencedVars, dbVars, httpVars, retentionVars>>
  \/ /\ focus = "http" /\ HTTP!HTTPNext
     /\ UNCHANGED <<focus, fencedVars, dbVars, vars, retentionVars>>
  \/ /\ focus = "executions" /\ RetentionNext /\ UNCHANGED deliveries
     /\ UNCHANGED <<focus, fencedVars, dbVars, vars, httpVars>>
  \/ /\ focus = "deliveries" /\ RetentionNext /\ UNCHANGED executions
     /\ UNCHANGED <<focus, fencedVars, dbVars, vars, httpVars>>

ServicesRun == ServicesInit /\ [][ServicesNext]_everything

-----------------------------------------------------------------------------
(* Properties of the parts.                                                *)

\* FencingPostgres: concurrent transactions of PostgresProvider implement
\* FencingContract.
ImplementsContract ==
  /\ Postgres!Contract!FencingInit
  /\ [][focus = "provider" /\ Postgres!Contract!FencingNext]_(Postgres!Contract!fencingVars)

=============================================================================
