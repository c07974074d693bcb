----------------------------- MODULE MCIntake -------------------------------
(***************************************************************************)
(* Finite instances of what feeds the engine: the Kafka source, the        *)
(* request surfaces, and the daemon with its servers and workers.  They    *)
(* share no state, so a behaviour is one of the part in focus, and the     *)
(* others stay at one initial state.                                       *)
(***************************************************************************)
EXTENDS KafkaSource, TLC

-----------------------------------------------------------------------------
(* The Kafka source: two members, two records in one partition.            *)

CONSTANTS m1, m2, p1, p2

Config(policy, attempts, contract, wait, audit, dlqMode) ==
  [addressed |-> TRUE, limits |-> TRUE, tracker |-> TRUE, attempts |-> attempts,
   policy |-> policy, contract |-> contract, wait |-> wait, start |-> "earliest",
   audit |-> audit, dlqTopic |-> "dead", dlqMode |-> dlqMode]

Halting == Config("halt", 2, "completed_processing", "completed", TRUE, "")

\* The last two are refused.
SomeConfigs ==
  { Halting,
    Config("dlq", 2, "durable_acceptance", "accepted", TRUE, "at_least_once"),
    Config("skip", 1, "", "", TRUE, ""),
    Config("skip", 1, "", "", FALSE, ""),
    Config("dlq", 2, "", "", TRUE, "") }

TwoAndNone == (p1 :> 2) @@ (p2 :> 0)
FirstIsBad == {<<p1, 0>>}

-----------------------------------------------------------------------------
(* The daemon: a request, an RPC and the recovery worker.                  *)

CONSTANTS Flags, KindOf, WorkOf, PinnedTo, MaxRPCs
VARIABLES flags, main, open, running, draining, cancelled, grpc, user, entry, artifacts,
          blocked

Daemon == INSTANCE DaemonLifetime

daemonVars == <<flags, main, open, running, draining, cancelled, grpc, user, entry,
                artifacts, blocked>>

Serve == [shutdownTimeout |-> 1, mode |-> "serve", migrations |-> "validate",
          migrateOnly |-> FALSE, bundle |-> TRUE, oci |-> FALSE, factSource |-> "kafka",
          http |-> TRUE, grpc |-> TRUE, token |-> TRUE, insecure |-> TRUE,
          certificate |-> FALSE]
SomeFlags ==
  { Serve,
    [Serve EXCEPT !.grpc = FALSE, !.factSource = "http"],
    [Serve EXCEPT !.http = FALSE],
    [Serve EXCEPT !.mode = "migrate", !.bundle = FALSE],
    [Serve EXCEPT !.oci = TRUE],
    [Serve EXCEPT !.token = FALSE],
    [Serve EXCEPT !.certificate = TRUE] }
SomeUsers == ("request" :> "http") @@ ("rpc" :> "rpc") @@ ("recovery" :> "worker")
SomeWork == ("request" :> {"old"}) @@ ("rpc" :> {"old"})
            @@ ("recovery" :> {"older", "new"})
SomePins == ("new" :> "active") @@ ("old" :> "historical") @@ ("older" :> "historical")

-----------------------------------------------------------------------------
(* The request surfaces: two clients, two generations of one version.      *)

CONSTANTS Asks, Namespaces, Keys, Deployments, Limit, Interruptions, Ends, MaxSends
VARIABLES ask, deployed, ledger, send

Surface == INSTANCE RequestSurface

Two == <<[digest |-> "g1", declares |-> TRUE], [digest |-> "g2", declares |-> FALSE]>>

Post == [surface |-> "http", path |-> "/v1/execute", method |-> "POST", token |-> TRUE,
         bytes |-> 1, measured |-> TRUE, parses |-> TRUE, key |-> "k", namespace |-> "n",
         universe |-> "", facts |-> "1", expected |-> "", served |-> TRUE, options |-> FALSE,
         wait |-> ""]
Call == [Post EXCEPT !.surface = "grpc", !.wait = "terminal"]

Pair(a, b) == ("a" :> a) @@ ("b" :> b)
Quiet == [Post EXCEPT !.key = ""]

\* Two clients with one identity, and requests that are refused as they stand.
SomeAsks ==
  { Pair([Post EXCEPT !.expected = "g1"], Call),
    Pair([Post EXCEPT !.facts = "1.0"], [Post EXCEPT !.facts = "2"]),
    Pair([Post EXCEPT !.facts = "text"], Call),
    Pair([Call EXCEPT !.facts = "1.0", !.expected = "g2"], [Call EXCEPT !.wait = "accepted"]),
    Pair(Quiet, [Post EXCEPT !.path = "/other"]),
    Pair(Quiet, [Post EXCEPT !.token = FALSE]),
    Pair(Quiet, [Post EXCEPT !.path = "/v1/other"]),
    Pair(Quiet, [Post EXCEPT !.method = "GET"]),
    Pair(Quiet, [Post EXCEPT !.bytes = 2]),
    Pair(Quiet, [Post EXCEPT !.bytes = 2, !.measured = FALSE]),
    Pair(Quiet, [Post EXCEPT !.parses = FALSE]),
    Pair(Quiet, [Post EXCEPT !.universe = "u"]),
    Pair(Quiet, [Post EXCEPT !.namespace = ""]),
    Pair(Quiet, [Post EXCEPT !.facts = "none"]),
    Pair([Call EXCEPT !.token = FALSE], Call),
    Pair([Call EXCEPT !.served = FALSE], Call),
    Pair([Call EXCEPT !.options = TRUE], Call) }

TwiceAndOnce == ("a" :> 2) @@ ("b" :> 1)

surface == <<ask, deployed, ledger, send>>

-----------------------------------------------------------------------------
VARIABLE focus      \* the part that moves

everything == <<focus, vars, daemonVars, surface>>

IntakeInit ==
  /\ focus \in {"kafka", "daemon", "surface"}
  /\ Init /\ (focus # "kafka" => config = Halting)
  /\ Daemon!DaemonInit /\ (focus # "daemon" => flags = Serve /\ artifacts.resolvable)
  /\ flags.http => artifacts.resolvable
  /\ Surface!SurfaceInit /\ (focus # "surface" => ask = Pair(Quiet, [Post EXCEPT !.token = FALSE]))

IntakeNext ==
  \/ focus = "kafka" /\ Next /\ UNCHANGED <<focus, daemonVars, surface>>
  \/ focus = "daemon" /\ Daemon!DaemonNext /\ UNCHANGED <<focus, vars, surface>>
  \/ focus = "surface" /\ Surface!SurfaceNext /\ UNCHANGED <<focus, vars, daemonVars>>

\* The goroutines of the daemon and of the Kafka source keep running.
KeepsMoving ==
  \/ focus = "kafka" /\ Progress /\ UNCHANGED <<focus, daemonVars, surface>>
  \/ focus = "daemon" /\ Daemon!DaemonProgress /\ UNCHANGED <<focus, vars, surface>>

\* The main goroutine of the daemon and the goroutine that stops gRPC go on,
\* whatever the requests do.
MainMoves == focus = "daemon" /\ Daemon!Main /\ UNCHANGED <<focus, vars, surface>>

IntakeRun ==
  /\ IntakeInit /\ [][IntakeNext]_everything
  /\ WF_everything(KeepsMoving) /\ WF_everything(MainMoves)

-----------------------------------------------------------------------------
(* Properties of the daemon.                                               *)

\* DaemonLifetime: shutdown closes nothing that a call uses, and everything else.
NothingUsedAfterClose == Daemon!NothingUsedAfterClose

\* DaemonLifetime: a context that ends never blocks an execution.
CancellationIsNotEvidence == Daemon!CancellationIsNotEvidence

\* DaemonLifetime: a daemon that stops exits.
EventuallyExits == Daemon!EventuallyExits

-----------------------------------------------------------------------------
(* Properties of the request surfaces.                                     *)

\* RequestSurface: what a client is told is true of its request.
TruthfulAnswers == Surface!TruthfulAnswers
=============================================================================
