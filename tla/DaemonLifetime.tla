--------------------------- MODULE DaemonLifetime ---------------------------
(***************************************************************************)
(* The life of an effectusd process: flags, the resources it opens one     *)
(* after the other, the HTTP and gRPC servers and the background workers   *)
(* that call the engine, and the shutdown that must not close what a call  *)
(* still uses (cmd/effectusd/main.go, services.go, mode.go;                *)
(* runtime/engine_lifetime.go, engine.go, generation.go, grpc_server.go).  *)
(*                                                                         *)
(* A user is a goroutine inside a call: an HTTP request, an RPC, or a      *)
(* worker.  A call takes the gate of its execution, then the generation    *)
(* the execution is pinned to: the active one, or a historical one that    *)
(* concurrent calls resolve once and share.                                *)
(***************************************************************************)
EXTENDS Naturals, FiniteSets

CONSTANTS
  Flags,        \* the command lines the daemon may be started with
  KindOf,       \* the users: user -> "http", "rpc" or "worker"
  WorkOf,       \* user -> the executions it may ask for
  PinnedTo,     \* execution -> "active" or "historical"
  MaxRPCs       \* MaxConcurrentRPCs

VARIABLES
  flags,        \* the command line
  main,         \* where the main goroutine is
  open,         \* resources the process holds
  running,      \* goroutines of services.run that have not returned
  draining,     \* httpDraining
  cancelled,    \* contexts cancelled by the shutdown: kinds of users
  grpc,         \* [started, stopped]: RulesetExecutionServer
  user,         \* user -> its call
  entry,        \* the historical generation in engine.historical
  artifacts,    \* whether the resolver can rebuild the historical generation, and the
                \* executions for which the stored artifact could not be read
  blocked       \* executions recorded as blocked_dependency

daemonVars == <<flags, main, open, running, draining, cancelled, grpc, user,
                entry, artifacts, blocked>>
Users == DOMAIN KindOf

-----------------------------------------------------------------------------
(* Flags.                                                                  *)

validateDaemonMode(f) ==
  /\ f.shutdownTimeout >= 0
  /\ f.mode \in {"serve", "migrate"}
  /\ f.migrations \in {"apply", "validate"}
  /\ f.migrateOnly => f.mode = "serve"
  /\ IF f.migrateOnly \/ f.mode = "migrate"
       THEN ~ f.bundle /\ ~ f.oci
       ELSE f.bundle # f.oci /\ f.factSource \in {"http", "kafka"}

Migrates(f) == f.migrateOnly \/ f.mode = "migrate"

\* EFFECTUS_API_TOKEN and grpcServerOptions.
mayServe(f) ==
  /\ (f.http \/ f.grpc) => f.token
  /\ f.grpc => f.insecure # f.certificate

-----------------------------------------------------------------------------
NoEntry == [users |-> {}, ready |-> FALSE, err |-> "", generation |-> "none"]
NoCall == [at |-> "idle", execution |-> "", gone |-> FALSE]

DaemonStart ==
  /\ main = "start"
  /\ open = {} /\ running = {}
  /\ draining = FALSE /\ cancelled = {}
  /\ grpc = [started |-> FALSE, stopped |-> "no"]
  /\ user = [u \in Users |-> NoCall]
  /\ entry = NoEntry
  /\ blocked = {}

DaemonInit ==
  /\ flags \in Flags
  /\ artifacts \in [resolvable : BOOLEAN, unread : {{}}]
  /\ DaemonStart

Calling == {"gate", "loading", "resolving", "waiting", "using"}
Active == {u \in Users : user[u].at \in Calling}

\* A request counts once it is tracked, an RPC once it passed the interceptor.
InFlight(kind) == {u \in Users : KindOf[u] = kind /\ user[u].at \notin {"idle", "arrived"}}

\* The context of a call is done: its client left, or the shutdown.
Done(u) == user[u].gone \/ KindOf[u] \in cancelled

At(u, place) == user' = [user EXCEPT ![u].at = place]

-----------------------------------------------------------------------------
(* Start: run and openDaemon.  Every failure closes what was opened.       *)

Exit == main' = "exited" /\ open' = {}

Start ==
  /\ main = "start"
  /\ IF ~ validateDaemonMode(flags) THEN Exit
     ELSE IF Migrates(flags) THEN main' = "migrating" /\ open' = {"database"}
     ELSE IF (flags.http \/ flags.grpc) /\ ~ flags.token THEN Exit
     ELSE main' = "opening" /\ open' = {}
  /\ UNCHANGED <<flags, running, draining, cancelled, grpc, user, entry,
                 artifacts, blocked>>

Migrate ==
  /\ main = "migrating"
  /\ Exit
  /\ UNCHANGED <<flags, running, draining, cancelled, grpc, user, entry,
                 artifacts, blocked>>

\* The bundle, the registry and the generation; then the engine owns it, and
\* the database is opened and its schema checked.
openDaemon ==
  /\ main = "opening"
  /\ \/ "generation" \notin open /\ open' = {"generation"} /\ main' = "opening"
     \/ "generation" \in open /\ open' = open \cup {"database"} /\ main' = "opened"
     \/ Exit
  /\ UNCHANGED <<flags, running, draining, cancelled, grpc, user, entry,
                 artifacts, blocked>>

Listeners(f) == (IF f.http THEN {"http listener"} ELSE {})
                  \cup (IF f.grpc THEN {"grpc listener"} ELSE {})

prepareDaemonServices ==
  /\ main = "opened"
  /\ \/ mayServe(flags) /\ open' = open \cup Listeners(flags) /\ main' = "prepared"
     \/ main' = "closing" /\ open' = open
  /\ UNCHANGED <<flags, running, draining, cancelled, grpc, user, entry,
                 artifacts, blocked>>

-----------------------------------------------------------------------------
(* services.run.                                                           *)

Goroutines(f) ==
  {u \in Users : KindOf[u] = "worker" /\ (u = "kafka" => f.factSource = "kafka")}
    \cup (IF f.http THEN {"HTTP server"} ELSE {})
    \cup (IF f.grpc THEN {"gRPC server"} ELSE {})

\* The signal was already received: nothing was started.
RunCancelled ==
  /\ main = "prepared"
  /\ main' = "closing"
  /\ draining' = TRUE
  /\ grpc' = [grpc EXCEPT !.stopped = "done"]
  /\ open' = open \ {"http listener", "grpc listener"}
  /\ UNCHANGED <<flags, running, cancelled, user, entry, artifacts, blocked>>

Run ==
  /\ main = "prepared"
  /\ main' = "serving"
  /\ running' = Goroutines(flags)
  /\ UNCHANGED <<flags, open, draining, cancelled, grpc, user, entry,
                 artifacts, blocked>>

\* RulesetExecutionServer.Start, in its goroutine.
StartGRPC ==
  /\ "gRPC server" \in running
  /\ ~ grpc.started
  /\ IF grpc.stopped = "no"
       THEN grpc' = [grpc EXCEPT !.started = TRUE] /\ UNCHANGED running
       ELSE running' = running \ {"gRPC server"} /\ UNCHANGED grpc
  /\ UNCHANGED <<flags, main, open, draining, cancelled, user, entry,
                 artifacts, blocked>>

\* Mutant: the workers keep their context.
StopKeepingWorkers ==
  /\ main = "serving"
  /\ main' = "draining"
  /\ draining' = TRUE
  /\ grpc' = [grpc EXCEPT !.stopped = IF ~ flags.grpc \/ ~ grpc.started THEN "done" ELSE "graceful"]
  /\ open' = open \ {"http listener", "grpc listener"}
  /\ UNCHANGED <<flags, running, cancelled, user, entry, artifacts, blocked>>

\* A signal, or a goroutine that returned: admission stops, the workers are
\* cancelled, the gRPC server begins to stop and Shutdown closes the listener.
Stop ==
  /\ main = "serving"
  /\ main' = "draining"
  /\ draining' = TRUE
  /\ cancelled' = cancelled \cup {"worker"}
  /\ grpc' = [grpc EXCEPT !.stopped = IF ~ flags.grpc \/ ~ grpc.started THEN "done" ELSE "graceful"]
  /\ open' = open \ {"http listener", "grpc listener"}
  /\ UNCHANGED <<flags, running, user, entry, artifacts, blocked>>

\* Shutdown returned, or the grace is over: the requests are cancelled.
Drained ==
  /\ main = "draining"
  /\ main' = "joining"
  /\ cancelled' = cancelled \cup {"http"}
  /\ UNCHANGED <<flags, open, running, draining, grpc, user, entry,
                 artifacts, blocked>>

\* RulesetExecutionServer.Stop: drained, or MaxExecutionDuration is over.
StopGRPC ==
  /\ \/ /\ grpc.stopped \in {"graceful", "hard"} /\ InFlight("rpc") = {}
        /\ grpc' = [grpc EXCEPT !.stopped = "done"]
        /\ UNCHANGED cancelled
     \/ /\ grpc.stopped = "graceful"
        /\ grpc' = [grpc EXCEPT !.stopped = "hard"]
        /\ cancelled' = cancelled \cup {"rpc"}
  /\ UNCHANGED <<flags, main, open, running, draining, user, entry, artifacts, blocked>>

\* A goroutine of run returns: a server that was stopped, a worker whose
\* context is done between two calls, or one that failed.
Returns(g) ==
  /\ g \in running
  /\ CASE g = "HTTP server" -> main \in {"draining", "joining"}
       [] g = "gRPC server" -> grpc.stopped = "done"
       [] g \in Users -> user[g].at = "idle" /\ (Done(g) \/ main = "serving")
  /\ running' = running \ {g}
  /\ UNCHANGED <<flags, main, open, draining, cancelled, grpc, user, entry,
                 artifacts, blocked>>

\* httpHandlers.Wait, <-grpcStopped and running.Wait.
Join ==
  /\ main = "joining"
  /\ InFlight("http") = {}
  /\ grpc.stopped = "done"
  /\ running = {}
  /\ main' = "closing"
  /\ UNCHANGED <<flags, open, running, draining, cancelled, grpc, user, entry,
                 artifacts, blocked>>

\* daemon.close: Engine.Close refuses new calls, waits for the active ones and
\* closes the generation; then the database.
CloseDaemon ==
  /\ \/ main = "closing" /\ main' = "closed engine" /\ open' = open
     \/ main = "closed engine" /\ Active = {} /\ Exit
  /\ UNCHANGED <<flags, running, draining, cancelled, grpc, user, entry,
                 artifacts, blocked>>

-----------------------------------------------------------------------------
(* Calls.                                                                  *)

Serving(kind) ==
  CASE kind = "http" -> flags.http /\ main \in {"serving", "draining"}
    [] kind = "rpc" -> grpc.started /\ grpc.stopped = "no"
    [] kind = "worker" -> FALSE

\* A connection delivers a request, also while Shutdown waits for it, an RPC
\* passes the interceptor, or a worker takes its next piece of work.
Arrive(u, e) ==
  /\ user[u].at = "idle"
  /\ \/ Serving(KindOf[u])
     \/ KindOf[u] = "worker" /\ u \in running /\ ~ Done(u)
  /\ KindOf[u] = "rpc" => Cardinality(InFlight("rpc")) < MaxRPCs
  /\ user' = [user EXCEPT ![u] = [at |-> IF KindOf[u] = "http" THEN "arrived" ELSE "tracked",
                                  execution |-> e, gone |-> FALSE]]
  /\ UNCHANGED <<flags, main, open, running, draining, cancelled, grpc, entry,
                 artifacts, blocked>>

\* trackHTTPRequests: refused with 503 while draining.
Track(u) ==
  /\ user[u].at = "arrived"
  /\ IF draining THEN user' = [user EXCEPT ![u] = NoCall] ELSE At(u, "tracked")
  /\ UNCHANGED <<flags, main, open, running, draining, cancelled, grpc, entry,
                 artifacts, blocked>>

\* The client disconnects or the deadline of the call passes.
Disconnect(u) ==
  /\ KindOf[u] # "worker"
  /\ user[u].at \in Calling /\ ~ user[u].gone
  /\ user' = [user EXCEPT ![u].gone = TRUE]
  /\ UNCHANGED <<flags, main, open, running, draining, cancelled, grpc, entry,
                 artifacts, blocked>>

beginExecution(u) ==
  /\ user[u].at = "tracked"
  /\ IF main \in {"closed engine", "exited"} THEN At(u, "leaving") ELSE At(u, "gate")
  /\ UNCHANGED <<flags, main, open, running, draining, cancelled, grpc, entry,
                 artifacts, blocked>>

\* The permit of the gate, or the end of the context: select takes either
\* when both are ready.
TakePermit(u) ==
  /\ user[u].at = "gate"
  /\ \/ /\ \A v \in Users \ {u} :
             user[v].execution = user[u].execution => user[v].at \notin Calling \ {"gate"}
        /\ At(u, "loading")
     \/ Done(u) /\ At(u, "leaving")
  /\ UNCHANGED <<flags, main, open, running, draining, cancelled, grpc, entry,
                 artifacts, blocked>>

\* The leader of acquireHistorical resolves with its own context, and what it
\* gets is what the followers get.
ResolveHistorical(u) ==
  /\ user[u].at = "resolving"
  /\ \/ /\ artifacts.resolvable
        /\ entry' = [entry EXCEPT !.ready = TRUE, !.generation = "open"]
     \/ /\ ~ artifacts.resolvable
        /\ entry' = [entry EXCEPT !.ready = TRUE, !.err = "missing"]
     \/ /\ Done(u)
        /\ entry' = [entry EXCEPT !.ready = TRUE, !.err = "cancelled"]
  /\ At(u, "waiting")
  /\ UNCHANGED <<flags, main, open, running, draining, cancelled, grpc,
                 artifacts, blocked>>

\* Mutant: the call that resolved the generation closes it.
ReleaseByLeader(u) ==
  IF entry.users = {u} THEN NoEntry
  ELSE [entry EXCEPT !.users = @ \ {u},
                     !.generation = IF @ = "open" THEN "closed" ELSE @]

\* The last user removes the entry and closes its generation.
releaseHistorical(u) ==
  IF entry.users = {u} THEN NoEntry ELSE [entry EXCEPT !.users = @ \ {u}]

\* Mutant: whatever kept the generation from being resolved blocks the call.
BlockAlways(u, err) == blocked \cup {user[u].execution}

\* blockDependency and Execute: cancellation is not evidence of a missing
\* artifact, any other error is.
blockDependency(u, err) ==
  IF err # "cancelled" THEN blocked \cup {user[u].execution} ELSE blocked

\* loadExecutionRecord: an HTTP request waits for acceptance only and needs
\* no generation of a recorded execution.  The read of the artifact may fail,
\* with the context or in the store, or bring one that is not the record's.
Load(u) ==
  /\ user[u].at = "loading"
  /\ IF KindOf[u] = "http" \/ PinnedTo[user[u].execution] = "active"
       THEN At(u, "using") /\ UNCHANGED <<entry, artifacts, blocked>>
       ELSE \/ /\ entry' = [entry EXCEPT !.users = @ \cup {u}]
               /\ At(u, IF entry = NoEntry THEN "resolving" ELSE "waiting")
               /\ UNCHANGED <<artifacts, blocked>>
            \/ /\ Done(u)
               /\ At(u, "leaving") /\ blocked' = blockDependency(u, "cancelled")
               /\ UNCHANGED <<entry, artifacts>>
            \/ /\ artifacts' = [artifacts EXCEPT !.unread = @ \cup {user[u].execution}]
               /\ At(u, "leaving") /\ blocked' = blockDependency(u, "unread")
               /\ UNCHANGED entry
            \/ At(u, "leaving") /\ UNCHANGED <<entry, artifacts, blocked>>
  /\ UNCHANGED <<flags, main, open, running, draining, cancelled, grpc>>

\* The select of acquireHistorical.
Await(u) ==
  /\ user[u].at = "waiting"
  /\ \/ /\ Done(u)
        /\ At(u, "leaving") /\ entry' = releaseHistorical(u)
        /\ blocked' = blockDependency(u, "cancelled")
     \/ /\ entry.ready /\ entry.err # ""
        /\ At(u, "leaving") /\ entry' = releaseHistorical(u)
        /\ blocked' = blockDependency(u, entry.err)
     \/ /\ entry.ready /\ entry.err = ""
        /\ At(u, "using") /\ UNCHANGED <<entry, blocked>>
  /\ UNCHANGED <<flags, main, open, running, draining, cancelled, grpc, artifacts>>

\* The rest of Execute: the workflow ends and the call gives back its
\* generation, its gate and its place among the active calls.
Finish(u) ==
  /\ user[u].at = "using"
  /\ At(u, "leaving")
  /\ entry' = IF u \in entry.users THEN releaseHistorical(u) ELSE entry
  /\ UNCHANGED <<flags, main, open, running, draining, cancelled, grpc,
                 artifacts, blocked>>

Leave(u) ==
  /\ user[u].at = "leaving"
  /\ user' = [user EXCEPT ![u] = NoCall]
  /\ UNCHANGED <<flags, main, open, running, draining, cancelled, grpc, entry,
                 artifacts, blocked>>

Proceed(u) ==
  \/ Track(u) \/ beginExecution(u) \/ TakePermit(u) \/ Load(u) \/ ResolveHistorical(u)
  \/ Await(u) \/ Leave(u)

Main ==
  \/ Start \/ Migrate \/ openDaemon \/ prepareDaemonServices \/ Run \/ Drained
  \/ StopGRPC \/ Join \/ CloseDaemon

\* What the goroutines do of their own accord.  A workflow ends at the latest
\* when its context does.
DaemonProgress ==
  \/ Main \/ StartGRPC
  \/ \E g \in Users \cup {"HTTP server", "gRPC server"} : Returns(g)
  \/ \E u \in Users : Proceed(u) \/ (Done(u) /\ Finish(u))

DaemonNext ==
  \/ DaemonProgress \/ RunCancelled \/ Stop
  \/ \E u \in Users : \E e \in WorkOf[u] : Arrive(u, e)
  \/ \E u \in Users : Disconnect(u) \/ Finish(u)

-----------------------------------------------------------------------------
\* Shutdown closes nothing that a call still uses, and leaves nothing open:
\* a call that is past its gate finds the generation it took and the database
\* open, whatever the order in which requests, RPCs, workers, timers and the
\* calls that share a historical generation end; and a process that exits has
\* released every listener, the database and every generation.
NothingUsedAfterClose ==
  /\ \A u \in Users : user[u].at = "using" =>
       /\ {"generation", "database"} \subseteq open
       /\ u \in entry.users => entry.generation = "open"
  /\ main = "exited" => open = {} /\ entry = NoEntry /\ Active = {}

\* A context that ends never blocks an execution, neither its own call's nor
\* that of the call that resolves the generation for others, nor a shutdown's:
\* an execution is left in blocked_dependency only when its generation cannot
\* be rebuilt, or the store failed to deliver its artifact at least once.
CancellationIsNotEvidence ==
  artifacts.resolvable => blocked \subseteq artifacts.unread

\* Once the daemon stops, it exits, whatever was in flight.
EventuallyExits == main = "draining" ~> main = "exited"
=============================================================================
