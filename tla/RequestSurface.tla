--------------------------- MODULE RequestSurface ---------------------------
(***************************************************************************)
(* The two ways to ask for an execution: POST /v1/execute and the          *)
(* ExecuteRuleset RPC (cmd/effectusd/main.go, http_errors.go;              *)
(* runtime/execution_grpc.go, grpc_server.go), down to Engine.admit and    *)
(* the record it finds or creates, and back to the status a client reads.  *)
(*                                                                         *)
(* Both derive the identity of an execution from the namespace and the     *)
(* idempotency key, so the same request may arrive on both.  A client may  *)
(* give up on a send whose call goes on in the process, and send again,    *)
(* perhaps to a process that was started with another generation of the    *)
(* same ruleset and version.  Workers that drive the executions are        *)
(* reduced to the end they record (Settle).                                *)
(***************************************************************************)
EXTENDS Naturals, Sequences, FiniteSetsExt

CONSTANTS
  Asks,          \* what the clients may ask for, functions from clients to requests
  Namespaces, Keys,
  Deployments,   \* the generations, one after the other
  Limit,         \* maxHTTPBodyBytes
  MaxRPCs,       \* MaxConcurrentRPCs
  Interruptions, \* errors that end a call from outside the request
  Ends,          \* what drivers may record of an execution
  MaxSends       \* bound: client -> its sends

VARIABLES
  ask,           \* client -> its request
  deployed,      \* the generation new sends meet
  ledger,        \* identity -> its record
  send           \* client -> its sends, in order

surfaceVars == <<ask, deployed, ledger, send>>

Clients == DOMAIN ask

-----------------------------------------------------------------------------
(* Errors and answers.  An error is the set of the sentinels that          *)
(* errors.Is and errors.As find in it; a transport takes the first it      *)
(* knows, in its own order.                                                *)

NoAnswer == [code |-> "", message |-> "", state |-> "", completed |-> FALSE]
Answer(code, message) == [NoAnswer EXCEPT !.code = code, !.message = message]

\* The answer of the first check that applies.
FirstOf(checks) ==
  LET applies == {i \in DOMAIN checks : checks[i][1]}
  IN  IF applies = {} THEN NoAnswer ELSE checks[Min(applies)][2]

Unavailable == {"busy", "blocked", "network"}

httpErrorStatus(err, state) ==
  FirstOf(<<
    <<"terminal" \in err /\ state = "failed", [Answer(422, "failed") EXCEPT !.state = state]>>,
    <<"terminal" \in err, [Answer(409, "execution is blocked") EXCEPT !.state = state]>>,
    <<"fact" \in err, Answer(400, "invalid")>>,
    <<"canceled" \in err, Answer(408, "canceled")>>,
    <<"deadline" \in err, Answer(504, "deadline")>>,
    <<"invalid" \in err, Answer(400, "invalid")>>,
    <<"conflict" \in err, Answer(409, "conflict")>>,
    <<"generation" \in err, Answer(409, "generation")>>,
    <<"optimistic" \in err, Answer(409, "changed")>>,
    <<err \cap Unavailable # {}, Answer(503, "unavailable")>>,
    <<TRUE, Answer(500, "internal")>> >>)

grpcEngineError(err, state) ==
  FirstOf(<<
    <<"terminal" \in err, [Answer("FailedPrecondition",
         IF state = "failed" THEN "failed" ELSE "execution is blocked") EXCEPT !.state = state]>>,
    <<"canceled" \in err, Answer("Canceled", "canceled")>>,
    <<"deadline" \in err, Answer("DeadlineExceeded", "deadline")>>,
    <<"conflict" \in err, Answer("AlreadyExists", "conflict")>>,
    <<"generation" \in err, Answer("FailedPrecondition", "generation")>>,
    <<"invalid" \in err, Answer("InvalidArgument", "invalid")>>,
    <<err \cap Unavailable # {}, Answer("Unavailable", "unavailable")>>,
    <<"optimistic" \in err, Answer("Aborted", "changed")>>,
    <<TRUE, Answer("Internal", "internal")>> >>)

ErrorAnswer(r, err, state) ==
  IF r.surface = "http" THEN httpErrorStatus(err, state) ELSE grpcEngineError(err, state)

ResultAnswer(r, state) ==
  [Answer(IF r.surface = "http" THEN 202 ELSE "OK", "accepted") EXCEPT
     !.state = state, !.completed = (state = "completed")]

-----------------------------------------------------------------------------
(* Requests.  Facts are a number, spelled as an integer or as a decimal,   *)
(* or text where a number is declared.                                     *)

Namespace(r) == IF r.namespace = "" THEN r.universe ELSE r.namespace
Identity(r) == <<Namespace(r), r.key>>
WaitMode(r) == IF r.surface = "http" THEN "accepted" ELSE r.wait

\* google.protobuf.Struct holds a double, which has one spelling.
Facts(r) == IF r.surface = "grpc" /\ r.facts = "1.0" THEN "1" ELSE r.facts

\* The routes, the token, and the handler of /v1/execute up to the engine.
httpRefusal(r) ==
  FirstOf(<<
    <<r.path = "/other", Answer(404, "route")>>,
    <<~ r.token, Answer(401, "token")>>,
    <<r.path # "/v1/execute", Answer(404, "route")>>,
    <<r.method # "POST", Answer(405, "method")>>,
    <<r.measured /\ r.bytes > Limit, Answer(413, "request")>>,
    <<r.key = "", Answer(400, "request")>>,
    <<r.bytes > Limit, Answer(413, "request")>>,
    <<~ r.parses, Answer(400, "request")>>,
    <<r.namespace # "" /\ r.universe # "" /\ r.namespace # r.universe, Answer(400, "request")>>,
    <<Namespace(r) = "", Answer(400, "request")>>,
    <<r.facts = "none", Answer(400, "request")>> >>)

InFlight ==
  UNION {{<<c, n>> : n \in {m \in DOMAIN send[c] : send[c][m].at \notin {"answered", "over"}}} :
           c \in {d \in Clients : ask[d].surface = "grpc"}}

\* The interceptor and ExecuteRuleset up to the engine.
grpcRefusal(r) ==
  FirstOf(<<
    <<Cardinality(InFlight) >= MaxRPCs, Answer("ResourceExhausted", "capacity")>>,
    <<~ r.token, Answer("Unauthenticated", "token")>>,
    <<~ r.served, Answer("NotFound", "route")>>,
    <<r.key = "" \/ r.facts = "none" \/ ~ r.parses \/ r.options
        \/ r.wait \notin {"accepted", "terminal"} \/ r.namespace = "",
      Answer("InvalidArgument", "request")>> >>)

Refusal(r) == IF r.surface = "http" THEN httpRefusal(r) ELSE grpcRefusal(r)

\* normalizedWorkflowFacts and the hash of its result: a declared fact has its
\* type and one spelling, an undeclared one is kept as it is.
Invalid(r, g) == g.declares /\ Facts(r) = "text"
semanticAdmissionHash(r, g) == IF g.declares /\ Facts(r) = "1.0" THEN "1" ELSE Facts(r)

-----------------------------------------------------------------------------
(* The state.                                                              *)

NoRecord == [state |-> "absent", by |-> "", hash |-> "", generation |-> 0]
Terminal == {"completed", "failed", "blocked_unknown", "blocked_dependency"}

\* at: where the call is; open: the client still waits for it; generation:
\* the one its process serves.
NewSend(at, answer) == [at |-> at, open |-> TRUE, generation |-> deployed, answer |-> answer]

SurfaceInit ==
  /\ ask \in Asks
  /\ deployed = 1
  /\ ledger = [i \in Namespaces \X Keys |-> NoRecord]
  /\ send = [c \in Clients |-> <<>>]

Step(c, n, at) == send' = [send EXCEPT ![c][n].at = at]
Reply(c, n, answer) ==
  send' = [send EXCEPT ![c][n].at = IF send[c][n].open THEN "answered" ELSE "over",
                       ![c][n].answer = IF send[c][n].open THEN answer ELSE NoAnswer]
Fail(c, n, err) == Reply(c, n, ErrorAnswer(ask[c], err, ""))

-----------------------------------------------------------------------------
(* The engine.                                                             *)

\* terminalExecutionResult: who waits for acceptance gets the record as it is.
Result(c, n, state) ==
  IF state \in Terminal \ {"completed"} /\ WaitMode(ask[c]) = "terminal"
    THEN Reply(c, n, ErrorAnswer(ask[c], {"terminal"}, state))
    ELSE Reply(c, n, ResultAnswer(ask[c], state))

\* A record that is there, or was just made, is returned or waited for.
Proceed(c, n, state) ==
  IF state \in Terminal \/ WaitMode(ask[c]) = "accepted"
    THEN Result(c, n, state) ELSE Step(c, n, "driving")

\* matchReplay: against the generation the record is pinned to.
matchReplay(c, n, record) ==
  LET r == ask[c]
      pinned == Deployments[record.generation]
  IN  IF r.expected \notin {"", pinned.digest} THEN Fail(c, n, {"generation"})
      ELSE IF Invalid(r, pinned) THEN Fail(c, n, {"invalid", "fact"})
      ELSE IF semanticAdmissionHash(r, pinned) # record.hash THEN Fail(c, n, {"conflict"})
      ELSE Proceed(c, n, record.state)

\* Mutant: the request is held against the active generation before the record is.
AdmitByGeneration(c, n) ==
  LET r == ask[c]
      g == Deployments[send[c][n].generation]
  IN  /\ send[c][n].at = "admit"
      /\ IF r.expected \notin {"", g.digest} THEN Fail(c, n, {"generation"})
         ELSE IF Invalid(r, g) THEN Fail(c, n, {"invalid", "fact"})
         ELSE IF ledger[Identity(r)] # NoRecord THEN matchReplay(c, n, ledger[Identity(r)])
         ELSE Step(c, n, "insert")
      /\ UNCHANGED <<ask, deployed, ledger>>

\* admit: an existing record is matched before the active generation is asked.
Admit(c, n) ==
  LET r == ask[c]
      g == Deployments[send[c][n].generation]
  IN  /\ send[c][n].at = "admit"
      /\ IF ledger[Identity(r)] # NoRecord THEN matchReplay(c, n, ledger[Identity(r)])
         ELSE IF r.expected \notin {"", g.digest} THEN Fail(c, n, {"generation"})
         ELSE IF Invalid(r, g) THEN Fail(c, n, {"invalid", "fact"})
         ELSE Step(c, n, "insert")
      /\ UNCHANGED <<ask, deployed, ledger>>

Created(c, n, state) ==
  [state |-> state, by |-> c, generation |-> send[c][n].generation,
   hash |-> semanticAdmissionHash(ask[c], Deployments[send[c][n].generation])]

\* AdmitExecutionAtomic; a plan-less execution is completed at once.  A record
\* that came in between is read again and matched.  If it is not what this send
\* would have stored and that read fails, the answer is a conflict.  The commit
\* may succeed and its answer be lost.
Insert(c, n, state) ==
  LET i == Identity(ask[c])
  IN  /\ send[c][n].at = "insert"
      /\ \/ /\ ledger[i] # NoRecord
            /\ \/ matchReplay(c, n, ledger[i])
               \/ /\ \/ ledger[i].hash # Created(c, n, state).hash
                     \/ ledger[i].generation # Created(c, n, state).generation
                  /\ Fail(c, n, {"conflict"})
            /\ UNCHANGED ledger
         \/ /\ ledger[i] = NoRecord
            /\ ledger' = [ledger EXCEPT ![i] = Created(c, n, state)]
            /\ Proceed(c, n, state) \/ Fail(c, n, {"network"})
      /\ UNCHANGED <<ask, deployed>>

\* The call ends with the execution it waited for, however that ended.
Drive(c, n) ==
  LET state == ledger[Identity(ask[c])].state
  IN  /\ send[c][n].at = "driving" /\ state \in Terminal
      /\ Result(c, n, state)
      /\ UNCHANGED <<ask, deployed, ledger>>

\* The call needs the pinned artifact: matchReplay, and the generation a
\* waiting call drives.
Unreadable(c, n) ==
  LET record == ledger[Identity(ask[c])]
  IN  /\ \/ send[c][n].at \in {"admit", "insert"} /\ record # NoRecord
         \/ send[c][n].at = "driving"
      /\ ask[c].expected \in {"", Deployments[record.generation].digest}

\* Who waits for the end records that a dependency is missing.
Block(c, n) ==
  LET i == Identity(ask[c])
  IN  /\ Unreadable(c, n) /\ WaitMode(ask[c]) = "terminal"
      /\ ledger[i].state \notin Terminal
      /\ ledger' = [ledger EXCEPT ![i].state = "blocked_dependency"]
      /\ Result(c, n, "blocked_dependency")
      /\ UNCHANGED <<ask, deployed>>

\* The context ends, a store call fails, the pinned artifact cannot be read
\* (nor the block be recorded), or a recovery worker holds the execution.
Interrupt(c, n, err) ==
  /\ \/ send[c][n].at \in {"admit", "insert", "driving"}
        /\ err \in Interruptions
     \/ Unreadable(c, n) /\ err = {"blocked"}
     \/ send[c][n].at = "driving" /\ err \in {{"busy"}, {"optimistic", "other"}}
  /\ Fail(c, n, err)
  /\ UNCHANGED <<ask, deployed, ledger>>

-----------------------------------------------------------------------------
(* The clients, the workers and the deployment.                            *)

\* What leaves open whether the request was admitted: the same identity is
\* sent again.
Unsettled == {"canceled", "deadline", "changed", "unavailable", "internal", "capacity"}

LastOf(c) == send[c][Len(send[c])]
MaySend(c) ==
  /\ Len(send[c]) < MaxSends[c]
  /\ send[c] # <<>> => ~ LastOf(c).open \/ LastOf(c).answer.message \in Unsettled

Send(c) ==
  LET refusal == Refusal(ask[c])
  IN  /\ MaySend(c)
      /\ send' = [send EXCEPT ![c] = Append(@,
           NewSend(IF refusal.message = "" THEN "admit" ELSE "answered", refusal))]
      /\ UNCHANGED <<ask, deployed, ledger>>

GiveUp(c) ==
  /\ send[c] # <<>> /\ LastOf(c).open /\ LastOf(c).at # "answered"
  /\ send' = [send EXCEPT ![c][Len(send[c])].open = FALSE]
  /\ UNCHANGED <<ask, deployed, ledger>>

\* A driver records that it runs the execution, or how it ended.
Settle(i, state) ==
  /\ ledger[i].state \in {"accepted", "running"} \ {state}
  /\ ledger' = [ledger EXCEPT ![i].state = state]
  /\ UNCHANGED <<ask, deployed, send>>

Deploy ==
  /\ deployed < Len(Deployments)
  /\ deployed' = deployed + 1
  /\ UNCHANGED <<ask, ledger, send>>

SurfaceNext ==
  \/ \E c \in Clients : Send(c) \/ GiveUp(c)
  \/ \E c \in Clients : \E n \in DOMAIN send[c] :
       \/ Admit(c, n) \/ Drive(c, n) \/ Block(c, n)
       \/ \E state \in {"accepted", "completed"} : Insert(c, n, state)
       \/ \E err \in Interruptions \cup {{"blocked"}, {"busy"}, {"optimistic", "other"}} :
            Interrupt(c, n, err)
  \/ \E i \in DOMAIN ledger, state \in Ends : Settle(i, state)
  \/ Deploy

-----------------------------------------------------------------------------
\* Refusals that depend on the request alone, or also on the generation.
Refused == {"route", "token", "method", "request"}
RefusedNow == {"generation", "invalid"}

\* What a client is told is true of its request, over both transports, after
\* any number of sends, lost answers and deployments.  A refusal means that no
\* send of the client was admitted, nor will be; one that depends on the
\* generation means so for a client that waited for its earlier sends.  A
\* conflict means that the identity belongs to another request, or to a send
\* that the client gave up on and that met another generation.  Acceptance
\* means a durable record of these facts, pinned to the generation the client
\* asked for; and an end that is reported is the recorded one.
TruthfulAnswers ==
  \A c \in Clients : \A n \in DOMAIN send[c] :
    LET a == send[c][n].answer
        record == ledger[Identity(ask[c])]
        pinned == Deployments[record.generation]
        waited == \A m \in 1 .. n : send[c][m].open
    IN  /\ a.message \in Refused => \A i \in DOMAIN ledger : ledger[i].by # c
        /\ a.message \in RefusedNow /\ waited => \A i \in DOMAIN ledger : ledger[i].by # c
        /\ a.message = "conflict" =>
             /\ record # NoRecord
             /\ record.by = c => ~ waited /\ record.generation # send[c][n].generation
        /\ a.state # "" =>
             /\ record # NoRecord
             /\ ask[c].expected \in {"", pinned.digest}
             /\ a.message = "accepted" => record.hash = semanticAdmissionHash(ask[c], pinned)
             /\ a.state \in Terminal => record.state = a.state
             /\ a.completed <=> a.state = "completed"
=============================================================================
