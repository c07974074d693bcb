---------------------------- MODULE KafkaSource ----------------------------
(***************************************************************************)
(* Kafka ingestion: the consumer-group runner (internal/daemon/kafka/      *)
(* consumer.go), the per-record loop of the source (kafka.go), the engine  *)
(* handler it calls (checked.go) and the durable attempt counter           *)
(* (postgres.go).  Several daemons, the members, share one consumer group. *)
(* The group coordinator is external: it hands out numbered generations,   *)
(* gives every partition to one member of a generation, and accepts an     *)
(* offset commit only from a member of the current generation.             *)
(*                                                                         *)
(* A record is a pair <<partition, offset>>, which is what its delivery    *)
(* identity is made of.  All workers of a member share one admission token,*)
(* so a member does one thing at a time: `at' says what its token holder   *)
(* does, `part' and `offset' with which record.                            *)
(***************************************************************************)
EXTENDS Integers, FiniteSets

CONSTANTS Member, Partition, Nobody,
          First,         \* the member that forms the group
          Configs,       \* the configurations a group may be started with
          Bad,           \* the records whose handler can never succeed
          Published,     \* bound: per partition, how many records come
          MaxMoves,      \* bound: group rebalances nobody needed
          MaxFaults      \* bound: crashes, stops, failed calls

VARIABLES config,     \* policy, contract, wait mode, start offset, audit
          end,        \* per partition, the end of the log
          committed,  \* per partition, the group's committed offset
          group,      \* the coordinator's generation and its assignment
          member,     \* per member, its consumer-group runner
          failures,   \* per record, effectus_kafka_deliveries.failures
          engine,     \* per record, what the engine made of it
          acked,      \* records with a durable poison acknowledgement
          published,  \* records written to the dead-letter topic
          fetched,    \* records some member fetched
          errors,     \* per record, handler errors under a live context
          budget      \* rebalances and faults used so far

external == <<end, group>>
durable == <<committed, failures, engine, acked, published>>
observed == <<fetched, errors>>
vars == <<config, external, durable, observed, member, budget>>

\* A configuration as it is read: strings that may be empty, and switches.
RawConfig ==
  [addressed : BOOLEAN, limits : BOOLEAN, tracker : BOOLEAN, audit : BOOLEAN,
   attempts : Int, policy : STRING, contract : STRING, wait : STRING,
   start : STRING, dlqTopic : STRING, dlqMode : STRING]

ASSUME KafkaAssumption ==
  /\ First \in Member /\ IsFiniteSet(Member)
  /\ Published \in [Partition -> Nat]
  /\ Configs \subseteq RawConfig

Record == UNION {{p} \X (0 .. Published[p] - 1) : p \in Partition}
NoOffset == -1

Policies == {"halt", "skip", "dlq"}
Contracts == {"durable_acceptance", "completed_processing"}

\* The engine wait mode of an acknowledgement contract.
WaitModeForAckContract(contract) ==
  IF contract = "durable_acceptance" THEN "accepted" ELSE "completed"

Default(value, default) == IF value = "" THEN default ELSE value

\* The configuration with its defaults.  `addressed' stands for brokers,
\* topic, group and source identity; `limits' for the retry delays, the
\* fetch sizes and the coordinator timeouts.
NormalizeConfig(raw) ==
  [raw EXCEPT !.start = Default(@, "latest"),
              !.contract = Default(@, "completed_processing"),
              !.attempts = IF @ = 0 THEN 3 ELSE @,
              !.policy = Default(@, "halt")]

ValidConfig(c) ==
  /\ c.addressed /\ c.limits
  /\ c.start \in {"earliest", "latest"}
  /\ c.contract \in Contracts
  /\ c.attempts >= 1
  /\ c.policy \in Policies
  /\ c.policy = "dlq" => c.dlqTopic # "" /\ c.dlqMode = "at_least_once"

\* What run checks before it consumes: a tracker, an audit for skipped
\* records, a publisher for dead letters.
MayRun(c) ==
  /\ c.tracker
  /\ c.policy = "skip" => c.audit
  /\ c.policy = "dlq" => c.dlqTopic # ""

\* The engine handler's own wait mode.
HandlerWait(wait) == Default(wait, "accepted")

\* What the coordinator tells a new assignee of p to start from: the
\* committed offset, or without one the configured end of the log.
StartOf(p) ==
  CASE committed[p] # NoOffset -> committed[p]
    [] committed[p] = NoOffset /\ config.start = "earliest" -> 0
    [] OTHER -> end[p]

Idle == [run |-> "up", generation |-> 0, live |-> FALSE, mine |-> {},
         next |-> [p \in Partition |-> 0], at |-> "none",
         part |-> Nobody, offset |-> NoOffset, unhealthy |-> FALSE]

Init ==
  /\ config \in {[NormalizeConfig(raw) EXCEPT !.wait = HandlerWait(@)] : raw \in Configs}
  /\ ValidConfig(config) /\ MayRun(config)
  /\ end = [p \in Partition |-> 0]
  /\ committed = [p \in Partition |-> NoOffset]
  /\ group = [generation |-> 1, owner |-> [p \in Partition |-> First]]
  /\ member = [m \in Member |-> Idle]
  /\ failures = [r \in Record |-> 0]
  /\ engine = [r \in Record |-> "none"]
  /\ acked = {} /\ published = {}
  /\ fetched = {} /\ errors = [r \in Record |-> 0]
  /\ budget = [moves |-> 0, faults |-> 0]

Current(m) == <<member[m].part, member[m].offset>>

Fault ==
  /\ budget.faults < MaxFaults
  /\ budget' = [budget EXCEPT !.faults = @ + 1]

----------------------------------------------------------------------------
(* The broker.                                                             *)

Publish(p) ==
  /\ end[p] < Published[p]
  /\ end' = [end EXCEPT ![p] = @ + 1]
  /\ UNCHANGED <<config, group, durable, observed, member, budget>>

\* Some partition is assigned to a member that cannot consume it.
Orphaned ==
  \E p \in Partition : \A m \in Member :
    group.owner[p] = m => member[m].run # "up"

\* A new generation.  Partitions go to members that are up; the old
\* generation's members find out later.
Rebalance ==
  \E owner \in [Partition -> {m \in Member : member[m].run = "up"}] :
    /\ group' = [generation |-> group.generation + 1, owner |-> owner]
    /\ UNCHANGED <<config, end, durable, observed, member>>

NeededRebalance == Orphaned /\ Rebalance /\ UNCHANGED budget

SpontaneousRebalance ==
  /\ ~Orphaned /\ budget.moves < MaxMoves
  /\ Rebalance
  /\ budget' = [budget EXCEPT !.moves = @ + 1]

----------------------------------------------------------------------------
(* The consumer-group runner.                                              *)

\* group.Next returns a generation: one worker per assignment, each reader
\* positioned where the coordinator said.  Next returns it only when all
\* workers of the previous generation have returned.
Join(m) ==
  /\ member[m].run = "up" /\ member[m].generation = 0
  /\ \E p \in Partition : group.owner[p] = m
  /\ member' = [member EXCEPT
        ![m].generation = group.generation, ![m].live = TRUE,
        ![m].mine = {p \in Partition : group.owner[p] = m},
        ![m].next = [p \in Partition |-> IF group.owner[p] = m THEN StartOf(p) ELSE 0]]
  /\ UNCHANGED <<config, external, durable, observed, budget>>

\* The generation context ends at the first heartbeat that fails.
GenerationEnds(m) ==
  /\ member[m].live /\ member[m].generation # group.generation
  /\ member' = [member EXCEPT ![m].live = FALSE]
  /\ UNCHANGED <<config, external, durable, observed, budget>>

\* The daemon shuts down, or group.Next fails for good: the run context ends.
Stop(m) ==
  /\ member[m].run = "up" /\ Fault
  /\ member' = [member EXCEPT ![m].run = "stopping", ![m].live = FALSE]
  /\ UNCHANGED <<config, external, durable, observed>>

\* Every worker has returned and the token is back.
Leave(m) ==
  /\ ~member[m].live /\ member[m].at = "none"
  /\ member[m].generation # 0 \/ member[m].run = "stopping"
  /\ member' = [member EXCEPT
        ![m].run = IF @ = "stopping" THEN "down" ELSE @,
        ![m].generation = 0, ![m].mine = {}, ![m].next = Idle.next]
  /\ UNCHANGED <<config, external, durable, observed, budget>>

Crash(m) ==
  /\ member[m].run # "down" /\ Fault
  /\ member' = [member EXCEPT ![m] = [Idle EXCEPT !.run = "down"]]
  /\ UNCHANGED <<config, external, durable, observed>>

Restart(m) ==
  /\ member[m].run = "down" /\ Fault
  /\ member' = [member EXCEPT ![m] = Idle]
  /\ UNCHANGED <<config, external, durable, observed>>

\* A worker takes the admission token before it fetches.
TakeToken(m, p) ==
  /\ member[m].live /\ member[m].at = "none" /\ p \in member[m].mine
  /\ member' = [member EXCEPT ![m].at = "fetch", ![m].part = p]
  /\ UNCHANGED <<config, external, durable, observed, budget>>

FetchMessage(m) ==
  LET p == member[m].part IN
  /\ member[m].at = "fetch" /\ member[m].live
  /\ member[m].next[p] < end[p]
  /\ member' = [member EXCEPT ![m].at = "handle",
        ![m].offset = member[m].next[p], ![m].next[p] = @ + 1]
  /\ fetched' = fetched \cup {<<p, member[m].next[p]>>}
  /\ UNCHANGED <<config, external, durable, errors, budget>>

\* Mutant: the error is dropped and the worker takes the next record.
WorkerContinues(m, unhealthy) ==
  member' = [member EXCEPT
    ![m].at = "none", ![m].part = Nobody, ![m].offset = NoOffset,
    ![m].unhealthy = @ \/ unhealthy]

\* The worker returns with an error.  Unless its context ended first, the
\* error cancels the whole runner.
WorkerFails(m, unhealthy) ==
  member' = [member EXCEPT
    ![m].at = "none", ![m].part = Nobody, ![m].offset = NoOffset,
    ![m].live = FALSE,
    ![m].run = IF member[m].live THEN "stopping" ELSE @,
    ![m].unhealthy = @ \/ unhealthy]

FetchCancelled(m) ==
  /\ member[m].at = "fetch" /\ ~member[m].live
  /\ WorkerFails(m, FALSE)
  /\ UNCHANGED <<config, external, durable, observed, budget>>

----------------------------------------------------------------------------
(* processMessage: one record.                                             *)

Move(m, at) == member' = [member EXCEPT ![m].at = at]

\* The contract the result of a handler call has to meet.
ValidHandleResult(state) ==
  \/ config.contract = "durable_acceptance" /\ state \in {"accepted", "completed"}
  \/ config.contract = "completed_processing" /\ state = "completed"

\* The engine handler returned a result: the record is durably accepted,
\* and in the terminal wait mode its execution completed.
HandleReturns(m) ==
  LET r == Current(m) IN
  /\ member[m].at = "handle" /\ r \notin Bad
  /\ engine' = [engine EXCEPT ![r] = IF @ = "completed" THEN @ ELSE config.wait]
  /\ Move(m, IF ValidHandleResult(engine'[r]) THEN "commit" ELSE "failed")
  /\ errors' = [errors EXCEPT ![r] =
        IF ValidHandleResult(engine'[r]) \/ ~member[m].live THEN @ ELSE @ + 1]
  /\ UNCHANGED <<config, external, committed, failures, acked, published,
                 fetched, budget>>

\* The handler refuses the record, or the engine fails.
HandleFails(m) ==
  LET r == Current(m) IN
  /\ member[m].at = "handle" /\ member[m].live
  /\ IF r \in Bad THEN UNCHANGED budget ELSE Fault
  /\ errors' = [errors EXCEPT ![r] = @ + 1]
  /\ Move(m, "failed")
  /\ UNCHANGED <<config, external, durable, fetched>>

\* The engine gives up because its context was cancelled.
HandleCancelled(m) ==
  /\ member[m].at = "handle" /\ ~member[m].live
  /\ Move(m, "failed")
  /\ UNCHANGED <<config, external, durable, observed, budget>>

\* Mutant: a cancelled handler call is counted as a failed one.
FailureCountsAlways(m) ==
  LET r == Current(m) IN
  /\ member[m].at = "failed"
  /\ failures' = [failures EXCEPT ![r] = @ + 1]
  /\ Move(m, IF failures'[r] >= config.attempts THEN "poison" ELSE "backoff")
  /\ UNCHANGED <<config, external, committed, engine, acked, published,
                 observed, budget>>

\* After an error: nothing if the context ended, else one more failure in
\* the durable counter, and the verdict whether this record is poison.
AfterFailure(m) ==
  LET r == Current(m) IN
  /\ member[m].at = "failed"
  /\ IF ~member[m].live
     THEN WorkerFails(m, FALSE) /\ UNCHANGED failures
     ELSE /\ failures' = [failures EXCEPT ![r] = @ + 1]
          /\ Move(m, IF failures'[r] >= config.attempts THEN "poison" ELSE "backoff")
  /\ UNCHANGED <<config, external, committed, engine, acked, published,
                 observed, budget>>

\* waitContext between two attempts.
Backoff(m) ==
  /\ member[m].at = "backoff"
  /\ IF member[m].live THEN Move(m, "handle") ELSE WorkerFails(m, FALSE)
  /\ UNCHANGED <<config, external, durable, observed, budget>>

\* Mutant: the dead-letter policy commits before it publishes.
PoisonCommitsFirst(m) ==
  /\ member[m].at = "poison"
  /\ Move(m, "commit")
  /\ UNCHANGED <<config, external, durable, observed, budget>>

\* handlePoison: a record acknowledged before is committed; otherwise the
\* policy decides.
HandlePoison(m) ==
  LET r == Current(m) IN
  /\ member[m].at = "poison"
  /\ \/ /\ config.audit /\ r \in acked
        /\ Move(m, "recommit") /\ UNCHANGED <<acked, published>>
     \/ /\ ~(config.audit /\ r \in acked) /\ config.policy = "halt"
        /\ WorkerFails(m, TRUE) /\ UNCHANGED <<acked, published>>
     \/ /\ r \notin acked /\ config.policy = "skip"
        /\ acked' = acked \cup {r}
        /\ Move(m, "commit") /\ UNCHANGED published
     \/ /\ ~(config.audit /\ r \in acked) /\ config.policy = "dlq"
        /\ published' = published \cup {r}
        /\ Move(m, IF config.audit THEN "audit" ELSE "commit")
        /\ UNCHANGED acked
  /\ UNCHANGED <<config, external, committed, failures, engine, observed, budget>>

\* The dead-letter record is acknowledged by the broker; audit it.
AuditPoison(m) ==
  /\ member[m].at = "audit"
  /\ acked' = acked \cup {Current(m)}
  /\ Move(m, "commit")
  /\ UNCHANGED <<config, external, committed, failures, engine, published,
                 observed, budget>>

\* An operator acknowledges a record that halted the source.
OperatorAcknowledges(r) ==
  /\ config.policy = "halt" /\ config.audit
  /\ failures[r] >= config.attempts /\ r \notin acked
  /\ acked' = acked \cup {r}
  /\ UNCHANGED <<config, external, committed, failures, engine, published,
                 observed, member, budget>>

\* commitMessage ignores cancellation.  The coordinator takes the commit of
\* a member of its current generation.
CommitOffsets(m) ==
  /\ member[m].at \in {"commit", "recommit"} /\ member[m].generation = group.generation
  /\ committed' = [committed EXCEPT ![member[m].part] = member[m].offset + 1]
  /\ Move(m, "clear")
  /\ UNCHANGED <<config, external, failures, engine, acked, published,
                 observed, budget>>

\* It refuses the commit of an older generation; or the answer is lost, and
\* the offset may be committed or not.  Only the commit of a record that was
\* acknowledged before leaves the source healthy.
CommitFails(m) ==
  /\ member[m].at \in {"commit", "recommit"}
  /\ WorkerFails(m, member[m].at = "commit")
  /\ \/ /\ member[m].generation # group.generation
        /\ UNCHANGED <<committed, budget>>
     \/ /\ member[m].generation = group.generation /\ Fault
        /\ committed' \in {committed,
              [committed EXCEPT ![member[m].part] = member[m].offset + 1]}
  /\ UNCHANGED <<config, external, failures, engine, acked, published, observed>>

\* Mutant: the admission token is not given back.
ClearHoldingToken(m) ==
  /\ member[m].at = "clear"
  /\ failures' = [failures EXCEPT ![Current(m)] = 0]
  /\ Move(m, "cleared")
  /\ UNCHANGED <<config, external, committed, engine, acked, published,
                 observed, budget>>

\* The record is done: its failure count goes, the token comes back.
ClearAttempts(m) ==
  /\ member[m].at = "clear"
  /\ failures' = [failures EXCEPT ![Current(m)] = 0]
  /\ member' = [member EXCEPT ![m].at = "none", ![m].part = Nobody,
                              ![m].offset = NoOffset]
  /\ UNCHANGED <<config, external, committed, engine, acked, published,
                 observed, budget>>

\* A database or broker call of the record loop fails: fetching, reading,
\* recording or clearing the failure count, the dead-letter write, the audit.
CallFails(m) ==
  /\ \/ member[m].at \in {"handle", "failed", "poison", "audit", "clear"}
     \/ member[m].at = "fetch" /\ member[m].live
  /\ IF member[m].live \/ member[m].at = "clear" THEN Fault ELSE UNCHANGED budget
  /\ WorkerFails(m, FALSE)
  /\ UNCHANGED <<config, external, durable, observed>>

----------------------------------------------------------------------------
Progresses(m) ==
  \/ Join(m) \/ GenerationEnds(m) \/ Leave(m)
  \/ \E p \in Partition : TakeToken(m, p)
  \/ FetchMessage(m) \/ FetchCancelled(m)
  \/ HandleReturns(m) \/ HandleFails(m) \/ HandleCancelled(m)
  \/ AfterFailure(m) \/ Backoff(m)
  \/ HandlePoison(m) \/ AuditPoison(m)
  \/ CommitOffsets(m) \/ CommitFails(m) \/ ClearAttempts(m)

Next ==
  \/ \E p \in Partition : Publish(p)
  \/ NeededRebalance \/ SpontaneousRebalance
  \/ \E r \in Record : OperatorAcknowledges(r)
  \/ \E m \in Member :
       Progresses(m) \/ Stop(m) \/ Crash(m) \/ Restart(m) \/ CallFails(m)

Spec == Init /\ [][Next]_vars

\* Some goroutine of a member goes on, or the coordinator replaces a
\* generation that lost a member.  Records, faults and rebalances are finite,
\* so it does not matter which of them moves first.
Progress == NeededRebalance \/ \E m \in Member : Progresses(m)

FairSpec == Spec /\ WF_vars(Progress)

----------------------------------------------------------------------------
\* No offset is committed past a record that is still owed something: every
\* record below the committed offset reached the boundary of the configured
\* acknowledgement contract, or was disposed of as poison by the configured
\* policy, whatever crashes, rebalances and lost answers came in between
\* (processMessage, handlePoison, commitMessage).
NoRecordSkipped ==
  \A r \in Record :
    config.start = "earliest" /\ r[2] < committed[r[1]] =>
      \/ ValidHandleResult(engine[r])
      \/ r \in acked /\ (config.policy = "skip" \/ config.audit)
      \/ r \in published /\ config.policy = "dlq"

\* A record is treated as poison only after the configured number of handler calls failed
\* on their own account: calls that a crash, a rebalance or a shutdown cut
\* short, and commits that failed after a successful call, do not add to the
\* durable failure count (the AttemptTracker contract).
PoisonIsEarned ==
  \A r \in Record :
    /\ failures[r] <= errors[r]
    /\ r \in published \cup acked => errors[r] >= config.attempts

\* A fetched record without a committed offset stays in reach: the current
\* reader of its partition stands at or before it, or works on it, so a
\* replacement consumer replays it (consumer start offsets, Join).
StaysAvailable ==
  \A m \in Member : \A r \in fetched :
    LET p == r[1] IN
    /\ member[m].live /\ member[m].generation = group.generation
    /\ p \in member[m].mine /\ committed[p] <= r[2]
    => \/ member[m].next[p] <= r[2]
       \/ Current(m) = r /\ member[m].at # "none"

\* A member waits in FetchMessage, holding the token, for a partition that
\* has nothing to fetch.
WaitsOnEmpty(m) ==
  /\ member[m].at = "fetch"
  /\ member[m].next[member[m].part] = end[member[m].part]

\* Every published record is committed in the end, unless the group has no
\* running member left or the one that owns the partition sits on the
\* admission token while it waits for a record of another, empty partition
\* (the token is taken before FetchMessage, consumer.go).
EventuallyCommitted ==
  <>[](\A p \in Partition :
         \/ end[p] = 0
         \/ committed[p] = end[p]
         \/ \A m \in Member : member[m].run = "down"
         \/ \E m \in Member : p \in member[m].mine /\ WaitsOnEmpty(m)
                              /\ member[m].part # p)
============================================================================
