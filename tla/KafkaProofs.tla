---------------------------- MODULE KafkaProofs ----------------------------
(***************************************************************************)
(* Proofs about KafkaSource: for any members, partitions, records and      *)
(* configurations, no offset is committed past a record that is still owed *)
(* something, no record is poison before it earned it, and a fetched       *)
(* record without a commit is read again.                                  *)
(***************************************************************************)
EXTENDS KafkaSource, FiniteSetTheorems, TLAPS

\* What the holder of the admission token does while it has a record.
Holding == {"handle", "failed", "backoff", "poison", "audit", "commit",
            "recommit", "clear"}

MemberState ==
  [run : {"up", "stopping", "down"}, generation : Nat, live : BOOLEAN,
   mine : SUBSET Partition, next : [Partition -> Nat],
   at : Holding \cup {"none", "fetch"},
   part : Partition \cup {Nobody}, offset : Nat \cup {NoOffset},
   unhealthy : BOOLEAN]

\* Every variable holds what its declaration says; logs end within the
\* bound, and no offset is committed beyond the end of its log.
KafkaTypeOK ==
  /\ config.attempts \in Int
  /\ end \in [Partition -> Nat]
  /\ committed \in [Partition -> Nat \cup {NoOffset}]
  /\ \A p \in Partition : committed[p] <= end[p] /\ end[p] <= Published[p]
  /\ group \in [generation : Nat \ {0}, owner : [Partition -> Member]]
  /\ member \in [Member -> MemberState]
  /\ failures \in [Record -> Nat] /\ errors \in [Record -> Nat]
  /\ engine \in [Record -> {"none", config.wait}]
  /\ acked \subseteq Record /\ published \subseteq Record /\ fetched \subseteq Record

\* A runner without a generation reads nothing; a worker acts only on a
\* partition of its generation, and on a record it fetched.
WorkerOK(m) ==
  /\ member[m].generation <= group.generation
  /\ member[m].generation = 0 => member[m].mine = {} /\ ~member[m].live
  /\ member[m].generation = group.generation =>
       \A p \in member[m].mine : group.owner[p] = m
  /\ \A p \in member[m].mine : member[m].next[p] <= end[p]
  /\ member[m].at # "none" => member[m].part \in member[m].mine
  /\ member[m].at \in Holding =>
       /\ member[m].offset \in Nat
       /\ member[m].next[member[m].part] = member[m].offset + 1

\* Where a reader of p stands when the group starts from the beginning, or
\* has committed an offset.
Anchored(p) == config.start = "earliest" \/ committed[p] # NoOffset
Floor(p) == IF committed[p] = NoOffset THEN 0 ELSE committed[p]

Works(m, p) == member[m].at \in Holding /\ member[m].part = p

\* A member of the current generation works on the first record that is not
\* committed, or stands before it.
Standing(m, p) ==
  member[m].generation = group.generation /\ p \in member[m].mine /\ Anchored(p) =>
    /\ Works(m, p) =>
         member[m].offset = IF member[m].at = "clear" THEN Floor(p) - 1 ELSE Floor(p)
    /\ ~Works(m, p) /\ member[m].live => member[m].next[p] = Floor(p)

\* The record reached the boundary of the contract, or the policy's end.
Settled(r) ==
  \/ ValidHandleResult(engine[r])
  \/ r \in acked /\ (config.policy = "skip" \/ config.audit)
  \/ r \in published /\ config.policy = "dlq"

\* What a worker knows of its record before it commits the offset.
Knows(m) ==
  LET r == Current(m) IN
  /\ member[m].at \in {"commit", "recommit"} => Settled(r)
  /\ member[m].at = "audit" => r \in published /\ config.policy = "dlq"
  /\ member[m].at \in {"poison", "audit"} => errors[r] >= config.attempts

\* The workers that saw a call fail under a live context and have not
\* counted it yet.
Uncounted(r) ==
  {m \in Member : member[m].at = "failed" /\ member[m].live /\ Current(m) = r}

\* Every counted or uncounted failure is an error of its own.
Counted(r) ==
  /\ failures[r] + Cardinality(Uncounted(r)) <= errors[r]
  /\ r \in published \cup acked => errors[r] >= config.attempts

KafkaInv ==
  /\ KafkaTypeOK
  /\ \A m \in Member : WorkerOK(m) /\ Knows(m)
  /\ \A m \in Member, p \in Partition : Standing(m, p)
  /\ \A r \in Record : Counted(r)
  /\ NoRecordSkipped

-----------------------------------------------------------------------------
(* Records.                                                                *)

\* A pair of a partition and an offset below its bound is a record.
LEMMA RecordFields ==
  /\ \A p \in Partition, n \in Nat : n < Published[p] => <<p, n>> \in Record
  /\ \A r \in Record : /\ r[1] \in Partition /\ r[2] \in Nat
                       /\ r = <<r[1], r[2]>>
  BY KafkaAssumption DEF Record

\* A worker that holds a record holds one that was published.
LEMMA CurrentIsRecord ==
  ASSUME KafkaTypeOK, NEW m \in Member, WorkerOK(m), member[m].at \in Holding
  PROVE  /\ member[m].part \in Partition /\ member[m].offset \in Nat
         /\ member[m].offset < end[member[m].part]
         /\ Current(m) \in Record
<1>1. /\ member[m].part \in Partition /\ member[m].offset \in Nat
      /\ member[m].offset + 1 <= end[member[m].part]
  BY DEF KafkaTypeOK, WorkerOK, Holding, MemberState
<1>2. end[member[m].part] \in Nat /\ Published[member[m].part] \in Nat
      /\ end[member[m].part] <= Published[member[m].part]
  BY <1>1, KafkaAssumption DEF KafkaTypeOK
<1> QED
  BY <1>1, <1>2, RecordFields DEF Current

-----------------------------------------------------------------------------
(* What the steps of a runner do to its state.                             *)

\* Only what the token holder does changes.
LEMMA MoveFields ==
  ASSUME member \in [Member -> MemberState], NEW m \in Member,
         NEW at \in Holding, Move(m, at)
  PROVE  /\ member' \in [Member -> MemberState]
         /\ \A n \in Member \ {m} : member'[n] = member[n]
         /\ member'[m].live = member[m].live
         /\ member'[m].generation = member[m].generation
         /\ member'[m].mine = member[m].mine /\ member'[m].next = member[m].next
         /\ member'[m].at = at /\ member'[m].part = member[m].part
         /\ member'[m].offset = member[m].offset
<1> DEFINE x == [member[m] EXCEPT !.at = at]
<1>1. member[m] \in MemberState
  OBVIOUS
<1>2. x \in MemberState
  BY <1>1 DEF MemberState
<1>3. member' = [member EXCEPT ![m] = x]
  BY DEF Move
<1>4. /\ x.live = member[m].live /\ x.generation = member[m].generation
      /\ x.mine = member[m].mine /\ x.next = member[m].next
      /\ x.at = at /\ x.part = member[m].part /\ x.offset = member[m].offset
  BY <1>1 DEF MemberState
<1> HIDE DEF x
<1> QED
  BY <1>2, <1>3, <1>4

\* The worker has returned, and its context has ended.
LEMMA WorkerFailsFields ==
  ASSUME member \in [Member -> MemberState], NEW m \in Member,
         NEW b \in BOOLEAN, WorkerFails(m, b)
  PROVE  /\ member' \in [Member -> MemberState]
         /\ \A n \in Member \ {m} : member'[n] = member[n]
         /\ member'[m].at = "none" /\ member'[m].live = FALSE
         /\ member'[m].generation = member[m].generation
         /\ member'[m].mine = member[m].mine /\ member'[m].next = member[m].next
<1> DEFINE x == [member[m] EXCEPT
      !.at = "none", !.part = Nobody, !.offset = NoOffset, !.live = FALSE,
      !.run = IF member[m].live THEN "stopping" ELSE @, !.unhealthy = @ \/ b]
<1>1. member[m] \in MemberState
  OBVIOUS
<1>2. x \in MemberState
  BY <1>1, Zenon DEF MemberState, NoOffset
<1>3. member' = [member EXCEPT ![m] = x]
  BY Zenon DEF WorkerFails
<1>4. /\ x.at = "none" /\ x.live = FALSE /\ x.generation = member[m].generation
      /\ x.mine = member[m].mine /\ x.next = member[m].next
  BY <1>1 DEF MemberState
<1> HIDE DEF x
<1> QED
  BY <1>2, <1>3, <1>4

\* The runner's context ends: nothing else that matters changes.
LEMMA CancelFields ==
  ASSUME member \in [Member -> MemberState], NEW m \in Member,
         GenerationEnds(m) \/ Stop(m)
  PROVE  /\ member' \in [Member -> MemberState]
         /\ \A n \in Member \ {m} : member'[n] = member[n]
         /\ member'[m].live = FALSE
         /\ member'[m].generation = member[m].generation
         /\ member'[m].mine = member[m].mine /\ member'[m].next = member[m].next
         /\ member'[m].at = member[m].at /\ member'[m].part = member[m].part
         /\ member'[m].offset = member[m].offset
<1>1. member[m] \in MemberState
  OBVIOUS
<1> DEFINE x == [member[m] EXCEPT !.run = "stopping", !.live = FALSE]
           y == [member[m] EXCEPT !.live = FALSE]
<1>2. x \in MemberState /\ y \in MemberState
  BY <1>1, Zenon DEF MemberState
<1>3. member' = [member EXCEPT ![m] = x] \/ member' = [member EXCEPT ![m] = y]
  BY Zenon DEF GenerationEnds, Stop
<1>4. \A z \in {x, y} : /\ z.live = FALSE /\ z.generation = member[m].generation
                        /\ z.mine = member[m].mine /\ z.next = member[m].next
                        /\ z.at = member[m].at /\ z.part = member[m].part
                        /\ z.offset = member[m].offset
  BY <1>1, Zenon DEF MemberState
<1> HIDE DEF x, y
<1> QED
  BY <1>2, <1>3, <1>4

\* A runner without a generation reads nothing and holds nothing.
LEMMA ResetFields ==
  ASSUME member \in [Member -> MemberState], NEW m \in Member,
         Leave(m) \/ Crash(m) \/ Restart(m)
  PROVE  /\ member' \in [Member -> MemberState]
         /\ \A n \in Member \ {m} : member'[n] = member[n]
         /\ member'[m].live = FALSE /\ member'[m].generation = 0
         /\ member'[m].mine = {} /\ member'[m].at = "none"
<1>1. member[m] \in MemberState /\ Idle.next \in [Partition -> Nat]
  BY DEF Idle
<1>2. CASE Leave(m)
  <2> DEFINE x == [member[m] EXCEPT !.run = IF @ = "stopping" THEN "down" ELSE @,
                      !.generation = 0, !.mine = {}, !.next = Idle.next]
  <2>1. x \in MemberState
    BY <1>1, Zenon DEF MemberState
  <2>2. member' = [member EXCEPT ![m] = x] /\ ~member[m].live /\ member[m].at = "none"
    BY <1>2, Zenon DEF Leave
  <2>3. /\ x.live = member[m].live /\ x.generation = 0
        /\ x.mine = {} /\ x.at = member[m].at
    BY <1>1 DEF MemberState
  <2>4. member[m].live \in BOOLEAN
    BY <1>1 DEF MemberState
  <2> HIDE DEF x
  <2> QED
    BY <2>1, <2>2, <2>3, <2>4
<1>3. CASE Crash(m) \/ Restart(m)
  <2> DEFINE x == [Idle EXCEPT !.run = "down"]
  <2>1. x \in MemberState /\ Idle \in MemberState
    BY Zenon DEF MemberState, Idle, NoOffset
  <2>2. member' = [member EXCEPT ![m] = x] \/ member' = [member EXCEPT ![m] = Idle]
    BY <1>3 DEF Crash, Restart
  <2>3. \A z \in {x, Idle} : z.live = FALSE /\ z.generation = 0 /\ z.mine = {} /\ z.at = "none"
    BY DEF Idle
  <2> HIDE DEF x
  <2> QED
    BY <2>1, <2>2, <2>3
<1> QED
  BY <1>2, <1>3, Zenon

\* The runner has a new generation and stands where the coordinator said.
LEMMA JoinFields ==
  ASSUME KafkaTypeOK, NEW m \in Member, Join(m)
  PROVE  /\ member' \in [Member -> MemberState]
         /\ \A n \in Member \ {m} : member'[n] = member[n]
         /\ member'[m].live = TRUE
         /\ member'[m].generation = group.generation
         /\ member'[m].mine = {p \in Partition : group.owner[p] = m}
         /\ \A p \in member'[m].mine :
              member'[m].next[p] = StartOf(p) /\ StartOf(p) <= end[p]
         /\ member'[m].at = member[m].at /\ member'[m].part = member[m].part
         /\ member'[m].offset = member[m].offset
<1> DEFINE mine == {p \in Partition : group.owner[p] = m}
           next == [p \in Partition |-> IF group.owner[p] = m THEN StartOf(p) ELSE 0]
           x == [member[m] EXCEPT !.generation = group.generation, !.live = TRUE,
                                  !.mine = mine, !.next = next]
<1>1. member[m] \in MemberState /\ group.generation \in Nat
      /\ member \in [Member -> MemberState]
  BY DEF KafkaTypeOK
<1>2. \A p \in Partition : StartOf(p) \in Nat /\ StartOf(p) <= end[p]
  BY DEF StartOf, NoOffset, KafkaTypeOK
<1>3. mine \subseteq Partition /\ next \in [Partition -> Nat]
  BY <1>2
<1>4. \A p \in mine : next[p] = StartOf(p)
  OBVIOUS
<1>5. member' = [member EXCEPT ![m] = x]
  BY Zenon DEF Join
<1> HIDE DEF mine, next
<1>6. x \in MemberState
  BY <1>1, <1>3, Zenon DEF MemberState
<1>7. /\ x.live = TRUE /\ x.generation = group.generation
      /\ x.mine = mine /\ x.next = next
      /\ x.at = member[m].at /\ x.part = member[m].part /\ x.offset = member[m].offset
  BY <1>1 DEF MemberState
<1> HIDE DEF x
<1>8. member'[m] = x /\ member' \in [Member -> MemberState]
      /\ \A n \in Member \ {m} : member'[n] = member[n]
  BY <1>1, <1>5, <1>6
<1>9. \A p \in mine : p \in Partition
  BY <1>3
<1> QED
  BY <1>2, <1>4, <1>7, <1>8, <1>9 DEF mine

\* A worker has the token and no record yet.
LEMMA TakeTokenFields ==
  ASSUME member \in [Member -> MemberState], NEW m \in Member,
         NEW p \in Partition, TakeToken(m, p)
  PROVE  /\ member' \in [Member -> MemberState]
         /\ \A n \in Member \ {m} : member'[n] = member[n]
         /\ member'[m].live = member[m].live
         /\ member'[m].generation = member[m].generation
         /\ member'[m].mine = member[m].mine /\ member'[m].next = member[m].next
         /\ member'[m].at = "fetch" /\ member'[m].part = p
<1> DEFINE x == [member[m] EXCEPT !.at = "fetch", !.part = p]
<1>1. member[m] \in MemberState
  OBVIOUS
<1>2. x \in MemberState
  BY <1>1, Zenon DEF MemberState
<1>3. member' = [member EXCEPT ![m] = x]
  BY Zenon DEF TakeToken
<1>4. /\ x.live = member[m].live /\ x.generation = member[m].generation
      /\ x.mine = member[m].mine /\ x.next = member[m].next
      /\ x.at = "fetch" /\ x.part = p
  BY <1>1 DEF MemberState
<1> HIDE DEF x
<1> QED
  BY <1>2, <1>3, <1>4

\* A fetch takes the record at the reader's position and moves it on.
LEMMA FetchFields ==
  ASSUME member \in [Member -> MemberState], NEW m \in Member, FetchMessage(m),
         member[m].part \in Partition
  PROVE  /\ member' \in [Member -> MemberState]
         /\ \A n \in Member \ {m} : member'[n] = member[n]
         /\ member'[m].live = member[m].live
         /\ member'[m].generation = member[m].generation
         /\ member'[m].mine = member[m].mine
         /\ member'[m].next = [member[m].next EXCEPT ![member[m].part] = @ + 1]
         /\ member'[m].at = "handle" /\ member'[m].part = member[m].part
         /\ member'[m].offset = member[m].next[member[m].part]
         /\ member'[m].offset \in Nat
<1> DEFINE p == member[m].part
           next == [member[m].next EXCEPT ![p] = @ + 1]
           x == [member[m] EXCEPT !.at = "handle", !.offset = member[m].next[p], !.next = next]
<1>1. /\ member[m] \in MemberState /\ p \in Partition
      /\ member[m].next \in [Partition -> Nat]
  BY DEF MemberState
<1>2. next \in [Partition -> Nat] /\ member[m].next[p] \in Nat
  BY <1>1
<1>3. member' = [member EXCEPT ![m] = x]
  BY <1>1 DEF FetchMessage, MemberState
<1> HIDE DEF next
<1>4. x \in MemberState
  BY <1>1, <1>2, Zenon DEF MemberState, Holding
<1>5. /\ x.live = member[m].live /\ x.generation = member[m].generation
      /\ x.mine = member[m].mine /\ x.next = next
      /\ x.at = "handle" /\ x.part = p /\ x.offset = member[m].next[p]
  BY <1>1 DEF MemberState
<1> HIDE DEF x
<1> QED
  BY <1>2, <1>3, <1>4, <1>5 DEF next

\* The token comes back.
LEMMA ClearFields ==
  ASSUME member \in [Member -> MemberState], NEW m \in Member, ClearAttempts(m)
  PROVE  /\ member' \in [Member -> MemberState]
         /\ \A n \in Member \ {m} : member'[n] = member[n]
         /\ member'[m].live = member[m].live
         /\ member'[m].generation = member[m].generation
         /\ member'[m].mine = member[m].mine /\ member'[m].next = member[m].next
         /\ member'[m].at = "none"
<1> DEFINE x == [member[m] EXCEPT !.at = "none", !.part = Nobody, !.offset = NoOffset]
<1>1. member[m] \in MemberState
  OBVIOUS
<1>2. x \in MemberState
  BY <1>1, Zenon DEF MemberState, NoOffset
<1>3. member' = [member EXCEPT ![m] = x]
  BY Zenon DEF ClearAttempts
<1>4. /\ x.live = member[m].live /\ x.generation = member[m].generation
      /\ x.mine = member[m].mine /\ x.next = member[m].next /\ x.at = "none"
  BY <1>1 DEF MemberState
<1> HIDE DEF x
<1> QED
  BY <1>2, <1>3, <1>4

\* The ways in which a member's step changes its state.
Moves(m) ==
  member[m].at \in Holding \ {"clear"} /\ \E at \in Holding \ {"clear"} : Move(m, at)
Fails(m) == \E b \in BOOLEAN : WorkerFails(m, b)

MemberStep(m) == Progresses(m) \/ Stop(m) \/ Crash(m) \/ Restart(m) \/ CallFails(m)

\* What each step of a member is, and what it leaves alone.
LEMMA StepShape ==
  ASSUME NEW m \in Member, MemberStep(m)
  PROVE  /\ UNCHANGED <<config, end, group>>
         /\ \/ Join(m)
            \/ GenerationEnds(m) \/ Stop(m)
            \/ Leave(m) \/ Crash(m) \/ Restart(m)
            \/ \E p \in Partition : TakeToken(m, p)
            \/ FetchMessage(m)
            \/ ClearAttempts(m)
            \/ Moves(m)
            \/ CommitOffsets(m)
            \/ Fails(m)
<1> USE DEF Holding, Moves, Fails, external
<1>1. CASE Join(m) \/ GenerationEnds(m) \/ Leave(m) \/ \E p \in Partition : TakeToken(m, p)
  BY <1>1, Zenon DEF Join, GenerationEnds, Leave, TakeToken
<1>2. CASE Stop(m) \/ Crash(m) \/ Restart(m)
  BY <1>2 DEF Stop, Crash, Restart
<1>3. CASE FetchMessage(m) \/ ClearAttempts(m)
  BY <1>3, Zenon DEF FetchMessage, ClearAttempts
<1>4. CASE FetchCancelled(m) \/ CallFails(m)
  BY <1>4, Zenon DEF FetchCancelled, CallFails
<1>5. CASE HandleReturns(m) \/ HandleFails(m) \/ HandleCancelled(m)
  BY <1>5 DEF HandleReturns, HandleFails, HandleCancelled
<1>6. CASE AfterFailure(m) \/ Backoff(m)
  BY <1>6, Zenon DEF AfterFailure, Backoff
<1>7. CASE HandlePoison(m) \/ AuditPoison(m)
  BY <1>7, Zenon DEF HandlePoison, AuditPoison
<1>8. CASE CommitOffsets(m) \/ CommitFails(m)
  <2>1. (member[m].at = "commit") \in BOOLEAN
    OBVIOUS
  <2> QED
    BY <1>8, <2>1, Zenon DEF CommitOffsets, CommitFails
<1> QED
  BY <1>1, <1>2, <1>3, <1>4, <1>5, <1>6, <1>7, <1>8, Zenon DEF MemberStep, Progresses

\* The members stay what they are, and a step of one leaves the others alone.
LEMMA StepMembers ==
  ASSUME KafkaTypeOK, \A m \in Member : WorkerOK(m), NEW m \in Member, MemberStep(m)
  PROVE  /\ member' \in [Member -> MemberState]
         /\ \A n \in Member \ {m} : member'[n] = member[n]
<1>0. member \in [Member -> MemberState]
  BY DEF KafkaTypeOK
<1>1. CASE Join(m)
  BY <1>1, JoinFields, Zenon
<1>2. CASE GenerationEnds(m) \/ Stop(m)
  BY <1>0, <1>2, CancelFields, Zenon
<1>3. CASE Leave(m) \/ Crash(m) \/ Restart(m)
  BY <1>0, <1>3, ResetFields, Zenon
<1>4. CASE \E p \in Partition : TakeToken(m, p)
  BY <1>0, <1>4, TakeTokenFields
<1>5. CASE FetchMessage(m)
  <2>1. member[m].part \in Partition
    BY <1>0, <1>5 DEF FetchMessage, WorkerOK, MemberState
  <2> QED
    BY <1>0, <1>5, <2>1, FetchFields, Zenon
<1>6. CASE ClearAttempts(m)
  BY <1>0, <1>6, ClearFields
<1>7. CASE Moves(m) \/ CommitOffsets(m)
  BY <1>0, <1>7, MoveFields, Zenon DEF Moves, CommitOffsets, Holding
<1>8. CASE Fails(m)
  BY <1>0, <1>8, WorkerFailsFields, Zenon DEF Fails
<1> QED
  BY <1>1, <1>2, <1>3, <1>4, <1>5, <1>6, <1>7, <1>8, StepShape

-----------------------------------------------------------------------------
(* Types, and the bookkeeping of a worker.                                 *)

\* The initial state is well typed.
LEMMA InitType == Init => KafkaTypeOK
<1> SUFFICES ASSUME Init PROVE KafkaTypeOK
  OBVIOUS
<1>1. config.attempts \in Int
  <2>1. PICK raw \in Configs : config = [NormalizeConfig(raw) EXCEPT !.wait = HandlerWait(@)]
    BY DEF Init
  <2>2. raw \in RawConfig
    BY <2>1, KafkaAssumption
  <2> QED
    BY <2>1, <2>2 DEF NormalizeConfig, RawConfig, HandlerWait, Default
<1>2. group \in [generation : Nat \ {0}, owner : [Partition -> Member]]
  BY KafkaAssumption DEF Init
<1>3. member \in [Member -> MemberState]
  BY DEF Init, Idle, MemberState, NoOffset
<1>4. \A p \in Partition : committed[p] <= end[p] /\ end[p] <= Published[p]
  BY KafkaAssumption DEF Init, NoOffset
<1>5. /\ end \in [Partition -> Nat] /\ committed \in [Partition -> Nat \cup {NoOffset}]
      /\ failures \in [Record -> Nat] /\ errors \in [Record -> Nat]
      /\ engine \in [Record -> {"none", config.wait}]
      /\ acked = {} /\ published = {} /\ fetched = {}
  BY DEF Init
<1> QED
  BY <1>1, <1>2, <1>3, <1>4, <1>5 DEF KafkaTypeOK

\* No offset is committed beyond the end of its log.
LEMMA StepCommitted ==
  ASSUME KafkaTypeOK, \A m \in Member : WorkerOK(m), NEW m \in Member, MemberStep(m)
  PROVE  /\ committed' \in [Partition -> Nat \cup {NoOffset}]
         /\ \A p \in Partition : committed'[p] <= end[p]
         /\ \/ committed' = committed
            \/ /\ member[m].at \in {"commit", "recommit"}
               /\ member[m].generation = group.generation
               /\ CommitOffsets(m) \/ member'[m].live = FALSE
               /\ CommitOffsets(m) \/ member'[m].at = "none"
               /\ committed' = [committed EXCEPT ![member[m].part] = member[m].offset + 1]
<1>0. /\ committed \in [Partition -> Nat \cup {NoOffset}] /\ end \in [Partition -> Nat]
      /\ \A p \in Partition : committed[p] <= end[p]
      /\ member \in [Member -> MemberState]
  BY DEF KafkaTypeOK
<1>1. CASE CommitOffsets(m) \/ CommitFails(m)
  <2>1. /\ member[m].part \in Partition /\ member[m].offset \in Nat
        /\ member[m].offset < end[member[m].part]
    BY <1>1, CurrentIsRecord DEF CommitOffsets, CommitFails, Holding
  <2>2. CommitFails(m) => member'[m].live = FALSE /\ member'[m].at = "none"
    <3>1. (member[m].at = "commit") \in BOOLEAN
      OBVIOUS
    <3> QED
      BY <1>0, <3>1, WorkerFailsFields, Zenon DEF CommitFails
  <2>3. \/ committed' = committed
        \/ /\ member[m].generation = group.generation
           /\ member[m].at \in {"commit", "recommit"}
           /\ committed' = [committed EXCEPT ![member[m].part] = member[m].offset + 1]
    BY <1>1 DEF CommitOffsets, CommitFails
  <2>4. /\ [committed EXCEPT ![member[m].part] = member[m].offset + 1]
             \in [Partition -> Nat \cup {NoOffset}]
        /\ \A p \in Partition :
             [committed EXCEPT ![member[m].part] = member[m].offset + 1][p] <= end[p]
    BY <1>0, <2>1 DEF NoOffset
  <2> QED
    BY <1>0, <1>1, <2>2, <2>3, <2>4
<1>2. CASE ~(CommitOffsets(m) \/ CommitFails(m))
  <2>1. UNCHANGED committed
    BY <1>2, Zenon DEF MemberStep, Progresses, Stop, Crash, Restart, CallFails, Join, GenerationEnds,
                Leave, TakeToken, FetchMessage, FetchCancelled, HandleReturns, HandleFails,
                HandleCancelled, AfterFailure, Backoff, HandlePoison, AuditPoison,
                ClearAttempts, durable
  <2> QED
    BY <1>0, <2>1
<1> QED
  BY <1>1, <1>2, Zenon

\* What is durable, and what was observed, only grows.
LEMMA StepDurable ==
  ASSUME KafkaTypeOK, \A m \in Member : WorkerOK(m), NEW m \in Member, MemberStep(m)
  PROVE  /\ failures' \in [Record -> Nat] /\ errors' \in [Record -> Nat]
         /\ engine' \in [Record -> {"none", config.wait}]
         /\ acked' \subseteq Record /\ published' \subseteq Record /\ fetched' \subseteq Record
         /\ acked \subseteq acked' /\ published \subseteq published' /\ fetched \subseteq fetched'
         /\ \A r \in Record : errors[r] <= errors'[r]
         /\ \A r \in Record : ValidHandleResult(engine[r]) => ValidHandleResult(engine'[r])
<1>0. /\ failures \in [Record -> Nat] /\ errors \in [Record -> Nat]
      /\ engine \in [Record -> {"none", config.wait}]
      /\ acked \subseteq Record /\ published \subseteq Record /\ fetched \subseteq Record
  BY DEF KafkaTypeOK
<1>1. member[m].at \in Holding => Current(m) \in Record
  BY CurrentIsRecord
<1>2. CASE Join(m) \/ GenerationEnds(m) \/ Leave(m) \/ Stop(m) \/ Crash(m) \/ Restart(m)
           \/ FetchCancelled(m) \/ HandleCancelled(m) \/ Backoff(m) \/ CallFails(m)
           \/ CommitOffsets(m) \/ CommitFails(m) \/ \E p \in Partition : TakeToken(m, p)
  <2>1. UNCHANGED <<failures, engine, acked, published, fetched, errors>>
    BY <1>2, Zenon DEF Join, GenerationEnds, Leave, Stop, Crash, Restart, FetchCancelled,
                HandleCancelled, Backoff, CallFails, CommitOffsets, CommitFails, TakeToken,
                durable, observed
  <2> QED
    BY <1>0, <2>1
<1>3. CASE FetchMessage(m)
  <2>1. /\ member[m].part \in Partition
        /\ <<member[m].part, member[m].next[member[m].part]>> \in Record
    <3>1. member[m].part \in Partition /\ member[m].next \in [Partition -> Nat]
      BY <1>3, Zenon DEF FetchMessage, WorkerOK, MemberState, KafkaTypeOK
    <3>2. /\ member[m].next[member[m].part] \in Nat
          /\ member[m].next[member[m].part] < Published[member[m].part]
      BY <1>3, <3>1, KafkaAssumption DEF FetchMessage, KafkaTypeOK
    <3> QED
      BY <3>1, <3>2, RecordFields
  <2>2. /\ UNCHANGED <<failures, engine, acked, published, errors>>
        /\ fetched' = fetched \cup {<<member[m].part, member[m].next[member[m].part]>>}
    BY <1>3 DEF FetchMessage, durable
  <2> QED
    BY <1>0, <2>1, <2>2
<1>4. CASE HandleReturns(m)
  <2>1. Current(m) \in Record /\ UNCHANGED <<failures, acked, published, fetched>>
    BY <1>1, <1>4 DEF HandleReturns, Holding
  <2>2. engine' = [engine EXCEPT ![Current(m)] = IF @ = "completed" THEN @ ELSE config.wait]
    BY <1>4 DEF HandleReturns
  <2>3. /\ errors' \in [Record -> Nat]
        /\ \A r \in Record : errors[r] <= errors'[r]
    <3>1. errors' = [errors EXCEPT ![Current(m)] = @]
          \/ errors' = [errors EXCEPT ![Current(m)] = @ + 1]
      BY <1>4, Zenon DEF HandleReturns
    <3> QED
      BY <1>0, <2>1, <3>1
  <2>4. engine' \in [Record -> {"none", config.wait}]
    BY <1>0, <2>1, <2>2
  <2>5. \A r \in Record : engine[r] # "none" => engine'[r] = engine[r]
    BY <1>0, <2>1, <2>2
  <2>6. ~ValidHandleResult("none")
    BY DEF ValidHandleResult
  <2> QED
    BY <1>0, <2>1, <2>3, <2>4, <2>5, <2>6
<1>5. CASE HandleFails(m)
  <2>1. Current(m) \in Record /\ UNCHANGED <<failures, engine, acked, published, fetched>>
    BY <1>1, <1>5 DEF HandleFails, Holding, durable
  <2>2. errors' = [errors EXCEPT ![Current(m)] = @ + 1]
    BY <1>5 DEF HandleFails
  <2> QED
    BY <1>0, <2>1, <2>2
<1>6. CASE AfterFailure(m) \/ ClearAttempts(m)
  <2>1. Current(m) \in Record /\ UNCHANGED <<engine, acked, published, fetched, errors>>
    BY <1>1, <1>6, Zenon DEF AfterFailure, ClearAttempts, Holding, observed
  <2>2. \/ failures' = failures \/ failures' = [failures EXCEPT ![Current(m)] = @ + 1]
        \/ failures' = [failures EXCEPT ![Current(m)] = 0]
    BY <1>6, Zenon DEF AfterFailure, ClearAttempts
  <2> QED
    BY <1>0, <2>1, <2>2
<1>7. CASE HandlePoison(m) \/ AuditPoison(m)
  <2>1. Current(m) \in Record /\ UNCHANGED <<failures, engine, fetched, errors>>
    BY <1>1, <1>7, Zenon DEF HandlePoison, AuditPoison, Holding, observed
  <2>2. /\ acked' \in {acked, acked \cup {Current(m)}}
        /\ published' \in {published, published \cup {Current(m)}}
    BY <1>7, Zenon DEF HandlePoison, AuditPoison
  <2> QED
    BY <1>0, <2>1, <2>2
<1> QED
  BY <1>2, <1>3, <1>4, <1>5, <1>6, <1>7, Zenon DEF MemberStep, Progresses

\* Every step is one of the broker, of the operator or of a member.
LEMMA StepKinds ==
  ASSUME [Next]_vars
  PROVE  \/ \E p \in Partition : Publish(p)
         \/ Rebalance
         \/ \E r \in Record : OperatorAcknowledges(r)
         \/ \E m \in Member : MemberStep(m)
         \/ UNCHANGED vars
  BY DEF Next, NeededRebalance, SpontaneousRebalance, MemberStep

\* Every action keeps the types.
LEMMA NextType ==
  ASSUME KafkaTypeOK, \A m \in Member : WorkerOK(m), [Next]_vars
  PROVE  KafkaTypeOK'
<1>1. ASSUME NEW p \in Partition, Publish(p)
      PROVE  KafkaTypeOK'
  <2>1. /\ end' = [end EXCEPT ![p] = @ + 1] /\ end[p] < Published[p]
        /\ UNCHANGED <<config, group, committed, failures, engine, acked, published,
                       fetched, errors, member>>
    BY <1>1 DEF Publish, durable, observed
  <2>2. /\ end' \in [Partition -> Nat]
        /\ \A q \in Partition : committed[q] <= end'[q] /\ end'[q] <= Published[q]
    <3>1. /\ end \in [Partition -> Nat] /\ committed \in [Partition -> Int]
          /\ \A q \in Partition : committed[q] <= end[q] /\ end[q] <= Published[q]
          /\ Published \in [Partition -> Nat]
      BY KafkaAssumption DEF KafkaTypeOK, NoOffset
    <3> QED
      BY <2>1, <3>1
  <2> QED
    BY <2>1, <2>2 DEF KafkaTypeOK
<1>2. CASE Rebalance
  <2>1. group' \in [generation : Nat \ {0}, owner : [Partition -> Member]]
    BY <1>2 DEF Rebalance, KafkaTypeOK
  <2>2. UNCHANGED <<config, end, committed, failures, engine, acked, published,
                    fetched, errors, member>>
    BY <1>2 DEF Rebalance, durable, observed
  <2> QED
    BY <2>1, <2>2 DEF KafkaTypeOK
<1>3. ASSUME NEW r \in Record, OperatorAcknowledges(r)
      PROVE  KafkaTypeOK'
  <2>1. /\ acked' = acked \cup {r}
        /\ UNCHANGED <<config, end, group, committed, failures, engine, published,
                       fetched, errors, member>>
    BY <1>3 DEF OperatorAcknowledges, external, observed
  <2> QED
    BY <2>1 DEF KafkaTypeOK
<1>4. ASSUME NEW m \in Member, MemberStep(m)
      PROVE  KafkaTypeOK'
  <2>1. UNCHANGED <<config, end, group>>
    BY <1>4, StepShape
  <2>2. member' \in [Member -> MemberState]
    BY <1>4, StepMembers
  <2>3. /\ committed' \in [Partition -> Nat \cup {NoOffset}]
        /\ \A p \in Partition : committed'[p] <= end[p]
    BY <1>4, StepCommitted, Zenon
  <2>4. /\ failures' \in [Record -> Nat] /\ errors' \in [Record -> Nat]
        /\ engine' \in [Record -> {"none", config.wait}]
        /\ acked' \subseteq Record /\ published' \subseteq Record /\ fetched' \subseteq Record
    BY <1>4, StepDurable
  <2> QED
    BY <2>1, <2>2, <2>3, <2>4 DEF KafkaTypeOK
<1>5. CASE UNCHANGED vars
  BY <1>5 DEF KafkaTypeOK, vars, external, durable, observed
<1> QED
  BY <1>1, <1>2, <1>3, <1>4, <1>5, StepKinds

\* The bookkeeping of every worker is kept.
LEMMA NextWorker ==
  ASSUME KafkaTypeOK, \A m \in Member : WorkerOK(m), [Next]_vars
  PROVE  \A m \in Member : WorkerOK(m)'
<1>0. /\ member \in [Member -> MemberState] /\ end \in [Partition -> Nat]
      /\ group.generation \in Nat \ {0}
      /\ \A m \in Member : /\ member[m].generation \in Nat /\ member[m].mine \subseteq Partition
                           /\ member[m].next \in [Partition -> Nat]
                           /\ member[m].live \in BOOLEAN
  BY DEF KafkaTypeOK, MemberState
<1>1. ASSUME NEW p \in Partition, Publish(p), NEW m \in Member
      PROVE  WorkerOK(m)'
  <2>1. /\ end' = [end EXCEPT ![p] = @ + 1] /\ UNCHANGED <<group, member>>
    BY <1>1 DEF Publish
  <2>2. \A q \in Partition : end[q] \in Nat /\ end[q] <= end'[q] /\ end'[q] \in Nat
    BY <1>0, <2>1
  <2>3. \A q \in member[m].mine : member[m].next[q] <= end'[q]
    BY <1>0, <2>2 DEF WorkerOK
  <2> QED
    BY <2>1, <2>3 DEF WorkerOK
<1>2. ASSUME Rebalance, NEW m \in Member
      PROVE  WorkerOK(m)'
  <2>1. group'.generation = group.generation + 1 /\ UNCHANGED <<end, member>>
    BY <1>2 DEF Rebalance
  <2> QED
    BY <1>0, <2>1 DEF WorkerOK
<1>3. ASSUME NEW r \in Record, OperatorAcknowledges(r), NEW m \in Member
      PROVE  WorkerOK(m)'
  BY <1>3 DEF OperatorAcknowledges, external, WorkerOK
<1>4. ASSUME NEW n \in Member, MemberStep(n), NEW m \in Member, m # n
      PROVE  WorkerOK(m)'
  <2>1. member'[m] = member[m] /\ UNCHANGED <<end, group>>
    BY <1>4, StepMembers, StepShape
  <2> QED
    BY <2>1, Zenon DEF WorkerOK
<1>5. ASSUME NEW m \in Member, MemberStep(m)
      PROVE  WorkerOK(m)'
  <2>0. UNCHANGED <<end, group>> /\ WorkerOK(m)
    BY <1>5, StepShape
  <2>1. CASE Join(m)
    <3>1. member[m].at = "none"
      BY <2>0, <2>1, Zenon DEF Join, WorkerOK
    <3>2. /\ member'[m].live = TRUE /\ member'[m].generation = group.generation
          /\ \A p \in member'[m].mine : /\ group.owner[p] = m
                                        /\ member'[m].next[p] <= end[p]
          /\ member'[m].at = "none"
      BY <2>1, <3>1, JoinFields
    <3> QED
      BY <1>0, <2>0, <3>2 DEF WorkerOK, Holding
  <2>2. CASE GenerationEnds(m) \/ Stop(m)
    BY <1>0, <2>0, <2>2, CancelFields, Zenon DEF WorkerOK
  <2>3. CASE Leave(m) \/ Crash(m) \/ Restart(m)
    <3>1. /\ member'[m].live = FALSE /\ member'[m].generation = 0
          /\ member'[m].mine = {} /\ member'[m].at = "none"
      BY <1>0, <2>3, ResetFields, Zenon
    <3> QED
      BY <1>0, <2>0, <3>1 DEF WorkerOK, Holding
  <2>4. ASSUME NEW p \in Partition, TakeToken(m, p)
        PROVE  WorkerOK(m)'
    <3>1. p \in member[m].mine
      BY <2>4 DEF TakeToken
    <3> QED
      BY <1>0, <2>0, <2>4, <3>1, TakeTokenFields DEF WorkerOK, Holding
  <2>5. CASE FetchMessage(m)
    <3>1. /\ member[m].part \in member[m].mine /\ member[m].part \in Partition
          /\ member[m].next[member[m].part] < end[member[m].part]
      BY <1>0, <2>0, <2>5 DEF FetchMessage, WorkerOK
    <3>2. /\ member'[m].live = member[m].live
          /\ member'[m].generation = member[m].generation
          /\ member'[m].mine = member[m].mine
          /\ member'[m].next = [member[m].next EXCEPT ![member[m].part] = @ + 1]
          /\ member'[m].at = "handle" /\ member'[m].part = member[m].part
          /\ member'[m].offset = member[m].next[member[m].part]
          /\ member'[m].offset \in Nat
      BY <1>0, <2>5, <3>1, FetchFields, Zenon
    <3>3. \A p \in member[m].mine : member'[m].next[p] <= end[p]
      BY <1>0, <2>0, <3>1, <3>2 DEF WorkerOK
    <3>4. member'[m].next[member'[m].part] = member'[m].offset + 1
      BY <1>0, <3>1, <3>2, Zenon
    <3> QED
      BY <2>0, <3>1, <3>2, <3>3, <3>4, Zenon DEF WorkerOK
  <2>6. CASE ClearAttempts(m)
    BY <1>0, <2>0, <2>6, ClearFields, Zenon DEF WorkerOK, Holding
  <2>7. CASE Moves(m) \/ CommitOffsets(m)
    <3>1. member[m].at \in Holding /\ \E at \in Holding : Move(m, at)
      BY <2>7, Zenon DEF Moves, CommitOffsets, Holding
    <3> QED
      BY <1>0, <2>0, <3>1, MoveFields, SMTT(30) DEF WorkerOK, Holding
  <2>8. CASE Fails(m)
    <3>1. /\ member'[m].at = "none" /\ member'[m].live = FALSE
          /\ member'[m].generation = member[m].generation
          /\ member'[m].mine = member[m].mine /\ member'[m].next = member[m].next
      BY <1>0, <2>8, WorkerFailsFields, Zenon DEF Fails
    <3> QED
      BY <2>0, <3>1, Zenon DEF WorkerOK, Holding
  <2> QED
    BY <1>5, <2>1, <2>2, <2>3, <2>4, <2>5, <2>6, <2>7, <2>8, StepShape
<1>6. ASSUME UNCHANGED vars, NEW m \in Member
      PROVE  WorkerOK(m)'
  BY <1>6 DEF vars, external, WorkerOK
<1> QED
  BY <1>1, <1>2, <1>3, <1>4, <1>5, <1>6, StepKinds

-----------------------------------------------------------------------------
(* Positions.                                                              *)

\* Where a member of the current generation stands is kept.
LEMMA NextStanding ==
  ASSUME KafkaTypeOK, \A m \in Member : WorkerOK(m),
         \A m \in Member, p \in Partition : Standing(m, p), [Next]_vars
  PROVE  \A m \in Member, p \in Partition : Standing(m, p)'
<1>0. /\ member \in [Member -> MemberState] /\ group.generation \in Nat \ {0}
      /\ committed \in [Partition -> Nat \cup {NoOffset}]
      /\ \A m \in Member : /\ member[m].generation \in Nat /\ member[m].mine \subseteq Partition
                           /\ member[m].next \in [Partition -> Nat]
                           /\ member[m].live \in BOOLEAN
  BY DEF KafkaTypeOK, MemberState
<1>1. ASSUME NEW q \in Partition, Publish(q), NEW m \in Member, NEW p \in Partition
      PROVE  Standing(m, p)'
  <2>1. UNCHANGED <<config, group, committed, member>>
    BY <1>1 DEF Publish, durable
  <2> QED
    BY <2>1 DEF Standing, Anchored, Floor, Works
<1>2. ASSUME Rebalance, NEW m \in Member, NEW p \in Partition
      PROVE  Standing(m, p)'
  <2>1. member'[m].generation # group'.generation
    BY <1>0, <1>2 DEF Rebalance, WorkerOK
  <2> QED
    BY <2>1 DEF Standing
<1>3. ASSUME NEW r \in Record, OperatorAcknowledges(r), NEW m \in Member, NEW p \in Partition
      PROVE  Standing(m, p)'
  <2>1. UNCHANGED <<config, group, committed, member>>
    BY <1>3 DEF OperatorAcknowledges, external
  <2> QED
    BY <2>1, Zenon DEF Standing, Anchored, Floor, Works
<1>4. ASSUME NEW n \in Member, MemberStep(n), NEW m \in Member, m # n, NEW p \in Partition
      PROVE  Standing(m, p)'
  <2>1. member'[m] = member[m] /\ UNCHANGED <<config, group>>
    BY <1>4, StepMembers, StepShape
  <2>2. CASE committed' = committed
    BY <2>1, <2>2 DEF Standing, Anchored, Floor, Works
  <2>3. CASE /\ member[n].at \in {"commit", "recommit"}
             /\ member[n].generation = group.generation
             /\ committed' = [committed EXCEPT ![member[n].part] = member[n].offset + 1]
    <3>1. CASE p = member[n].part
      <4>1. group.owner[p] = n
        BY <2>3, <3>1, Zenon DEF WorkerOK
      <4>2. ~(member[m].generation = group.generation /\ p \in member[m].mine)
        BY <1>4, <4>1, Zenon DEF WorkerOK
      <4> QED
        BY <2>1, <4>2 DEF Standing
    <3>2. CASE p # member[n].part
      <4>1. committed'[p] = committed[p]
        BY <1>0, <2>3, <3>2
      <4> QED
        BY <2>1, <4>1 DEF Standing, Anchored, Floor, Works
    <3> QED
      BY <3>1, <3>2
  <2> QED
    BY <1>4, <2>2, <2>3, StepCommitted, Zenon
<1>5. ASSUME NEW m \in Member, MemberStep(m), NEW p \in Partition
      PROVE  Standing(m, p)'
  <2>0. UNCHANGED <<config, group>> /\ WorkerOK(m) /\ Standing(m, p)
    BY <1>5, StepShape
  <2>1. CASE committed' # committed /\ ~CommitOffsets(m)
    <3>1. member'[m].live = FALSE /\ member'[m].at = "none"
      BY <1>5, <2>1, StepCommitted, Zenon
    <3> QED
      BY <3>1, Zenon DEF Standing, Works, Holding
  <2>2. CASE CommitOffsets(m)
    <3>1. /\ member[m].part \in Partition /\ member[m].offset \in Nat
          /\ member[m].at \in {"commit", "recommit"}
      BY <2>2, CurrentIsRecord DEF CommitOffsets, Holding
    <3>2. /\ committed' = [committed EXCEPT ![member[m].part] = member[m].offset + 1]
          /\ Move(m, "clear")
      BY <2>2 DEF CommitOffsets
    <3>3. /\ member'[m].live = member[m].live
          /\ member'[m].generation = member[m].generation
          /\ member'[m].mine = member[m].mine /\ member'[m].next = member[m].next
          /\ member'[m].at = "clear" /\ member'[m].part = member[m].part
          /\ member'[m].offset = member[m].offset
      BY <1>0, <3>2, MoveFields, Zenon DEF Holding
    <3>4. CASE p = member[m].part
      <4>1. committed'[p] = member[m].offset + 1
        BY <1>0, <3>1, <3>2, <3>4
      <4>2. Floor(p)' - 1 = member[m].offset
        BY <3>1, <4>1 DEF Floor, NoOffset
      <4> QED
        BY <3>3, <3>4, <4>2, Zenon DEF Standing, Works, Holding
    <3>5. CASE p # member[m].part
      <4>1. committed'[p] = committed[p]
        BY <1>0, <3>2, <3>5, Zenon
      <4> QED
        BY <2>0, <3>3, <3>5, <4>1, Zenon DEF Standing, Works, Anchored, Floor
    <3> QED
      BY <3>4, <3>5
  <2>3. ASSUME committed' = committed, ~CommitOffsets(m)
        PROVE  Standing(m, p)'
    <3>0. (Anchored(p)' <=> Anchored(p)) /\ Floor(p)' = Floor(p)
      BY <2>0, <2>3 DEF Anchored, Floor
    <3>1. CASE Join(m)
      <4>1. member[m].at = "none"
        BY <2>0, <3>1, Zenon DEF Join, WorkerOK
      <4>2. /\ \A q \in member'[m].mine : member'[m].next[q] = StartOf(q)
            /\ member'[m].at = "none"
        BY <3>1, <4>1, JoinFields, Zenon
      <4>3. Anchored(p) => StartOf(p) = Floor(p)
        BY DEF Anchored, StartOf, Floor
      <4> QED
        BY <3>0, <4>2, <4>3, Zenon DEF Standing, Works, Holding
    <3>2. CASE GenerationEnds(m) \/ Stop(m)
      BY <1>0, <2>0, <3>0, <3>2, CancelFields, Zenon DEF Standing, Works
    <3>3. CASE Leave(m) \/ Crash(m) \/ Restart(m)
      <4>1. member'[m].mine = {}
        BY <1>0, <3>3, ResetFields, Zenon
      <4> QED
        BY <4>1, Zenon DEF Standing
    <3>4. ASSUME NEW q \in Partition, TakeToken(m, q)
          PROVE  Standing(m, p)'
      <4>1. member[m].at = "none"
        BY <3>4 DEF TakeToken
      <4> QED
        BY <1>0, <2>0, <3>0, <3>4, <4>1, TakeTokenFields, Zenon DEF Standing, Works, Holding
    <3>5. CASE FetchMessage(m)
      <4>1. /\ member[m].part \in Partition /\ member[m].at = "fetch" /\ member[m].live
        BY <1>0, <2>0, <3>5 DEF FetchMessage, WorkerOK
      <4>2. /\ member'[m].live = member[m].live
            /\ member'[m].generation = member[m].generation
            /\ member'[m].mine = member[m].mine
            /\ member'[m].next = [member[m].next EXCEPT ![member[m].part] = @ + 1]
            /\ member'[m].at = "handle" /\ member'[m].part = member[m].part
            /\ member'[m].offset = member[m].next[member[m].part]
        BY <1>0, <3>5, <4>1, FetchFields, Zenon
      <4>3. p # member[m].part => member'[m].next[p] = member[m].next[p]
        BY <1>0, <4>2, Zenon
      <4> QED
        BY <2>0, <3>0, <4>1, <4>2, <4>3, SMTT(30) DEF Standing, Works, Holding
    <3>6. CASE ClearAttempts(m)
      <4>1. /\ member[m].at = "clear" /\ member[m].offset \in Nat
            /\ member[m].next[member[m].part] = member[m].offset + 1
        BY <2>0, <3>6 DEF ClearAttempts, WorkerOK, Holding
      <4>2. Floor(p) \in Int
        BY <1>0 DEF Floor, NoOffset
      <4> QED
        BY <1>0, <2>0, <3>0, <3>6, <4>1, <4>2, ClearFields, SMTT(30) DEF Standing, Works, Holding
    <3>7. CASE Moves(m)
      <4>1. PICK at \in Holding \ {"clear"} : Move(m, at)
        BY <3>7 DEF Moves
      <4>2. /\ member'[m].live = member[m].live
            /\ member'[m].generation = member[m].generation
            /\ member'[m].mine = member[m].mine /\ member'[m].next = member[m].next
            /\ member'[m].at = at /\ member'[m].part = member[m].part
            /\ member'[m].offset = member[m].offset
        BY <1>0, <4>1, MoveFields, Zenon
      <4>3. member[m].at \in Holding \ {"clear"}
        BY <3>7 DEF Moves
      <4> QED
        BY <2>0, <3>0, <4>1, <4>2, <4>3, Zenon DEF Standing, Works
    <3>8. CASE Fails(m)
      <4>1. member'[m].at = "none" /\ member'[m].live = FALSE
        BY <1>0, <3>8, WorkerFailsFields, Zenon DEF Fails
      <4> QED
        BY <4>1, Zenon DEF Standing, Works, Holding
    <3> QED
      BY <1>5, <2>3, <3>1, <3>2, <3>3, <3>4, <3>5, <3>6, <3>7, <3>8, StepShape
  <2> QED
    BY <2>1, <2>2, <2>3
<1>6. ASSUME UNCHANGED vars, NEW m \in Member, NEW p \in Partition
      PROVE  Standing(m, p)'
  <2>1. UNCHANGED <<config, group, committed, member>>
    BY <1>6 DEF vars, external, durable
  <2> QED
    BY <2>1 DEF Standing, Anchored, Floor, Works
<1> QED
  BY <1>1, <1>2, <1>3, <1>4, <1>5, <1>6, StepKinds

-----------------------------------------------------------------------------
(* What a record has reached.                                              *)

\* The configuration stays, errors are not forgotten, and a settled record
\* stays settled.
LEMMA NextGrows ==
  ASSUME KafkaTypeOK, \A m \in Member : WorkerOK(m), [Next]_vars
  PROVE  /\ config' = config
         /\ published \subseteq published'
         /\ \A r \in Record : errors[r] <= errors'[r] /\ errors[r] \in Nat /\ errors'[r] \in Nat
         /\ \A r \in Record : Settled(r) => Settled(r)'
<1>0. errors \in [Record -> Nat] /\ KafkaTypeOK'
  BY NextType DEF KafkaTypeOK
<1>00. errors' \in [Record -> Nat]
  BY <1>0 DEF KafkaTypeOK
<1>1. CASE \/ \E p \in Partition : Publish(p)
           \/ Rebalance
           \/ \E r \in Record : OperatorAcknowledges(r)
           \/ UNCHANGED vars
  <2>1. /\ UNCHANGED <<config, engine, published, errors>>
        /\ acked \subseteq acked'
    BY <1>1, Zenon DEF Publish, Rebalance, OperatorAcknowledges, vars, durable, observed
  <2> QED
    BY <1>0, <2>1 DEF Settled, ValidHandleResult
<1>2. ASSUME NEW m \in Member, MemberStep(m)
      PROVE  /\ config' = config
             /\ acked \subseteq acked' /\ published \subseteq published'
             /\ \A r \in Record : errors[r] <= errors'[r]
             /\ \A r \in Record : ValidHandleResult(engine[r]) => ValidHandleResult(engine'[r])
  BY <1>2, StepDurable, StepShape, Zenon
<1>3. CASE \E m \in Member : MemberStep(m)
  <2>1. /\ config' = config
        /\ acked \subseteq acked' /\ published \subseteq published'
        /\ \A r \in Record : errors[r] <= errors'[r]
        /\ \A r \in Record : ValidHandleResult(engine[r]) => ValidHandleResult(engine'[r])
    BY <1>2, <1>3
  <2> QED
    BY <1>0, <1>00, <2>1 DEF Settled, ValidHandleResult
<1> QED
  BY <1>1, <1>3, StepKinds

\* A worker that waits to count a failure is one of the uncounted.
LEMMA UncountedFinite ==
  ASSUME NEW r \in Record
  PROVE  /\ IsFiniteSet(Uncounted(r)) /\ Cardinality(Uncounted(r)) \in Nat
         /\ \A m \in Uncounted(r) :
              Cardinality(Uncounted(r) \ {m}) = Cardinality(Uncounted(r)) - 1
         /\ Uncounted(r) # {} => Cardinality(Uncounted(r)) >= 1
<1>1. IsFiniteSet(Uncounted(r))
  BY KafkaAssumption, FS_Subset DEF Uncounted
<1>2. Cardinality(Uncounted(r)) \in Nat
  BY <1>1, FS_CardinalityType
<1>3. \A m \in Uncounted(r) :
         Cardinality(Uncounted(r) \ {m}) = Cardinality(Uncounted(r)) - 1
  BY <1>1, FS_RemoveElement
<1>4. Uncounted(r) # {} => Cardinality(Uncounted(r)) # 0
  BY <1>1, FS_EmptySet
<1> QED
  BY <1>1, <1>2, <1>3, <1>4

\* A record is poison only when its errors are as many as its attempts.
LEMMA NextKnows ==
  ASSUME KafkaTypeOK, \A m \in Member : WorkerOK(m), \A m \in Member : Knows(m),
         \A r \in Record : Counted(r), [Next]_vars
  PROVE  \A m \in Member : Knows(m)'
<1>0. /\ member \in [Member -> MemberState] /\ config.attempts \in Int
      /\ failures \in [Record -> Nat] /\ errors \in [Record -> Nat]
  BY DEF KafkaTypeOK
<1> DEFINE Deciding == {"commit", "recommit", "audit", "poison"}
<1>1. ASSUME NEW m \in Member, member'[m].at \notin Deciding
      PROVE  Knows(m)'
  BY <1>1 DEF Knows
<1>2. ASSUME NEW m \in Member, member'[m].at = member[m].at,
             member'[m].part = member[m].part, member'[m].offset = member[m].offset
      PROVE  Knows(m)'
  <2>1. CASE member[m].at \in Deciding
    <3>1. Current(m) \in Record /\ Current(m)' = Current(m)
      BY <1>2, <2>1, CurrentIsRecord, Zenon DEF Holding, Current
    <3> QED
      BY <1>0, <1>2, <3>1, NextGrows DEF Knows
  <2> QED
    BY <1>1, <1>2, <2>1
<1>3. ASSUME NEW m \in Member, member'[m] = member[m]
      PROVE  Knows(m)'
  BY <1>2, <1>3, Zenon
<1>4. CASE \/ \E p \in Partition : Publish(p)
           \/ Rebalance
           \/ \E r \in Record : OperatorAcknowledges(r)
           \/ UNCHANGED vars
  <2>1. UNCHANGED member
    BY <1>4 DEF Publish, Rebalance, OperatorAcknowledges, vars
  <2> QED
    BY <1>3, <2>1
<1>5. ASSUME NEW m \in Member, MemberStep(m)
      PROVE  Knows(m)'
  <2>0. \A at \in Holding :
          Move(m, at) => /\ member'[m].at = at /\ member'[m].part = member[m].part
                         /\ member'[m].offset = member[m].offset
                         /\ Current(m)' = Current(m)
    BY <1>0, MoveFields DEF Current
  <2>1. CASE Join(m)
    BY <1>2, <2>1, JoinFields, Zenon
  <2>2. CASE GenerationEnds(m) \/ Stop(m)
    BY <1>0, <1>2, <2>2, CancelFields, Zenon
  <2>3. CASE Leave(m) \/ Crash(m) \/ Restart(m)
    BY <1>0, <1>1, <2>3, ResetFields, Zenon
  <2>4. CASE \E p \in Partition : TakeToken(m, p)
    BY <1>0, <1>1, <2>4, TakeTokenFields
  <2>5. CASE FetchMessage(m)
    <3>1. member[m].part \in Partition
      BY <1>0, <2>5 DEF FetchMessage, WorkerOK, MemberState
    <3> QED
      BY <1>0, <1>1, <2>5, <3>1, FetchFields, Zenon
  <2>6. CASE ClearAttempts(m)
    BY <1>0, <1>1, <2>6, ClearFields
  <2>7. CASE Fails(m)
    BY <1>0, <1>1, <2>7, WorkerFailsFields, Zenon DEF Fails
  <2>8. CASE Move(m, "failed") \/ Move(m, "handle") \/ Move(m, "backoff") \/ Move(m, "clear")
    BY <1>1, <2>0, <2>8, Zenon DEF Holding
  <2>9. CASE HandleReturns(m)
    <3>1. CASE Move(m, "commit") /\ ValidHandleResult(engine'[Current(m)])
      <4>1. Settled(Current(m))'
        BY <1>5, <2>0, <3>1, StepShape, Zenon DEF Settled, ValidHandleResult, Holding
      <4> QED
        BY <2>0, <3>1, <4>1, Zenon DEF Knows, Holding
    <3> QED
      BY <2>8, <2>9, <3>1 DEF HandleReturns
  <2>10. CASE AfterFailure(m)
    <3>1. CASE Move(m, "poison") /\ member[m].live
      <4> DEFINE r == Current(m)
      <4>1. /\ r \in Record /\ member[m].at = "failed"
            /\ failures' = [failures EXCEPT ![r] = @ + 1] /\ errors' = errors
        BY <2>10, <3>1, CurrentIsRecord, Zenon DEF AfterFailure, Holding, observed
      <4>2. m \in Uncounted(r)
        BY <3>1, <4>1, Zenon DEF Uncounted
      <4>3. failures[r] + 1 <= errors[r]
        BY <1>0, <4>1, <4>2, UncountedFinite DEF Counted
      <4>4. failures'[r] >= config.attempts
        <5>1. Move(m, IF failures'[r] >= config.attempts THEN "poison" ELSE "backoff")
          BY <2>10, <3>1, Zenon DEF AfterFailure
        <5>2. member'[m].at = "poison"
          BY <2>0, <3>1, Zenon DEF Holding
        <5>3. ~Move(m, "backoff")
          BY <2>0, <5>2 DEF Holding
        <5> QED
          BY <5>1, <5>3
      <4>5. errors'[r] >= config.attempts
        BY <1>0, <4>1, <4>3, <4>4
      <4>6. config' = config /\ Current(m)' = r /\ member'[m].at = "poison"
        BY <1>5, <2>0, <3>1, StepShape, Zenon DEF Holding
      <4> HIDE DEF r
      <4> QED
        BY <4>5, <4>6, Zenon DEF Knows
    <3>2. CASE ~member[m].live \/ Move(m, "backoff")
      <4>1. ~member[m].live => Fails(m)
        BY <2>10, Zenon DEF AfterFailure, Fails
      <4> QED
        BY <2>7, <2>8, <3>2, <4>1
    <3> QED
      BY <2>10, <3>1, <3>2, Zenon DEF AfterFailure
  <2>11. CASE HandlePoison(m) \/ AuditPoison(m)
    <3> DEFINE r == Current(m)
    <3>1. /\ r \in Record /\ config' = config /\ errors' = errors
          /\ member[m].at \in {"poison", "audit"}
          /\ errors[r] >= config.attempts
      BY <1>5, <2>11, CurrentIsRecord, StepShape
        , Zenon DEF HandlePoison, AuditPoison, Holding, observed, Knows
    <3>2. \/ Fails(m)
          \/ Move(m, "recommit") /\ config.audit /\ r \in acked'
          \/ Move(m, "commit") /\ config.policy = "skip" /\ r \in acked'
          \/ Move(m, "commit") /\ config.policy = "dlq" /\ r \in published'
          \/ Move(m, "audit") /\ config.policy = "dlq" /\ r \in published'
      BY <2>11, Zenon DEF HandlePoison, AuditPoison, Fails, Knows
    <3>3. ASSUME NEW at \in {"recommit", "commit", "audit"}, Move(m, at)
          PROVE  member'[m].at = at /\ Current(m)' = r
      BY <2>0, <3>3, Zenon DEF Holding
    <3>4. CASE Move(m, "recommit") /\ config.audit /\ r \in acked'
      BY <3>1, <3>3, <3>4, Zenon DEF Knows, Settled
    <3>5. CASE Move(m, "commit") /\ config.policy = "skip" /\ r \in acked'
      BY <3>1, <3>3, <3>5, Zenon DEF Knows, Settled
    <3>6. CASE Move(m, "commit") /\ config.policy = "dlq" /\ r \in published'
      BY <3>1, <3>3, <3>6, Zenon DEF Knows, Settled
    <3>7. CASE Move(m, "audit") /\ config.policy = "dlq" /\ r \in published'
      BY <3>1, <3>3, <3>7, Zenon DEF Knows
    <3> QED
      BY <2>7, <3>2, <3>4, <3>5, <3>6, <3>7
  <2>12. CASE HandleFails(m) \/ HandleCancelled(m) \/ Backoff(m) \/ CommitOffsets(m)
    BY <2>7, <2>8, <2>12, Zenon DEF HandleFails, HandleCancelled, Backoff, CommitOffsets, Fails
  <2>13. CASE CommitFails(m) \/ CallFails(m) \/ FetchCancelled(m)
    <3>1. (member[m].at = "commit") \in BOOLEAN
      OBVIOUS
    <3> QED
      BY <2>7, <2>13, <3>1, Zenon DEF CommitFails, CallFails, FetchCancelled, Fails
  <2> QED
    BY <1>5, <2>1, <2>2, <2>3, <2>4, <2>5, <2>6, <2>9, <2>10, <2>11, <2>12, <2>13
    DEF MemberStep, Progresses
<1>6. ASSUME NEW n \in Member, MemberStep(n), NEW m \in Member, m # n
      PROVE  Knows(m)'
  BY <1>3, <1>6, StepMembers
<1> QED
  BY <1>4, <1>5, <1>6, StepKinds

\* How a step changes the workers with an uncounted failure: it adds one when
\* it adds an error, and takes one away when it adds a failure.
LEMMA StepUncounted ==
  ASSUME KafkaTypeOK, \A m \in Member : WorkerOK(m), NEW m \in Member, MemberStep(m),
         NEW r \in Record
  PROVE  /\ Uncounted(r)' \ {m} = Uncounted(r) \ {m}
         /\ m \in Uncounted(r)' => /\ m \notin Uncounted(r)
                                   /\ errors'[r] = errors[r] + 1
                                   /\ failures'[r] = failures[r]
         /\ \/ failures'[r] <= failures[r]
            \/ /\ failures'[r] = failures[r] + 1
               /\ m \in Uncounted(r) /\ m \notin Uncounted(r)'
<1>0. /\ member \in [Member -> MemberState] /\ failures \in [Record -> Nat]
      /\ errors \in [Record -> Nat] /\ member[m].live \in BOOLEAN
  BY DEF KafkaTypeOK, MemberState
<1>1. Uncounted(r)' \ {m} = Uncounted(r) \ {m}
  <2>1. \A n \in Member \ {m} : member'[n] = member[n]
    BY StepMembers
  <2> QED
    BY <2>1, Zenon DEF Uncounted, Current
<1>2. /\ m \in Uncounted(r)' <=> /\ member'[m].at = "failed" /\ member'[m].live
                                 /\ Current(m)' = r
      /\ m \in Uncounted(r) <=> member[m].at = "failed" /\ member[m].live /\ Current(m) = r
  BY DEF Uncounted
<1>3. \A at \in Holding :
        Move(m, at) => /\ member'[m].at = at /\ Current(m)' = Current(m)
                       /\ member'[m].live = member[m].live
  BY <1>0, MoveFields DEF Current
<1>4. CASE failures' = failures /\ member'[m].at # "failed"
  BY <1>0, <1>1, <1>2, <1>4
<1>5. CASE failures' = failures /\ member'[m].live = FALSE
  BY <1>0, <1>1, <1>2, <1>5
<1>6. CASE failures' = failures /\ Fails(m)
  BY <1>0, <1>5, <1>6, WorkerFailsFields, Zenon DEF Fails
<1>7. CASE Join(m)
  <2>1. failures' = failures /\ member[m].at = "none"
    BY <1>7, Zenon DEF Join, WorkerOK, durable
  <2>2. member'[m].at = member[m].at
    BY <1>7, JoinFields, Zenon
  <2> QED
    BY <1>4, <2>1, <2>2, Zenon
<1>8. CASE GenerationEnds(m) \/ Stop(m)
  <2>1. failures' = failures
    BY <1>8 DEF GenerationEnds, Stop, durable
  <2>2. member'[m].live = FALSE
    BY <1>0, <1>8, CancelFields, Zenon
  <2> QED
    BY <1>5, <2>1, <2>2, Zenon
<1>9. CASE Leave(m) \/ Crash(m) \/ Restart(m)
  <2>1. failures' = failures
    BY <1>9 DEF Leave, Crash, Restart, durable
  <2>2. member'[m].live = FALSE
    BY <1>0, <1>9, ResetFields, Zenon
  <2> QED
    BY <1>5, <2>1, <2>2, Zenon
<1>10. CASE \E p \in Partition : TakeToken(m, p)
  <2>1. failures' = failures /\ member'[m].at = "fetch"
    BY <1>0, <1>10, TakeTokenFields, Zenon DEF TakeToken, durable
  <2> QED
    BY <1>4, <2>1, Zenon
<1>11. CASE FetchMessage(m)
  <2>1. failures' = failures /\ member[m].part \in Partition
    BY <1>0, <1>11 DEF FetchMessage, WorkerOK, MemberState, durable
  <2>2. member'[m].at = "handle"
    BY <1>0, <1>11, <2>1, FetchFields, Zenon
  <2> QED
    BY <1>4, <2>1, <2>2, Zenon
<1>12. CASE ClearAttempts(m)
  <2>1. failures' = [failures EXCEPT ![Current(m)] = 0]
    BY <1>12 DEF ClearAttempts
  <2>2. member'[m].at = "none"
    BY <1>0, <1>12, ClearFields
  <2>3. failures'[r] <= failures[r]
    BY <1>0, <2>1
  <2> QED
    BY <1>1, <1>2, <2>2, <2>3, Zenon
<1>13. CASE HandleReturns(m) \/ HandleFails(m) \/ HandleCancelled(m)
  <2>1. /\ failures' = failures /\ member[m].at = "handle" /\ Current(m) \in Record
    BY <1>13, CurrentIsRecord, Zenon DEF HandleReturns, HandleFails, HandleCancelled, Holding, durable
  <2>2. CASE Move(m, "commit")
    BY <1>3, <1>4, <2>1, <2>2, Zenon DEF Holding
  <2>3. CASE Move(m, "failed") /\ ~member[m].live
    <3>1. member'[m].live = FALSE
      BY <1>0, <1>3, <2>3 DEF Holding
    <3> QED
      BY <1>5, <2>1, <3>1, Zenon
  <2>4. CASE Move(m, "failed") /\ member[m].live
             /\ errors' = [errors EXCEPT ![Current(m)] = @ + 1]
    <3>1. Current(m)' = Current(m) /\ m \notin Uncounted(r)
      BY <1>2, <1>3, <2>1, <2>4, Zenon DEF Holding
    <3>2. Current(m) = r => errors'[r] = errors[r] + 1
      BY <1>0, <2>4
    <3> QED
      BY <1>0, <1>1, <1>2, <2>1, <3>1, <3>2, SMTT(30)
  <2> QED
    BY <1>13, <2>2, <2>3, <2>4, Zenon DEF HandleReturns, HandleFails, HandleCancelled
<1>14. CASE AfterFailure(m)
  <2>1. CASE ~member[m].live
    BY <1>6, <1>14, <2>1, Zenon DEF AfterFailure, Fails
  <2>2. CASE member[m].live
    <3>1. /\ failures' = [failures EXCEPT ![Current(m)] = @ + 1]
          /\ member[m].at = "failed"
          /\ Move(m, "poison") \/ Move(m, "backoff")
      BY <1>14, <2>2, Zenon DEF AfterFailure
    <3>2. member'[m].at # "failed"
      BY <1>3, <3>1 DEF Holding
    <3>3. CASE r = Current(m)
      BY <1>0, <1>1, <1>2, <2>2, <3>1, <3>2, <3>3, Zenon
    <3>4. CASE r # Current(m)
      BY <1>0, <1>1, <1>2, <3>1, <3>2, <3>4
    <3> QED
      BY <3>3, <3>4, Zenon
  <2> QED
    BY <2>1, <2>2, Zenon
<1>15. CASE Backoff(m) \/ HandlePoison(m) \/ AuditPoison(m) \/ CommitOffsets(m)
  <2>1. failures' = failures
    BY <1>15, Zenon DEF Backoff, HandlePoison, AuditPoison, CommitOffsets, durable
  <2>2. \/ Fails(m) \/ Move(m, "handle") \/ Move(m, "recommit") \/ Move(m, "commit")
        \/ Move(m, "audit") \/ Move(m, "clear")
    BY <1>15, Zenon DEF Backoff, HandlePoison, AuditPoison, CommitOffsets, Fails
  <2>3. Fails(m) \/ member'[m].at # "failed"
    BY <1>3, <2>2, Zenon DEF Holding
  <2> QED
    BY <1>4, <1>6, <2>1, <2>3, Zenon
<1>16. CASE CommitFails(m) \/ CallFails(m) \/ FetchCancelled(m)
  <2>1. failures' = failures /\ (member[m].at = "commit") \in BOOLEAN
    BY <1>16, Zenon DEF CommitFails, CallFails, FetchCancelled, durable
  <2> QED
    BY <1>6, <1>16, <2>1, Zenon DEF CommitFails, CallFails, FetchCancelled, Fails
<1> QED
  BY <1>7, <1>8, <1>9, <1>10, <1>11, <1>12, <1>13, <1>14, <1>15, <1>16
 , Zenon DEF MemberStep, Progresses

\* Failures are not counted twice, whoever counts them.
LEMMA NextCounted ==
  ASSUME KafkaTypeOK, \A m \in Member : WorkerOK(m), \A m \in Member : Knows(m),
         \A r \in Record : Counted(r), [Next]_vars
  PROVE  \A r \in Record : Counted(r)'
<1>0. /\ failures \in [Record -> Nat] /\ errors \in [Record -> Nat] /\ config.attempts \in Int
      /\ acked \subseteq Record /\ published \subseteq Record
  BY DEF KafkaTypeOK
<1>1. CASE \/ \E p \in Partition : Publish(p)
           \/ Rebalance
           \/ UNCHANGED vars
  <2>1. UNCHANGED <<config, failures, errors, published, acked, member>>
    BY <1>1, Zenon DEF Publish, Rebalance, vars, durable, observed
  <2> QED
    BY <2>1 DEF Counted, Uncounted, Current
<1>2. ASSUME NEW q \in Record, OperatorAcknowledges(q), NEW r \in Record
      PROVE  Counted(r)'
  <2>1. /\ UNCHANGED <<config, failures, errors, published, member>>
        /\ acked' = acked \cup {q} /\ failures[q] >= config.attempts
    BY <1>2 DEF OperatorAcknowledges, observed
  <2>2. errors[q] >= failures[q]
    BY <1>0, UncountedFinite DEF Counted
  <2>3. errors[q] >= config.attempts
    BY <1>0, <2>1, <2>2
  <2> QED
    BY <2>1, <2>3, Zenon DEF Counted, Uncounted, Current
<1>3. ASSUME NEW m \in Member, MemberStep(m), NEW r \in Record
      PROVE  Counted(r)'
  <2>0. config' = config /\ errors[r] <= errors'[r] /\ errors'[r] \in Nat /\ failures'[r] \in Nat
    BY <1>3, NextGrows, StepDurable, Zenon
  <2>1. r \in published' \cup acked' => errors'[r] >= config.attempts
    <3>1. CASE r \in published \cup acked
      BY <1>0, <2>0, <3>1 DEF Counted
    <3>2. CASE r \notin published \cup acked /\ r \in published' \cup acked'
      <4>1. HandlePoison(m) \/ AuditPoison(m)
        BY <1>3, <3>2, Zenon DEF MemberStep, Progresses, Stop, Crash, Restart, CallFails, Join,
           GenerationEnds, Leave, TakeToken, FetchMessage, FetchCancelled, HandleReturns,
           HandleFails, HandleCancelled, AfterFailure, Backoff, CommitOffsets, CommitFails,
           ClearAttempts, durable
      <4>2. /\ member[m].at \in {"poison", "audit"} /\ r = Current(m)
        BY <3>2, <4>1, Zenon DEF HandlePoison, AuditPoison
      <4> QED
        BY <1>0, <2>0, <4>2 DEF Knows
    <3> QED
      BY <3>1, <3>2
  <2>2. failures'[r] + Cardinality(Uncounted(r)') <= errors'[r]
    <3> DEFINE U == Uncounted(r)
               V == Uncounted(r)'
    <3>1. /\ V \ {m} = U \ {m}
          /\ m \in V => m \notin U /\ errors'[r] = errors[r] + 1 /\ failures'[r] = failures[r]
          /\ \/ failures'[r] <= failures[r]
             \/ failures'[r] = failures[r] + 1 /\ m \in U /\ m \notin V
      BY <1>3, StepUncounted, Zenon
    <3>2. /\ IsFiniteSet(U) /\ Cardinality(U) \in Nat
          /\ \A n \in U : Cardinality(U \ {n}) = Cardinality(U) - 1
      BY UncountedFinite
    <3>3. failures[r] + Cardinality(U) <= errors[r] /\ failures[r] \in Nat /\ errors[r] \in Nat
      BY <1>0 DEF Counted
    <3> HIDE DEF U, V
    <3>4. CASE m \in V
      <4>1. V = U \cup {m}
        BY <3>1, <3>4
      <4>2. Cardinality(V) = Cardinality(U) + 1
        BY <3>1, <3>2, <3>4, <4>1, FS_AddElement
      <4> QED
        BY <3>1, <3>2, <3>3, <3>4, <4>2 DEF V
    <3>5. CASE m \notin V /\ m \in U
      <4>1. V = U \ {m}
        BY <3>1, <3>5, Zenon
      <4>2. Cardinality(V) = Cardinality(U) - 1
        BY <3>2, <3>5, <4>1
      <4>3. failures'[r] <= failures[r] + 1
        BY <2>0, <3>1, <3>3
      <4>4. failures'[r] + Cardinality(V) <= errors'[r]
        BY <2>0, <3>2, <3>3, <4>2, <4>3
      <4> QED
        BY <4>4 DEF V
    <3>6. CASE m \notin V /\ m \notin U
      <4>1. V = U /\ failures'[r] <= failures[r]
        BY <3>1, <3>6
      <4>2. failures'[r] + Cardinality(V) <= errors'[r]
        BY <2>0, <3>2, <3>3, <4>1
      <4> QED
        BY <4>2 DEF V
    <3> QED
      BY <3>4, <3>5, <3>6
  <2> QED
    BY <2>0, <2>1, <2>2 DEF Counted
<1> QED
  BY <1>1, <1>2, <1>3, StepKinds

\* Only the first record that is not committed is committed next, and only
\* when it is settled.
LEMMA NextSkipped ==
  ASSUME KafkaInv, [Next]_vars
  PROVE  NoRecordSkipped'
<1>0. KafkaTypeOK /\ (\A m \in Member : WorkerOK(m) /\ Knows(m)) /\ NoRecordSkipped
  BY DEF KafkaInv
<1>1. config' = config /\ \A r \in Record : Settled(r) => Settled(r)'
  BY <1>0, NextGrows
<1>2. committed \in [Partition -> Nat \cup {NoOffset}]
  BY <1>0 DEF KafkaTypeOK
<1> SUFFICES ASSUME NEW r \in Record, config'.start = "earliest", r[2] < committed'[r[1]]
             PROVE  Settled(r)'
  BY DEF NoRecordSkipped, Settled
<1>3. r[1] \in Partition /\ r[2] \in Nat /\ r = <<r[1], r[2]>>
  BY RecordFields
<1>4. CASE r[2] < committed[r[1]]
  BY <1>0, <1>1, <1>4 DEF NoRecordSkipped, Settled
<1>5. CASE ~(r[2] < committed[r[1]])
  <2>1. committed' # committed
    BY <1>5
  <2>2. PICK m \in Member : MemberStep(m)
    BY <2>1, StepKinds, Zenon DEF Publish, Rebalance, OperatorAcknowledges, vars, durable
  <2>3. /\ member[m].at \in {"commit", "recommit"}
        /\ member[m].generation = group.generation
        /\ committed' = [committed EXCEPT ![member[m].part] = member[m].offset + 1]
    BY <1>0, <2>1, <2>2, StepCommitted, Zenon
  <2>4. /\ member[m].part \in Partition /\ member[m].offset \in Nat
        /\ member[m].part \in member[m].mine
    BY <1>0, <2>3, CurrentIsRecord, Zenon DEF Holding, WorkerOK
  <2>5. r[1] = member[m].part /\ r[2] <= member[m].offset
    BY <1>2, <1>3, <1>5, <2>3, <2>4
  <2>6. member[m].offset = Floor(r[1])
    <3>1. Standing(m, r[1])
      BY <1>3 DEF KafkaInv
    <3>2. Anchored(r[1]) /\ Works(m, r[1])
      BY <1>1, <2>3, <2>5 DEF Anchored, Works, Holding
    <3> QED
      BY <2>3, <2>4, <2>5, <3>1, <3>2, Zenon DEF Standing
  <2>7. r[2] = member[m].offset
    BY <1>2, <1>3, <1>5, <2>4, <2>5, <2>6 DEF Floor, NoOffset
  <2>8. Current(m) = r
    BY <1>3, <2>5, <2>7 DEF Current
  <2> QED
    BY <1>0, <1>1, <2>3, <2>8, Zenon DEF Knows
<1> QED
  BY <1>4, <1>5

-----------------------------------------------------------------------------
(* The theorems.                                                           *)

\* The invariant holds initially and every step keeps it.
LEMMA InitKafkaInv == Init => KafkaInv
<1> SUFFICES ASSUME Init PROVE KafkaInv
  OBVIOUS
<1>1. KafkaTypeOK
  BY InitType
<1>2. \A m \in Member : /\ member[m].at = "none" /\ member[m].generation = 0
                        /\ member[m].mine = {} /\ member[m].live = FALSE
  BY DEF Init, Idle
<1>3. group.generation = 1
  BY DEF Init
<1>4. \A m \in Member : WorkerOK(m) /\ Knows(m)
  BY <1>2, <1>3, SMTT(30) DEF WorkerOK, Knows, Holding
<1>5. \A m \in Member, p \in Partition : Standing(m, p)
  BY <1>2, Zenon DEF Standing
<1>6. \A r \in Record : Counted(r)
  <2> SUFFICES ASSUME NEW r \in Record PROVE Counted(r)
    OBVIOUS
  <2>1. Uncounted(r) = {}
    BY <1>2 DEF Uncounted
  <2>2. Cardinality({}) = 0
    BY FS_EmptySet
  <2> QED
    BY <2>1, <2>2 DEF Init, Counted
<1>7. NoRecordSkipped
  BY RecordFields DEF Init, NoRecordSkipped, NoOffset
<1> QED
  BY <1>1, <1>4, <1>5, <1>6, <1>7 DEF KafkaInv

\* Every step keeps the invariant.
LEMMA NextKafkaInv == KafkaInv /\ [Next]_vars => KafkaInv'
<1> SUFFICES ASSUME KafkaInv, [Next]_vars PROVE KafkaInv'
  OBVIOUS
<1>1. /\ KafkaTypeOK /\ (\A m \in Member : WorkerOK(m)) /\ (\A m \in Member : Knows(m))
      /\ (\A m \in Member, p \in Partition : Standing(m, p)) /\ (\A r \in Record : Counted(r))
  BY DEF KafkaInv
<1>2. KafkaTypeOK' /\ (\A m \in Member : WorkerOK(m)')
  BY <1>1, NextType, NextWorker
<1>3. (\A m \in Member : Knows(m)') /\ (\A r \in Record : Counted(r)')
  BY <1>1, NextKnows, NextCounted
<1>4. \A m \in Member, p \in Partition : Standing(m, p)'
  BY <1>1, NextStanding
<1>5. NoRecordSkipped'
  BY NextSkipped
<1> QED
  BY <1>2, <1>3, <1>4, <1>5 DEF KafkaInv

\* The invariant of the consumer group: what each worker has fetched, run and
\* recorded agrees with the committed offsets, through crashes and rebalances.
THEOREM KafkaInvariant == Spec => []KafkaInv
  BY InitKafkaInv, NextKafkaInv, PTL DEF Spec

\* No offset is committed past a record that is still owed something, for
\* any number of members, partitions, records, rebalances and faults.
THEOREM NothingSkipped == Spec => []NoRecordSkipped
<1>1. KafkaInv => NoRecordSkipped
  BY DEF KafkaInv
<1> QED
  BY <1>1, KafkaInvariant, PTL

\* A failure count never exceeds the errors that earned it, although two
\* members may work on one record at once.
THEOREM PoisonEarned == Spec => []PoisonIsEarned
<1>1. KafkaInv => PoisonIsEarned
  <2> SUFFICES ASSUME KafkaInv, NEW r \in Record
               PROVE  /\ failures[r] <= errors[r]
                      /\ r \in published \cup acked => errors[r] >= config.attempts
    BY DEF PoisonIsEarned
  <2>1. Counted(r) /\ failures[r] \in Nat /\ errors[r] \in Nat
    BY DEF KafkaInv, KafkaTypeOK
  <2> QED
    BY <2>1, UncountedFinite DEF Counted
<1> QED
  BY <1>1, KafkaInvariant, PTL

\* A group that starts from the earliest offset keeps every fetched record
\* without a committed offset in reach.
THEOREM EarliestStaysAvailable == Spec => [](config.start = "earliest" => StaysAvailable)
<1>1. KafkaInv => (config.start = "earliest" => StaysAvailable)
  <2> SUFFICES ASSUME KafkaInv, config.start = "earliest", NEW m \in Member, NEW r \in fetched,
                      member[m].live, member[m].generation = group.generation,
                      r[1] \in member[m].mine, committed[r[1]] <= r[2]
               PROVE  \/ member[m].next[r[1]] <= r[2]
                      \/ Current(m) = r /\ member[m].at # "none"
    BY Zenon DEF StaysAvailable
  <2>1. /\ r[1] \in Partition /\ r[2] \in Nat /\ r = <<r[1], r[2]>>
        /\ committed[r[1]] \in Nat \cup {NoOffset}
    BY RecordFields DEF KafkaInv, KafkaTypeOK
  <2>2. Standing(m, r[1]) /\ WorkerOK(m) /\ Anchored(r[1])
    BY <2>1 DEF KafkaInv, Anchored
  <2>3. Floor(r[1]) \in Nat /\ Floor(r[1]) <= r[2]
    BY <2>1 DEF Floor, NoOffset
  <2>4. CASE ~Works(m, r[1])
    BY <2>2, <2>3, <2>4, Zenon DEF Standing
  <2>5. CASE Works(m, r[1])
    <3>1. /\ member[m].at \in Holding /\ member[m].part = r[1] /\ member[m].offset \in Nat
          /\ member[m].next[r[1]] = member[m].offset + 1
          /\ member[m].offset = IF member[m].at = "clear" THEN Floor(r[1]) - 1 ELSE Floor(r[1])
      BY <2>2, <2>5, Zenon DEF Works, WorkerOK, Standing
    <3>2. member[m].next[r[1]] <= r[2] \/ member[m].offset = r[2]
      BY <2>1, <2>3, <3>1
    <3> QED
      BY <2>1, <3>1, <3>2 DEF Current, Holding
  <2> QED
    BY <2>4, <2>5, Zenon
<1> QED
  BY <1>1, KafkaInvariant, PTL

\* Whatever the configured start, once an offset of a partition is committed
\* the group's reader of it works on the first record after that offset or
\* stands before it: the start policy only matters before the first commit.
ReaderAtCommit ==
  \A m \in Member, p \in Partition :
    /\ member[m].live /\ member[m].generation = group.generation
    /\ p \in member[m].mine /\ committed[p] # NoOffset
    => \/ member[m].next[p] = committed[p]
       \/ Current(m) = <<p, committed[p]>> /\ member[m].next[p] = committed[p] + 1

\* A worker of the current generation reads on from the committed offset, or
\* is at the record there: FetchMessage and CommitMessages stay in step.
THEOREM ReaderFollowsCommit == Spec => []ReaderAtCommit
<1>1. KafkaInv => ReaderAtCommit
  <2> SUFFICES ASSUME KafkaInv, NEW m \in Member, NEW p \in Partition,
                      member[m].live, member[m].generation = group.generation,
                      p \in member[m].mine, committed[p] # NoOffset
               PROVE  \/ member[m].next[p] = committed[p]
                      \/ Current(m) = <<p, committed[p]>> /\ member[m].next[p] = committed[p] + 1
    BY DEF ReaderAtCommit
  <2>1. Standing(m, p) /\ WorkerOK(m) /\ Anchored(p) /\ Floor(p) = committed[p]
        /\ committed[p] \in Nat
    BY Zenon DEF KafkaInv, KafkaTypeOK, Anchored, Floor
  <2>2. CASE ~Works(m, p)
    BY <2>1, <2>2, Zenon DEF Standing
  <2>3. CASE Works(m, p)
    BY <2>1, <2>3, SMTT(30) DEF Standing, Works, WorkerOK, Current
  <2> QED
    BY <2>2, <2>3
<1> QED
  BY <1>1, KafkaInvariant, PTL
============================================================================
