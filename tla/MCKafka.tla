------------------------------ MODULE MCKafka ------------------------------
(* The consumer group that effectusd configures. *)
EXTENDS KafkaSource, TLC

CONSTANTS m1, m2, p1, p2

DaemonConfigs ==
  { [addressed |-> TRUE, limits |-> TRUE, tracker |-> TRUE, attempts |-> 2,
     policy |-> "halt", contract |-> c, wait |-> WaitModeForAckContract(c), start |-> "",
     audit |-> FALSE, dlqTopic |-> "", dlqMode |-> ""] : c \in Contracts }

TwoAndNone == (p1 :> 2) @@ (p2 :> 0)
FirstIsBad == {<<p1, 0>>}
============================================================================
