---------------------------- MODULE MCSagaOutbox ----------------------------
(* Finite instances of SagaOutbox for TLC. *)
EXTENDS SagaOutbox

CONSTANTS s1, s2, e1

OneExecution == [s \in Saga |-> e1]
=============================================================================
