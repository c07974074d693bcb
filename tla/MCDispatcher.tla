---------------------------- MODULE MCDispatcher ----------------------------
(* Finite instances of Dispatcher for TLC. *)
EXTENDS Dispatcher

CONSTANTS s1, e1

OneExecution == [s \in Saga |-> e1]

\* The first step declares a sink-guaranteed destination, the others do not.
FirstStepRetries == {d \in Dispatch : SeqOf(d) = 1}
=============================================================================
