----------------------------- MODULE MCRetention -----------------------------
(* Retention of an execution with two sagas, and of one without. *)
EXTENDS Retention, TLC

TwoExecutions == ("a" :> {"a1", "a2"}) @@ ("b" :> {})
TwoDigests == ("a" :> "g1") @@ ("b" :> "g2")

RetentionSpec == RetentionInit /\ [][RetentionNext]_retentionVars
=============================================================================
