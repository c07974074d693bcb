------------------------------ MODULE MCEngine ------------------------------
(* Finite instances of ExecutionEngine for TLC. *)
EXTENDS ExecutionEngine, TLC

CONSTANTS e1, s1, s2, c1, w1

OneExecution == [s \in Saga |-> e1]
BothPlans == [e \in Execution |-> <<s1, s2>>]

Plan(steps, inv, policy) ==
    [steps |-> steps, inverse |-> inv, policy |-> policy, unresolved |-> 0]

\* Two plans of one step, or one of two steps beside an empty one; a second
\* step without its facts.
SomePlans ==
    {s1 :> Plan(1, FALSE, "fail_fast") @@ s2 :> Plan(1, FALSE, "compensating"),
     s1 :> Plan(2, TRUE, "compensating") @@ s2 :> Plan(0, FALSE, "fail_fast"),
     s1 :> Plan(2, FALSE, "fail_fast") @@ s2 :> Plan(0, FALSE, "fail_fast"),
     s1 :> Plan(2, TRUE, "fail_fast") @@ s2 :> Plan(0, FALSE, "fail_fast"),
     s1 :> [Plan(2, TRUE, "compensating") EXCEPT !.unresolved = 2]
        @@ s2 :> Plan(1, FALSE, "fail_fast")}

\* An older fail-fast plan that froze an inverse.
FailFastWithInverse == {s1 :> Plan(2, TRUE, "fail_fast") @@ s2 :> Plan(0, FALSE, "fail_fast")}
=============================================================================
