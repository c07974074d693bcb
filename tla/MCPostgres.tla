----------------------------- MODULE MCPostgres -----------------------------
(* Finite instances of PostgresOutbox for TLC. *)
EXTENDS PostgresOutbox, TLC

CONSTANTS s1, s2, e1, c1, c2

\* Identities are hashes: any order.
SomeRank ==
    [d \in Dispatch |-> 6 * (IF SagaOf(d) = s1 THEN 1 ELSE 0) +
                        (IF DirectionOf(d) = "forward" THEN 6 - 2 * SeqOf(d)
                                                      ELSE 2 * SeqOf(d) - 1)]

SomeSagaRank == [s \in Saga |-> IF s = s1 THEN 1 ELSE 2]

FirstIsFenced == {Forward(s1, 1)}

Sessions == Permutations(Session)

\* The first step of s1 may have an inverse and its second has none; s2 has
\* one step, without.
FirstMayHave ==
    [s \in Saga |-> [n \in Sequence |->
        IF n = 1 THEN (IF s = s1 THEN BOOLEAN ELSE {FALSE})
        ELSE (IF s = s1 THEN {FALSE} ELSE {})]]

\* Bounds.  With s1 alone, the sessions interleave where its first step has an
\* inverse, and take turns where it has none; once both its steps were claimed,
\* one of two sessions at work is a finalizer.  With s2 there is one step for
\* each saga and one claim, and the second session at work is a finalizer.  A
\* third claim is that of a compensation, and from then on they take turns.
Bounded ==
    LET working == {c \in Session : tx[c].at # "idle"}
        finalizing == {c \in working : tx[c].op \in Finalizers}
        Claims(dispatches) == FoldSet(LAMBDA d, n : n + Len(attempts[d]), 0, dispatches) IN
    /\ step[s1][1] # "absent" /\ ~inverse[s1][1] => Cardinality(working) <= 1
    /\ step[s1][2] # "absent" /\ Claims(Dispatch) = 2 =>
          Cardinality(finalizing) <= 1 /\ Cardinality(working \ finalizing) <= 1
    /\ saga[s2] # "absent" =>
          /\ step[s1][2] = "absent"
          /\ Claims(Dispatch) <= 1
          /\ Cardinality(working \ finalizing) <= 1
    /\ Claims({d \in Dispatch : DirectionOf(d) = "forward"}) <= 2
    /\ Claims(Dispatch) = 3 => Cardinality(working) <= 1

OneExecution == [s \in Saga |-> e1]
=============================================================================
