\* Two database sessions on two sagas of one execution.
SPECIFICATION PostgresSpec
CONSTANTS
    s1 = s1
    s2 = s2
    e1 = e1
    c1 = c1
    c2 = c2
    NoSaga = NoSaga
    Saga = {s1, s2}
    Execution = {e1}
    ExecutionOf <- OneExecution
    Session = {c1, c2}
    Rank <- SomeRank
    SagaRank <- SomeSagaRank
    Fenced <- FirstIsFenced
    Inverses <- FirstMayHave
    MaxTotal = 3
    MaxSteps = 2
    MaxClaims = 2
CONSTRAINT Bounded
SYMMETRY Sessions
INVARIANTS
    OnlySecondPassDeadlocks
PROPERTIES
    ImplementsOutbox
CHECK_DEADLOCK FALSE
