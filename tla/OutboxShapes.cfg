\* One saga of three steps, or two sagas of one step.
SPECIFICATION ShapesSpec
CONSTANTS
    s1 = s1
    s2 = s2
    e1 = e1
    Saga = {s1}
    Execution = {e1}
    ExecutionOf <- OneExecution
    MaxSteps = 3
    MaxClaims = 1
INVARIANTS
    CompensationOrder
    CompensationAfterKnownFailure
    SettledMeaning
PROPERTIES
    SagasStopTogether
\* A store whose sagas are all terminal has nothing left to do.
CHECK_DEADLOCK FALSE
