\* Two plans of one execution, a caller and a recovery worker, one fault.
SPECIFICATION FairEngineSpec
CONSTANTS
    e1 = e1
    s1 = s1
    s2 = s2
    c1 = c1
    w1 = w1
    Nobody = Nobody
    Saga = {s1, s2}
    Execution = {e1}
    ExecutionOf <- OneExecution
    Caller = {c1}
    Worker = {w1}
    Process = {c1, w1}
    Plans <- BothPlans
    Shapes <- SomePlans
    MaxSteps = 2
    MaxClaims = 2
    MaxAttempts = 1
    MayBlock = TRUE
    MaxFaults = 1
INVARIANTS
    CompletedIsDone
    StoppedIsQuiet
    VerdictCoversSagas
PROPERTIES
    SettledOnce
    EventuallySettled
CHECK_DEADLOCK FALSE
