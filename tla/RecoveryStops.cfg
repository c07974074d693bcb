\* One plan with an inverse it must not run, a caller and a recovery worker, one fault.
SPECIFICATION FairEngineSpec
CONSTANTS
    e1 = e1
    s1 = s1
    s2 = s2
    c1 = c1
    w1 = w1
    Nobody = Nobody
    Saga = {s1, s2}
    Execution = {e1}
    ExecutionOf <- OneExecution
    Caller = {c1}
    Worker = {w1}
    Process = {c1, w1}
    Plans <- BothPlans
    Shapes <- FailFastWithInverse
    MaxSteps = 2
    MaxClaims = 2
    MaxAttempts = 1
    MayBlock = FALSE
    MaxFaults = 1
PROPERTIES
    BusinessFailureKeepsWorker
CHECK_DEADLOCK FALSE
