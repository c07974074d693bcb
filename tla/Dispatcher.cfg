\* One saga, two steps, a retry budget of two, one fault.
SPECIFICATION DispatcherSpec
CONSTANTS
    s1 = s1
    e1 = e1
    Saga = {s1}
    Execution = {e1}
    ExecutionOf <- OneExecution
    RetryUnknown <- FirstStepRetries
    MaxSteps = 2
    MaxClaims = 3
    MaxAttempts = 2
    MaxFaults = 1
INVARIANTS
    DispatcherTypeOK
    NoSilentEffect
    NoEffectEscapesCompensation
    IntentBeforeEffect
    DispatcherInv
\* A store whose sagas are all terminal has nothing left to do.
CHECK_DEADLOCK FALSE
