\* One saga, two steps, three claims of each dispatch.
SPECIFICATION Spec
CONSTANTS
    s1 = s1
    s2 = s2
    e1 = e1
    Saga = {s1}
    Execution = {e1}
    ExecutionOf <- OneExecution
    MaxSteps = 2
    MaxClaims = 3
INVARIANTS
    TypeOK
    StepsAgree
    TerminalQuiescent
    NoMaskedUnknown
    OutboxInv
PROPERTIES
    SettledForever
\* A store whose sagas are all terminal has nothing left to do.
CHECK_DEADLOCK FALSE
