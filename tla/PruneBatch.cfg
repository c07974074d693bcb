\* A batch smaller than the number of sagas of an execution.
SPECIFICATION RetentionSpec
CONSTANTS
    SagasOf <- TwoExecutions
    DigestOf <- TwoDigests
    Deliveries = {}
    BatchSize = 1
INVARIANTS
    ExecutionsStayWhole
CHECK_DEADLOCK FALSE
