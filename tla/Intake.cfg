\* A consumer group of two with two records, one of them bad; a daemon with a
\* request, an RPC and the recovery worker; two clients, one of which may send its
\* request twice, and one deployment between.
SPECIFICATION IntakeRun
CONSTANTS
    m1 = m1
    m2 = m2
    p1 = p1
    p2 = p2
    Nobody = Nobody
    First = m1
    Member = {m1, m2}
    Partition = {p1, p2}
    Configs <- SomeConfigs
    Bad <- FirstIsBad
    Published <- TwoAndNone
    MaxMoves = 1
    MaxFaults = 1

    Flags <- SomeFlags
    KindOf <- SomeUsers
    WorkOf <- SomeWork
    PinnedTo <- SomePins
    MaxRPCs = 1

    Asks <- SomeAsks
    Namespaces = {"n"}
    Keys = {"k"}
    Deployments <- Two
    Limit = 1
    Interruptions = {{"deadline"}}
    Ends = {"completed", "failed"}
    MaxSends <- TwiceAndOnce
INVARIANTS
    NoRecordSkipped
    PoisonIsEarned
    StaysAvailable
    NothingUsedAfterClose
    CancellationIsNotEvidence
    TruthfulAnswers
PROPERTIES
    EventuallyCommitted
    EventuallyExits
\* Records, faults and rebalances come to an end.
CHECK_DEADLOCK FALSE
