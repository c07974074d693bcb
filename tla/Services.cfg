\* Two claims with the same two fences in opposite orders, and two holders of
\* one resource in PostgreSQL; predicates of one or two operators and a
\* program of two plans; three calls; two executions to prune.
SPECIFICATION ServicesRun
CONSTANTS
    h1 = h1
    h2 = h2
    Holder = {h1, h2}
    Resource = {1, 2}
    Fencing <- Opposite
    TTL = 3
    InvocationTimeout = 2
    Margin = 1
    MaxTime = 3
    MaxToken = 3

    MaxInt = 6
    MaxFloat = 20
    MaxTypeDepth = 4
    Limits <- SmallLimits
    NameBefore <- Before
    Bundles <- AllBundles
    Replacements <- SomeReplacements
    Requests <- SomeRequests
    Policies <- SomePolicies
    Repeats <- SomeRepeats
    Results <- SomeResults

    Calls = {"first", "again", "undo"}
    Workloads <- SomeWorkloads
    HTTPDescriptors <- SomeDescriptors
    RedirectTargets <- SomeTargets
    MaxRequestBytes = 5
    MaxFaults = 1

    SagasOf <- TwoExecutions
    DigestOf <- TwoDigests
    Deliveries = {"k"}
    BatchSize = 3
INVARIANTS
    FencesOutliveCall
    SomeClaimAdvances
    NothingLeaks
    TypeSound
    ReplayAgrees
    SameIdentitySameWork
    
    ExecutionsStayWhole
PROPERTIES
    ImplementsContract
\* Clocks, tokens and budgets stop at their bounds.
CHECK_DEADLOCK FALSE
