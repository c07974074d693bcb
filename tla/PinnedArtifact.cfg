\* Recovery of an execution whose bundle has a verb without required arguments.
CONSTANTS
  MaxInt = 6
  MaxFloat = 20
  MaxTypeDepth = 4
  Limits <- SmallLimits
  NameBefore <- Before
  Bundles <- OptionalOrders
  Replacements <- OptionalReplacements
  Requests <- SomeRequests
  Repeats <- SomeRepeats
  Policies <- SomePolicies
  Results <- SomeResults
SPECIFICATION Spec
CHECK_DEADLOCK FALSE
INVARIANTS PinnedGenerationResolves
