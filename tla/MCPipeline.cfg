SPECIFICATION FairPipelineSpec
CONSTANTS
  Calls = {c1, c2}
  Dispatchers <- MCDispatchers
  IntMax = 2
  FilterIgnores = TRUE
  Threshold = 2
  Delay = 1
  VoidThrows = TRUE
  HasFallback = TRUE
  BreakerIgnores = TRUE
  RefusalsRetried = TRUE
INVARIANTS
  RetriesCounted
  WaitsInOrder
  OutcomesAreRecorded
  LoopsCountOnce
PROPERTIES
  CallEnds
CHECK_DEADLOCK FALSE
