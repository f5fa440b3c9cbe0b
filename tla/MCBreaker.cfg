SPECIFICATION FairSpec
CONSTANTS
  Callers = {c1, c2, c3}
  Threshold = 2
  Delay = 2
  VoidThrows = FALSE
  HasFallback = TRUE
  FilterIgnores = TRUE
INVARIANTS
  FailsDecideState
  HalfOpenIsProbing
PROPERTIES
  ProbesSpaced
  OnlyProbesEnter
  ProbeDecides
