SPECIFICATION FairSpec
CONSTANTS
  Callers = {c1, c2}
  Threshold = 2
  Delay = 2
  VoidThrows = TRUE
  HasFallback = FALSE
  FilterIgnores = TRUE
PROPERTIES
  HalfOpenEnds
