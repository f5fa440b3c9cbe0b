SPECIFICATION FairSpec
CONSTANTS
  Notifiers = {n1, n2, n3}
  EpochModulus = 3
  Waiter = waiter
  Nobody = nobody
INVARIANTS
  TokenAccounting
PROPERTIES
  NeverFull
  PumpEnds
  NotifiedWakes
