SPECIFICATION FairSpec
CONSTANTS
  Items = {i1, i2, i3}
  Killers = {i3}
  Stub = stub
  Null = null
  EpochModulus = 2
  Consumer = consumer
  Nobody = nobody
INVARIANTS
  NoLostWakeup
PROPERTIES
  ImplementsFifo
  EveryItemServed
  StopEnds
CHECK_DEADLOCK FALSE
