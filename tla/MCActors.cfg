SPECIFICATION FairSpec
CONSTANTS
  a = a
  b = b
  c = c
  d = d
  ActorSet = {a, b}
  Calls = {c, d}
  Target <- MCTarget
  Sendings <- MCSendings
  Common = Common
  None = None
INVARIANTS
  DisposedIsQuiet
PROPERTIES
  SendsReturn
  DisposalEnds
CHECK_DEADLOCK FALSE
