SPECIFICATION FairBackBoneSpec
CONSTANTS
  s1 = s1
  s2 = s2
  m1 = m1
  m2 = m2
  Sources = {s1, s2}
  Messages = {m1, m2}
  Origin <- MCOrigin
  Caller = Caller
INVARIANTS
  DisposedIsDisconnected
PROPERTIES
  CancelledHasNoResult
CHECK_DEADLOCK FALSE
