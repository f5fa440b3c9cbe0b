SPECIFICATION FairSpec
CONSTANTS
  Works = {token, both, dispatch}
  Dispatched = {dispatch}
  Killers = {dispatch}
  Async = {both}
  Cancellable = {token, both}
  Null = null
INVARIANTS
  TakenAreSettled
  DisposalSparesTheRunning
PROPERTIES
  EnqueuedIsSettled
  DisposalEnds
CHECK_DEADLOCK FALSE
