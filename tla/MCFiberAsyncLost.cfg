SPECIFICATION FairSpec
CONSTANTS
  Works = {sync, async}
  Dispatched = {}
  Killers = {}
  Async = {async}
  Cancellable = {}
  Null = null
PROPERTIES
  BegunIsSettled
CHECK_DEADLOCK FALSE
