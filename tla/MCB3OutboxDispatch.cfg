SPECIFICATION FairSpec
CONSTANTS
  Events = {e1, e2}
  Dispatchers = {k1, k2}
  MaxAttempts = 3
  MaxCrashes = 2
INVARIANTS
  OutboxAgrees
PROPERTIES
  EveryEventSettles
CHECK_DEADLOCK FALSE
