SPECIFICATION FairSpec
CONSTANTS
  Workflows = {w1}
  Keys = {k1, k2}
  Refunds = {1, 2}
  Mishaps = {"error", "lost", "rejected", "refused"}
  MaxAttempts = 2
  Nobody = Nobody
INVARIANTS
  PaidOnce
  PayingIsFrozen
  CertifiedWasPaid
PROPERTIES
  PaidIsRecorded
CHECK_DEADLOCK FALSE
