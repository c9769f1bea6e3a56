SPECIFICATION FairSettlement
CONSTANTS
  WorkflowIds = {w1}
  Contracts = {c1, c2}
  p1 = p1
  Properties = {p1}
  PropertyOf <- MCPropertyOf
  Deposit <- MCDeposit
  Damages <- MCDamages
  Requests = {r1, r2}
  ExclusiveTenancy = FALSE
  Nobody = Nobody
PROPERTIES
  MidExitOnlyByRace
  NobodyWaitsForEver
  PaidExitCompletesOrOrphans
CHECK_DEADLOCK FALSE
