SPECIFICATION FairSpec
CONSTANTS
  Workflows = {w1, w2}
  Contracts = {c1, c2}
  p1 = p1
  t1 = t1
  PropertyOf <- MCOwnProperty
  TenantOf <- MCTenantOf
  DocTypes <- MCOneDocument
  Deposits <- MCDeposits
  Hours <- MCHours
  Reports <- MCNoDamage
  Terms <- MCAmple
  Manual <- MCManual
  MaxRounds = 1
  MaxEdits = 0
  Nobody = Nobody
INVARIANTS
  OneActiveExit
PROPERTIES
  ExpiredWasIdle
  IssuedIsCompleted
CHECK_DEADLOCK FALSE
