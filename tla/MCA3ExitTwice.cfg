SPECIFICATION Spec
SYMMETRY MCSymmetry
CONSTANTS
  Workflows = {w1}
  Contracts = {c1}
  c1 = c1
  p1 = p1
  t1 = t1
  PropertyOf <- MCPropertyOf
  TenantOf <- MCTenantOf
  DepositOf <- MCDepositOf
  Days <- MCDays
  MinNotice = 0
  Horizon = 365
  DocTypes <- MCDocs
  Required <- MCDocs
  Hours = {1}
  Lead = 1
  Reports <- MCReports
  Waivers = {0}
  AllowAbove = TRUE
  Keys = {k1, k2}
  MaxAttempts = 2
  MaxPayouts = 2
  MaxHour = 1
  Nobody = Nobody
INVARIANTS
  MoneyMovesOnce
CHECK_DEADLOCK FALSE
