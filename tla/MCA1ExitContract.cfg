SPECIFICATION Spec
SYMMETRY MCSymmetry
CONSTANTS
  Workflows = {w1, w2}
  Contracts = {c1, c2}
  c1 = c1
  c2 = c2
  p1 = p1
  t1 = t1
  t2 = t2
  PropertyOf <- MCPropertyOf
  TenantOf <- MCTenantOf
  DepositOf <- MCDepositOf
  Existing = {c1}
  Days = {1}
  MinNotice = 0
  MaxNotice = 365
  Kinds <- MCKinds
  Required <- MCKinds
  Hours = {1}
  Totals = {0, 2, 3}
  Keys = {k1, k2}
  MaxAttempts = 2
  MaxHour = 1
  Nobody = Nobody
INVARIANTS
  SettlementAgrees
  SettlesOperativeReport
  AppointmentIsLive
  PaidIsFinal
CHECK_DEADLOCK FALSE
