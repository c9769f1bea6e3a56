SPECIFICATION Spec
CONSTANTS
  Workflows = {w1}
  Contracts = {c1}
  p1 = p1
  t1 = t1
  PropertyOf <- MCPropertyOf
  TenantOf <- MCTenantOf
  DocTypes <- MCOneDocument
  Deposits <- MCDeposits
  Hours <- MCHours
  Reports <- MCReports
  Terms <- MCAmple
  Manual <- MCManual
  MaxRounds = 2
  MaxEdits = 1
  Nobody = Nobody
INVARIANTS
  TablesAgree
  ReportIsOfThisRound
  AppointmentIffScheduled
  ChargedAsReviewed
  NoDisputeIsPassedOver
CHECK_DEADLOCK FALSE
