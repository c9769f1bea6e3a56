SPECIFICATION FairSettlement
CONSTANTS
  WorkflowIds = {w1, w2}
  Contracts = {c1, c2}
  c1 = c1
  p1 = p1
  Properties = {p1}
  PropertyOf <- MCPropertyOf
  FirstDeposit <- MCFirstDeposit
  Edits = {2}
  Damages = {3}
  Requests = {r1, r2}
  MaxAttempts = 2
  MaxFaults = 2
  ExclusiveTenancy = TRUE
  Nobody = Nobody
INVARIANTS
  LocksFollowExits
  RecordsAgree
  MoneyThenNoc
PROPERTIES
  PaymentRowStays
  ImplementsPromise
  ExitsGoOn
CHECK_DEADLOCK FALSE
