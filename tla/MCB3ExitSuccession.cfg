SPECIFICATION Spec
CONSTANTS
  WorkflowIds = {w1, w2}
  Contracts = {c1, c2}
  p1 = p1
  Properties = {p1}
  PropertyOf <- MCPropertyOf
  Deposit <- MCDeposit
  Damages <- MCDamages
  Requests = {r1, r2, r3}
  ExclusiveTenancy = TRUE
  Nobody = Nobody
SYMMETRY Symmetry
INVARIANTS
  LocksFollowExits
  RecordsAgree
  MoneyThenNoc
PROPERTIES
  ImplementsPromise
CHECK_DEADLOCK FALSE
