SPECIFICATION FairSpec
CONSTANTS
  w1 = w1
  w2 = w2
  c1 = c1
  c2 = c2
  p1 = p1
  WorkflowIds = {w1, w2}
  Contracts = {c1, c2}
  Properties = {p1}
  ContractOf <- MCContractOf
  PropertyOf <- MCPropertyOf
  Deposits <- MCDeposits
  Damages <- MCDamages
  Requests = {r1, r2}
  MaxAttempts = 2
  MaxFaults = 2
  Nobody = Nobody
INVARIANTS
  RecordsAgree
PROPERTIES
  ConfirmedExitSettles
  ImplementsPromise
CHECK_DEADLOCK FALSE
