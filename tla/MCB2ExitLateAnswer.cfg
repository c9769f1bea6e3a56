SPECIFICATION Spec
CONSTANTS
  w1 = w1
  w2 = w2
  c1 = c1
  c2 = c2
  p1 = p1
  WorkflowIds = {w1}
  Contracts = {c1}
  Properties = {p1}
  ContractOf <- MCContractOf
  PropertyOf <- MCPropertyOf
  Deposits <- MCDeposits
  Damages <- MCDamages
  Requests = {r1, r2}
  MaxAttempts = 2
  MaxFaults = 0
  Nobody = Nobody
INVARIANT ProceededOnSucceeded
CHECK_DEADLOCK FALSE
