SPECIFICATION Spec
CONSTANTS
  Calls = {c1, c2, c3}
  Servers = {s1}
  Requests <- TwoTenantRequests
  RandomSpan = 1
  Durable = FALSE
  MaxTime = 2
  MaxCrashes = 2
  SetBacks = {}
SYMMETRY CallSymmetry
INVARIANTS CompensationIntegrity
CHECK_DEADLOCK FALSE
