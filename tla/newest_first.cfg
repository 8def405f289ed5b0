SPECIFICATION Spec
CONSTANTS
  Calls = {c1, c2}
  Servers = {s1}
  Requests <- OneTenantRequests
  RandomSpan = 1
  Durable = TRUE
  MaxTime = 3
  MaxCrashes = 0
  SetBacks = {}
SYMMETRY CallSymmetry
INVARIANTS NewestFirst
CHECK_DEADLOCK FALSE
