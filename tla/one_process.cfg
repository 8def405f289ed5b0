SPECIFICATION Spec
CONSTANTS
  Calls = {c1, c2, c3}
  Servers = {s1}
  Requests <- OneTenantRequests
  RandomSpan = 2
  Durable = TRUE
  MaxTime = 2
  MaxCrashes = 0
  SetBacks = {1}
INVARIANTS CompensationsPointBack
SYMMETRY CallSymmetry
PROPERTIES IdsGrow
CHECK_DEADLOCK FALSE
