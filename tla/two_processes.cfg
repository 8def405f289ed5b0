SPECIFICATION Spec
CONSTANTS
  Calls = {c1, c2, c3}
  Servers = {s1, s2}
  Requests <- TwoTenantRequests
  RandomSpan = 1
  Durable = TRUE
  MaxTime = 2
  MaxCrashes = 1
  SetBacks = {}
SYMMETRY CallSymmetry
INVARIANTS CompensationIntegrity RowsHaveOneOrigin AnswersAreTrue
PROPERTIES ImplementsAuditLog
CHECK_DEADLOCK FALSE
