SPECIFICATION Spec
CONSTANTS
  Calls = {c1, c2}
  Servers = {s1}
  Requests <- AllRequests
  RandomSpan = 2
  Durable = TRUE
  MaxTime = 2
  MaxCrashes = 1
  SetBacks = {1}
SYMMETRY CallSymmetry
INVARIANTS TypeOK RowsHaveOneOrigin AnswersAreTrue NamespacesAreListed
CHECK_DEADLOCK FALSE
