SPECIFICATION Spec
CONSTANTS
  GrpcCalls = {g1}
  HttpCalls = {h1}
  Statements = 3
  MaxBoots = 1
INVARIANTS
  AppendOnlyEnforced
CHECK_DEADLOCK FALSE
