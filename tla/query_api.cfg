SPECIFICATION Spec
CONSTANTS
  Second = 2
  Candidates <- ThreeEvents
  Requests <- SomeRequests
  Ids <- SomeIds
  MaxAnswers = 2
INVARIANTS
  LaterAnswersKeep ShownIsQueryable TransportsAgree AllNamespacesIsNone
CHECK_DEADLOCK FALSE
