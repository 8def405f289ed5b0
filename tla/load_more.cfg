SPECIFICATION Spec
CONSTANTS
  Second = 2
  DayLength = 6
  Millisecond = 2
  ShortDays <- NoDays
  LongDays <- NoDays
  Candidates <- ThreeEvents
  Moments <- TwoDays
  DateRanges <- SomeRanges
  SearchQueries <- SomeSearches
  PageSizes <- SomeSizes
  InitialPageSize <- One
  MaxEdits = 0
INVARIANTS
  LoadMoreContinues
CHECK_DEADLOCK FALSE
