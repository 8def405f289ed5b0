SPECIFICATION Spec
CONSTANTS
  DayLength = 6
  Millisecond = 2
  ShortDays <- ForwardOn
  LongDays <- BackOn
  Moments <- FirstAndLast
  Dates <- SomeDates
INVARIANTS
  RangeIsPeriod PeriodsAdjoin
CHECK_DEADLOCK FALSE
