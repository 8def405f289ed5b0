SPECIFICATION FairSpec
CONSTANTS
  Candidates <- FiveEvents
  Queries <- SomeQueries
INVARIANTS
  TypeOK WalkComplete WalkSound PagesDescend TokenPromisesPage
PROPERTIES
  WalkEnds
CHECK_DEADLOCK FALSE
