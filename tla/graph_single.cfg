SPECIFICATION FairSpec
CONSTANTS
  Total = 1
  FromSelection = FALSE
  RecursionLimit = 20
  MaxRuns = 2
INVARIANTS
  TypeOK
  OutcomeIsHonest
  ActiveIsIndexed
PROPERTIES
  EveryRunEnds
CHECK_DEADLOCK FALSE
