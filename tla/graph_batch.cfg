SPECIFICATION Spec
CONSTANTS
  Total = 3
  FromSelection = TRUE
  RecursionLimit = 34
  MaxRuns = 1
INVARIANTS
  PapersKeepTheirPlace
  OutcomeIsHonest
CHECK_DEADLOCK FALSE
