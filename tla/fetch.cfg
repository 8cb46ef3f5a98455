SPECIFICATION FairSpec
CONSTANTS
  a = a
  b = b
  Callers = {a, b}
  Injected = {b}
  MaxTries = 2
  Limit = 1
  Sizes <- MCSizes
  Threshold = 2
  Recovery = 1
INVARIANTS
  IngestionIsHonest
  BreakerMatchesCount
PROPERTIES
  FetchedIsKept
  IngestionEnds
