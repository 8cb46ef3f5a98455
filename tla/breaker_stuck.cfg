SPECIFICATION FairSpec
CONSTANTS
  search1 = search1
  search2 = search2
  metadata = metadata
  s2a = s2a
  s2b = s2b
  Callers = {s2a, s2b}
  NoCaller = NoCaller
  NotFoundIsUp = {s2a, s2b}
  Degrading = {s2a, s2b}
  Threshold = 2
  Recovery = 2
  MaxTries = 2
  MaxOutages = 0
PROPERTIES
  HalfOpenEnds
