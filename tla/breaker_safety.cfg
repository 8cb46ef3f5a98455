SPECIFICATION FairSpec
CONSTANTS
  search1 = search1
  search2 = search2
  metadata = metadata
  s2a = s2a
  s2b = s2b
  Callers = {search1, search2, metadata}
  NoCaller = NoCaller
  NotFoundIsUp = {metadata}
  Degrading = {}
  Threshold = 2
  Recovery = 2
  MaxTries = 2
  MaxOutages = 1
INVARIANTS
  StateMatchesCount
PROPERTIES
  ProviderIsSpared
  OpenIsProbed
