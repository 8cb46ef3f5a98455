CONSTANTS
  p1 = p1
  p2 = p2
  r1 = r1
  r2 = r2
  None = None
  Papers = {p1, p2}
  Cached = {p1}
  Requests = {r1, r2}
  Calls <- MCCalls
  Found <- MCFound
  MaxCalls = 3
  MaxListings = 2
SPECIFICATION Spec
SYMMETRY Symmetry
INVARIANTS
  LostIsExplained
  NamedIsThere
PROPERTIES
  ConflictIsKept
CHECK_DEADLOCK FALSE
