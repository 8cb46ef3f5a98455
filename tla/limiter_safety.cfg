SPECIFICATION Spec
CONSTANTS
  t1 = t1
  t2 = t2
  t3 = t3
  Callers = {t1, t2, t3}
  Interval = 2
  MaxTime = 4
  MaxOutages = 1
SYMMETRY MCSymmetry
INVARIANTS
  SlotsAreKept
  RateIsBounded
CHECK_DEADLOCK FALSE
