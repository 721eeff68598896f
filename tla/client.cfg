CONSTANTS
  Callers = {c1, c2}
  Keys = {k1, k2}
  Threshold = 2
  Reset = 2
  Cost = 2
  Capacity = 4
  Refill = 1
  Ttl = 2
  MaxEntries = 1
  Timeout = 1
  MaxTime = 4
  Markable = {TRUE, FALSE}
  Uncaught = TRUE
SPECIFICATION Spec
SYMMETRY Symmetry
INVARIANTS
  CacheInv
  ClosedBelowThreshold
  OneProbe
  RateBound
CHECK_DEADLOCK FALSE
