CONSTANTS
  Requests = {r1, r2}
  Worker = worker
  Faults = {}
  Overlap = TRUE
  Durable = TRUE
SPECIFICATION Spec
INVARIANTS
  DecidedOnce
CHECK_DEADLOCK FALSE
