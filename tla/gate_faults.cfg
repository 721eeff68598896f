CONSTANTS
  Requests = {r1, r2}
  Worker = worker
  Faults = {"node", "db", "crash"}
  Overlap = TRUE
  Durable = FALSE
SPECIFICATION Spec
INVARIANTS
  GateInv
  FailedStageIsWhereRunStopped
PROPERTIES
  ClosedStaysClosed
  GateRefinement
CHECK_DEADLOCK FALSE
