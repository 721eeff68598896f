CONSTANTS
  Requests = {r1, r2}
  Worker = worker
  Faults = {}
  Overlap = TRUE
  Durable = TRUE
SPECIFICATION MCSpec
INVARIANTS
  AwaitingMeansOpenGate
  SerialRecordMatchesGraph
PROPERTIES
  ReachesGate
  SerialApprovalTakesEffect
CHECK_DEADLOCK FALSE
