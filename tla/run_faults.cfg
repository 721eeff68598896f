CONSTANTS
  Requests = {r1}
  Worker = worker
  Faults = {"node", "persist", "db", "crash"}
  Overlap = TRUE
  Durable = TRUE
SPECIFICATION FairSpec
INVARIANTS
  ResearchMatchesVerdict
PROPERTIES
  EveryRunnerEnds
CHECK_DEADLOCK FALSE
