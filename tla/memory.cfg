CONSTANTS
  None = None
  Keys = {1, 2}
  Procs = {agent, other}
  Agent = agent
  MaxRevision = 2
  MaxSummaries = 2
  EntryTokens = 3
  SummaryTokens = 1
  TurnTokens = 2
  TokenBudget = 5
  MaxEntries = 2
SPECIFICATION Spec
INVARIANTS
  DurableIsTruth
  NothingDropsSilently
CHECK_DEADLOCK FALSE
