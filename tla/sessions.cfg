CONSTANTS
  Requests = {q1, q2}
  Handlers = {h1, h2}
  NoOne = none
  MaxSessions = 1
  MaxTokens = 3
  Lossy = TRUE
SPECIFICATION FairSpec
INVARIANTS
  SessionInv
  NoFalseAlarm
PROPERTIES
  ReuseIsRefused
  RequestsAnswered
CHECK_DEADLOCK FALSE
