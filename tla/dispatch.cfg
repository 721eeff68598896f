CONSTANTS
  Approvals = {a1}
  Urgencies = {"medium", "high"}
  MinPriority = "high"
  MaxAttempts = 2
  MaxDispatch = 2
  Retries = {q1, q2}
  Faulty = TRUE
  ChannelOrder <- SlackThenEmail
  Addresses <- TwoAddresses
SPECIFICATION FairSpec
INVARIANTS
  DispatchInv
  SecondChannelIsARerun
  DispatchedOnce
  DeadLetterMeansNobody
  ArrivedIsRecorded
PROPERTIES
  SentStaysSent
  AlertSettles
CHECK_DEADLOCK FALSE
