CONSTANTS
  MaxVersion = 3
  Lifetime = 3
  Heartbeat = 1
  MaxAttempts = 2
  MaxLosses = 3
SPECIFICATION Spec
INVARIANTS
  StreamInv
  NothingReadIsLost
PROPERTIES
  ShownNeverGoesBack
CHECK_DEADLOCK FALSE
