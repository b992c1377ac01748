SPECIFICATION FairSpec
CONSTANTS
  OutCapacity = 1
  MaxReconnectAttempts = 2
  MaxPushes = 1
  MaxFinals = 1
PROPERTY CloseReturns
CHECK_DEADLOCK FALSE
