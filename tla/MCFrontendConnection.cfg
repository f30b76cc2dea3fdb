SPECIFICATION FairSpec
CONSTANTS
  Timeout = "positive"
  LateDisconnect = FALSE
  MaxLosses = 2
  MaxChannels = 6
  MaxData = 2
INVARIANTS
  ConnectionInvariant
  OneContext
  TimerWaitsForDisconnected
  CloseFindsConnection
  DataReachesItsContext
  DeliveredInOrder
PROPERTIES
  EventuallyConnected
CHECK_DEADLOCK FALSE
