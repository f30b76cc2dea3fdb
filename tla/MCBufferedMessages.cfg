SPECIFICATION Spec
CONSTANTS
  Timeout = "positive"
  LateDisconnect = FALSE
  MaxLosses = 1
  MaxChannels = 5
  MaxData = 2
INVARIANT SingleMessageRead
CHECK_DEADLOCK FALSE
