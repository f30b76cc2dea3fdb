SPECIFICATION FairSpec
CONSTANTS
  MaxId = 3
  SendsAfterClose = TRUE
  RepliesGetLost = TRUE
INVARIANTS
  ListenersMatchPending
  SettledByOutcome
  CancelOnlyOnDemand
  RpcInvariant
PROPERTIES
  NoCancelAfterSettled
  ImplementsRemoteCall
  RequestSettles
  CancelReaches
CHECK_DEADLOCK FALSE
