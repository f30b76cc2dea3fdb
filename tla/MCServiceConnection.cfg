SPECIFICATION FairSpec
CONSTANTS
  Path = {p1, p2}
  MaxMain = 4
INVARIANTS
  ConnectionInvariant
  NothingWaitsOnClosed
PROPERTY ServiceReconnects
CHECK_DEADLOCK FALSE
