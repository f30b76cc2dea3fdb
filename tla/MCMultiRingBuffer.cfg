SPECIFICATION Spec
CONSTANTS
  Size = 5
  Reader = {r1, r2}
  HighWaterMark = 3
  MaxEnq = 6
  MaxWritten = 13
INVARIANTS
  RingInvariant
  UnreadIsNext
CHECK_DEADLOCK FALSE
