SPECIFICATION Spec
CONSTANTS
  StartLength = 3
  MaxLength = 3
  MaxMessages = 3
  CutStarts = FALSE
INVARIANTS
  FramingInvariant
  ExtractsMessages
CHECK_DEADLOCK FALSE
