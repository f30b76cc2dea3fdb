SPECIFICATION Spec
CONSTANTS
  StartLength = 3
  MaxLength = 3
  MaxMessages = 3
  CutStarts = TRUE
INVARIANT ExtractsMessages
CHECK_DEADLOCK FALSE
