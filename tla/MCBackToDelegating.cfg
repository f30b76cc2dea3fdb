SPECIFICATION Spec
CONSTANTS
  MaxTasks = 2
  Agent = {a1, a2, a3}
  MaxAttempts = 2
  ManualStatus = {"review"}
  MaxAgents = 1
  MaxStarts = 1
  MaxPauses = 0
  ResumeAnytime = FALSE
PROPERTY GoesBackToDelegating
CHECK_DEADLOCK FALSE
