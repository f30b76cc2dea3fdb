SPECIFICATION FairSpec
CONSTANTS
  MaxTasks = 2
  Agent = {a1, a2, a3}
  MaxAttempts = 2
  ManualStatus = {"review"}
  MaxAgents = 1
  MaxStarts = 2
  MaxPauses = 1
  ResumeAnytime = FALSE
INVARIANTS
  SwarmInvariant
  OneLoop
  LoopIsAlive
  WorkingAgentHasItsTask
  SomethingGoesOn
PROPERTY EndsWhenTasksEnd
CHECK_DEADLOCK FALSE
