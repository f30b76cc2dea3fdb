SPECIFICATION Spec
CONSTANTS
  Task = {t1, t2, t3}
  Agent = {a1}
  MaxAttempts = 2
  ManualStatus = {"in_progress", "cancelled"}
  SameTurn = FALSE
SYMMETRY TaskSymmetry
INVARIANTS
  BoardInvariant
  DependenciesMirror
  Acyclic
  ReadyIsUnassigned
PROPERTY NobodyIsForgotten
CHECK_DEADLOCK FALSE
