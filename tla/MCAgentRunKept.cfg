SPECIFICATION Spec
CONSTANTS
  Workflows <- Quoting
  Tools <- Named
  Inputs <- Plain
  Rounds = 2
  MaxBatch = 1
  MaxFailures = 0
  None = None
INVARIANT CompletedIsKept
CHECK_DEADLOCK FALSE
