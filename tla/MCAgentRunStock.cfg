SPECIFICATION Spec
CONSTANTS
  Workflows <- Stocking
  Tools <- Stock
  Inputs <- Plain
  Rounds = 2
  MaxBatch = 1
  MaxFailures = 0
  None = None
INVARIANT InventoryIsReadOnly
CHECK_DEADLOCK FALSE
