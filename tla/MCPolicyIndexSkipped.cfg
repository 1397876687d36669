SPECIFICATION Spec
CONSTANTS
  Files = 2
  Sections = 2
  Documents = 3
  Jobs = {j1}
  Forcing = {FALSE}
  Backend = "local"
  MaxFailures = 1
INVARIANTS
  SkippedIsIngested
