SPECIFICATION FairSpec
CONSTANTS
  Files = 2
  Sections = 2
  Documents = 3
  Jobs = {j1}
  Forcing = {TRUE}
  Backend = "openai"
  MaxFailures = 0
PROPERTIES
  ForcedRunsRepair
