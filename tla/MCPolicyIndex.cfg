SPECIFICATION FairSpec
CONSTANTS
  Files = 2
  Sections = 2
  Documents = 6
  Jobs = {j1, j2}
  Forcing = {TRUE, FALSE}
  Backend = "local"
  MaxFailures = 2
INVARIANTS
  TypeOK
  AllOrNothing
  NoGap
  ForcedRunIsComplete
PROPERTIES
  ForcedRunsRepair
