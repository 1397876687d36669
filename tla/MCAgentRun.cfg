SPECIFICATION FairSpec
CONSTANTS
  Workflows <- Reviewed
  Tools <- Named
  Inputs <- Texts
  Rounds = 2
  MaxBatch = 2
  MaxFailures = 2
  None = None
INVARIANTS
  SuccessIsWhole
  CompletedIsAudited
  RowFollowsRequest
PROPERTIES
  StopsAtProposal
  CallsEnd
CHECK_DEADLOCK FALSE
