SPECIFICATION FairSpec
CONSTANTS
  Tasks = {1, 2}
  Workers = {w1, w2, w3}
  Limits = {TRUE, FALSE}
  MaxLogs = 1
  MaxFailures = 2
INVARIANTS
  RunOnce
  CompletedIsLogged
PROPERTIES
  FailedIsQuiet
  EveryTaskSettles
