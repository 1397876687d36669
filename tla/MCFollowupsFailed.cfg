SPECIFICATION Spec
CONSTANTS
  Tasks = {1, 2}
  Workers = {w1, w2}
  Limits = {FALSE}
  MaxLogs = 2
  MaxFailures = 0
PROPERTIES
  FailuresRemain
