SPECIFICATION FairSpec
CONSTANTS
  Quotes = {q1}
  Requests = {r1, r2}
  Threads = {t1, t2}
  Workers = {w1, w2}
  Percents = {20}
  Limit <- RegularLimit
  Expiring = TRUE
  Durable = TRUE
  MaxFailures = 2
  None = None
INVARIANTS
  WorksOnOwnCheckpoint
PROPERTIES
  PauseIsKept
  RetryExecutes
\* Every request may have been used and every approval settled.
CHECK_DEADLOCK FALSE
