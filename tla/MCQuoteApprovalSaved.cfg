SPECIFICATION Spec
CONSTANTS
  Quotes = {q1}
  Requests = {r1}
  Threads = {t1, t2}
  Workers = {w1}
  Percents = {0, 10, 20, 30}
  Limit <- RegularLimit
  Expiring = TRUE
  Durable = TRUE
  MaxFailures = 1
  None = None
INVARIANTS
  SavedResultIsFinal
\* Every request may have been used and every approval settled.
CHECK_DEADLOCK FALSE
