SPECIFICATION Spec
CONSTANTS
  Quotes = {q1}
  Requests = {r1, r2}
  Threads = {t1, t2}
  Workers = {w1, w2}
  Percents = {0, 10, 20, 30}
  Limit <- RegularLimit
  Expiring = FALSE
  Durable = TRUE
  MaxFailures = 0
  None = None
INVARIANTS
  PendingIsResolvable
\* Every request may have been used and every approval settled.
CHECK_DEADLOCK FALSE
