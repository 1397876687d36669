SPECIFICATION Spec
CONSTANTS
  Quotes = {q1}
  Requests = {r1, r2, r3}
  Threads = {t1, t2}
  Workers = {w1, w2}
  Percents = {0, 10, 20, 30}
  Limit <- RegularLimit
  Expiring = TRUE
  Durable = FALSE
  MaxFailures = 1
  None = None
SYMMETRY Interchangeable
INVARIANTS
  DiscountAuthorized
  HeldByItsProposal
PROPERTIES
  DecisionIsFinal
  RejectionPreserves
  Contract
\* Every request may have been used and every approval settled.
CHECK_DEADLOCK FALSE
