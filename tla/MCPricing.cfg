SPECIFICATION Spec
CONSTANTS
  Items = {1, 2}
  Prices = {0, 2, 7}
  Quantities = {0, 1, 2}
  Percents = {0, 999, 1250, 2500, 2600}
  Limit = 1500
  MaxAmount = 18
CHECK_DEADLOCK FALSE
INVARIANTS
  TotalsAddUp
  NearestCent
  OrderAsApproved
