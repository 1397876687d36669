SPECIFICATION Spec
CONSTANTS
  i1 = i1
  i2 = i2
  Invoices = {i1, i2}
  Amount <- TwoBills
  Payable = {1, 2}
  Workers = {w1, w2}
  None = None
SYMMETRY Interchangeable
INVARIANTS
  NeverOverpaid
  StatusFollowsPayments
PROPERTIES
  OverdueIsExact
  Serializable
