SPECIFICATION FairSpec
CONSTANTS
  o1 = o1
  o2 = o2
  p1 = p1
  p2 = p2
  Orders = {o1, o2}
  Products = {p1, p2}
  Lines <- TwoOrders
  Units <- RunningUnits
  Opening <- ScarceStock
  Changes <- Restocks
  Workers = {w1, w2}
  Surveys <- BothWays
  MaxAdjustments = 2
  None = None
INVARIANTS
  TypeOK
  StockMatchesLedger
  BookedOnce
PROPERTIES
  Serializable
  EveryCallEnds
