CONSTANTS
  Orders = {o1, o2, o3}
  MaxPrice = 2
  Prices = {1, 2}
  Requests <- BookRequests
  Nobody = Nobody
SPECIFICATION Spec
SYMMETRY Symmetry
INVARIANTS
  TypeOK
  BookUncrossed
  BookAgreesWithOrders
  FillsMatchTrades
  LimitsRespected
PROPERTIES
  PriceTimePriority
  ClosedIsFinal
CHECK_DEADLOCK FALSE
