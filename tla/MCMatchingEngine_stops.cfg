CONSTANTS
  Orders = {o1, o2, o3}
  MaxPrice = 2
  Prices = {1, 2}
  Requests <- StopRequests
  Nobody = Nobody
SPECIFICATION Spec
SYMMETRY Symmetry
INVARIANTS
  StopsRunInTurn
PROPERTIES
  ImplementsExchange
CHECK_DEADLOCK FALSE
