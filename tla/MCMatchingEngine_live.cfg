CONSTANTS
  Orders = {o1, o2, o3}
  MaxPrice = 2
  Prices = {1}
  Requests <- LiveRequests
  Nobody = Nobody
SPECIFICATION FairSpec
PROPERTIES
  CallsReturn
CHECK_DEADLOCK FALSE
