SPECIFICATION Spec
CONSTANTS
  o1 = o1 o2 = o2 o3 = o3 o4 = o4 a = a b = b
  Orders = {o1, o2, o3}
  Customers = {a, b}
  CustomerOf <- MCCustomerOf

  Editors = {"edit"}
  Deleters = {"delete"}
  Limits <- MCLimits
  UserLimits <- MCUserLimits
  NoLimit = NoLimit
  NoCoupon = NoCoupon
INVARIANTS UsageLimitRespected CheckoutsCountRight UsedCountNeverOvercounts ReferenceHasUsage
CHECK_DEADLOCK FALSE
