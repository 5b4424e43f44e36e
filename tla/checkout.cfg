SPECIFICATION FairCheckoutSpec
CONSTANTS
  o1 = o1 o2 = o2 p1 = p1 p2 = p2 c1 = c1 c2 = c2 k1 = k1 k2 = k2
  Orders = {o1, o2}
  PayPalIds = {p1, p2}
  RefundIds = {}
  Creates = {c1, c2}
  Captures = {k1, k2}
  MaxDeliveries = 2
  InitialStock = 2
  Total <- MCTotal
  Qty <- MCQty
  NoId = NoId
  Unplaced = Unplaced
  Deleted = Deleted
  NoRefund = NoRefund
INVARIANTS FinalizedOnce PaidOnlyIfCaptured StockConserved
PROPERTIES ImplementsLedger CapturedIsPaid
CHECK_DEADLOCK FALSE
