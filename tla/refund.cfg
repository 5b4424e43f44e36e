SPECIFICATION RefundSpec
CONSTANTS
  o1 = o1 o2 = o2 p1 = p1 p2 = p2 r1 = r1 r2 = r2 r3 = r3
  q1 = q1 q2 = q2 s1 = s1 s2 = s2
  Orders = {o1}
  PayPalIds = {p1}
  RefundIds = {r1, r2}
  RefundRequests = {q1, q2}
  Syncs = {s1}
  Faults = {"lost", "database", "crash"}
  InitialStock = 0
  Total <- MCTotal
  Qty <- MCQty
  NoId = NoId
  Unplaced = Unplaced
  Deleted = Deleted
  NoRefund = NoRefund
INVARIANTS RestockedOnce RefundPendingHasRefund RefundedIsSettled RefundsWithinTotal
CHECK_DEADLOCK FALSE
