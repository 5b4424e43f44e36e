SPECIFICATION ServiceSpec
CONSTANTS
  o1 = o1 o2 = o2 p1 = p1 p2 = p2 r1 = r1 r2 = r2 c1 = c1 c2 = c2 k1 = k1 k2 = k2
  q1 = q1 q2 = q2 s1 = s1 s2 = s2 e1 = e1 e2 = e2 d1 = d1 d2 = d2
  Orders = {o1}
  PayPalIds = {p1}
  RefundIds = {r1}
  Creates = {c1}
  Captures = {k1}
  RefundRequests = {q1}
  Syncs = {s1}
  Edits = {e1}
  Deletes = {d1}
  Faults = {"lost"}
  EditStatuses = {"pending", "shipped"}
  EditPayments = {"pending"}
  MaxDeliveries = 2
  InitialStock = 1
  Total <- MCTotal
  Qty <- MCQty
  NoId = NoId
  Unplaced = Unplaced
  Deleted = Deleted
  NoRefund = NoRefund
INVARIANTS RecordedIsCaptured PaidMeansCaptured RefundStateHasRefund DeletedHasNoItems
CHECK_DEADLOCK FALSE
