SPECIFICATION Spec
CONSTANTS
  p1 = p1
  Jobs = {1, 2}
  Products = {p1}
  Tokens = {1, 2}
  Kinds = {"category", "listing"}
  MaxActive = 2
  MaxResumes = 1
  Faults = {"claim", "read", "finalize", "release"}
  Limits = {2}
  Width = 1
  MaxRestarts = 0
INVARIANTS OneJobPerProduct SweptIsWhole EndedIsReleased
CHECK_DEADLOCK FALSE
