SPECIFICATION FairSpec
CONSTANTS
  p1 = p1
  Jobs = {1, 2}
  Products = {p1}
  Tokens = {1, 2}
  Kinds = {"content"}
  MaxActive = 2
  MaxResumes = 1
  Faults = {}
  Limits = {2}
  Width = 1
  MaxRestarts = 1
INVARIANTS SlotPerRunningJob AskedByOneWorker NeverOvercounted
PROPERTIES NoStaleOverwrite JobsSettle
CHECK_DEADLOCK FALSE
