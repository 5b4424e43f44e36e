SPECIFICATION FairSpec
CONSTANTS
  Prompts = {p1}
  Resumptions = {r1}
  Stored = {c1}
  MaxDeletes = 1
  StoreFails = FALSE
  None = None
  MaxLoads = 1
INVARIANTS OneRunPerConversation FinalIsStored StreamsAreWhole NoLostWakeup SendingHasOwner
PROPERTIES WidgetFreed
CHECK_DEADLOCK FALSE
