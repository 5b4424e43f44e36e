SPECIFICATION FairSpec
CONSTANTS
  Requests = {"r1", "r2", "r3"}
  Jobs = {1, 2}
  Workers = {1}
  ReadsFail = TRUE
INVARIANTS NoForgottenWaiter
PROPERTIES ImplementsSemaphore EveryoneServed
CHECK_DEADLOCK FALSE
