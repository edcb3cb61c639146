SPECIFICATION FairSpec
CONSTANTS
  MaxCalls = 2
  MaxConns = 3
  MaxInstances = 2
  Lossy = TRUE
  Timeouts = TRUE
  Cancels = TRUE
INVARIANTS AtMostOnce OkMeansExecuted
PROPERTIES CallsReturn
CHECK_DEADLOCK FALSE
