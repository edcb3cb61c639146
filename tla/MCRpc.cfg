SPECIFICATION Spec
CONSTANTS
  MaxCalls = 4
  MaxConns = 2
  MaxInstances = 1
  Lossy = TRUE
  Timeouts = TRUE
  Cancels = FALSE
INVARIANTS AtMostOnce NeverForgotten FrontierExact WindowSorted AddReplyFindsInTime
CHECK_DEADLOCK FALSE
