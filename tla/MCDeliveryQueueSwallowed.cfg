CONSTANTS
  e1 = e1
  e2 = e2
  Entry = {e1}
  MaxRetries = 2
  MaxLife = 2
  MaxFaults = 1
  BestEffort = TRUE
  LiveDuringRecovery = FALSE
  InProcess = FALSE
SPECIFICATION Spec
INVARIANT NeverForgotten
CHECK_DEADLOCK FALSE
