CONSTANTS
  e1 = e1
  e2 = e2
  Entry = {e1}
  MaxRetries = 2
  MaxLife = 2
  MaxFaults = 0
  BestEffort = FALSE
  LiveDuringRecovery = TRUE
  InProcess = FALSE
SPECIFICATION Spec
PROPERTY AckedNeverResent
CHECK_DEADLOCK FALSE
