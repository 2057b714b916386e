CONSTANTS
  e1 = e1
  e2 = e2
  Entry = {e1, e2}
  MaxRetries = 2
  MaxLife = 3
  MaxFaults = 2
  BestEffort = FALSE
  LiveDuringRecovery = FALSE
  InProcess = FALSE
SPECIFICATION Spec
INVARIANTS
  DuplicatesNeedFaults
  AttemptsBounded
  NeverForgotten
PROPERTY ImplementsOutbox
CHECK_DEADLOCK FALSE
