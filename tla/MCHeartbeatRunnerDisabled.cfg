CONSTANTS
  Target = {"all", "agent"}
  All = "all"
  Delay = {0}
  CoalesceDelay = 0
  RetryDelay = 1
  MaxHandler = 1
  MaxBatch = 2
  Requested = {3}
  MaxRequests = 1
  MaxUpdates = 2
SPECIFICATION HeartbeatSpec
INVARIANT EnableTurnsHeartbeatsOn
CHECK_DEADLOCK FALSE
