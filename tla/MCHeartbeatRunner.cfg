CONSTANTS
  Target = {"all", "agent"}
  All = "all"
  Delay = {0}
  CoalesceDelay = 0
  RetryDelay = 1
  MaxHandler = 2
  MaxBatch = 2
  Requested = {3}
  MaxRequests = 1
  MaxUpdates = 1
SPECIFICATION HeartbeatFairSpec
INVARIANTS
  PendingWakeIsScheduled
  OneBatchUnlessReplaced
  IntervalGoesOn
PROPERTIES
  WakeReachesHandler
CHECK_DEADLOCK FALSE
