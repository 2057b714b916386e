CONSTANTS
  t1 = t1
  t2 = t2
  t3 = t3
  Lane = {"session"}
  Task = {t1, t2, t3}
  LaneOf <- MCLaneOf
  Waiter <- MCWaiter
  Concurrency = {1}
  MaxGeneration = 3
  MaxRestarts = 3
  Hung = {t1}
  InProcess = FALSE
  StartMayFail = TRUE
  SignalInStartup = FALSE
SPECIFICATION LoopFairSpec
INVARIANTS
  DrainReportsEnd
  LockKeptAcrossRestarts
PROPERTIES
  ResetBetweenServers
  DrainWindowEnds
  PreservedWorkRuns
CHECK_DEADLOCK FALSE
