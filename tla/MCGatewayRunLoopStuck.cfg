CONSTANTS
  t1 = t1
  t2 = t2
  t3 = t3
  Lane = {"session"}
  Task = {t1, t2}
  LaneOf <- MCLaneOf
  Waiter <- MCWaiter
  Concurrency = {1}
  MaxGeneration = 1
  MaxRestarts = 1
  Hung = {}
  InProcess = TRUE
  StartMayFail = FALSE
  SignalInStartup = TRUE
SPECIFICATION LoopFairSpec
PROPERTY DrainWindowEnds
CHECK_DEADLOCK FALSE
