CONSTANTS
  t1 = t1
  t2 = t2
  t3 = t3
  Lane = {"session"}
  Task = {t1, t2}
  LaneOf <- MCLaneOf
  Waiter <- MCWaiter
  Concurrency = {1}
  MaxGeneration = 2
  MaxRestarts = 2
  Hung = {}
  InProcess = TRUE
  StartMayFail = TRUE
  SignalInStartup = FALSE
SPECIFICATION LoopSpec
INVARIANT ServerHoldsLock
CHECK_DEADLOCK FALSE
