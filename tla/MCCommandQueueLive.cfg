CONSTANTS
  t1 = t1
  t2 = t2
  t3 = t3
  t4 = t4
  Lane = {"a", "b"}
  Task = {t1, t2, t4}
  LaneOf <- MCLaneOf
  Waiter = {}
  Concurrency = {1, 2}
  MaxGeneration = 2
SPECIFICATION FairSpec
PROPERTY AcceptedSettles
CHECK_DEADLOCK FALSE
