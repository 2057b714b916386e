CONSTANTS
  t1 = t1
  t2 = t2
  t3 = t3
  t4 = t4
  Lane = {"a", "b"}
  Task = {t1, t2, t3, t4}
  LaneOf <- MCLaneOf
  Waiter = {"w"}
  Concurrency = {0, 2}
  MaxGeneration = 1
SPECIFICATION Spec
SYMMETRY MCSymmetry
INVARIANTS
  TypeOK
  NoIdleLane
  ArrivalOrder
  NoMissedNotification
  DrainedIsTrue
PROPERTIES
  SettlesOnce
CHECK_DEADLOCK FALSE
