CONSTANTS
  Run = {"chat", "job", "ask"}
  SessionKey <- MCSessionKey
  LaneParam <- MCLaneParam
  Manual = {"job"}
  SendsTo <- MCSendsTo
  Limits <- MCLimits
  Lane <- MCLane
  Task <- MCTask
  LaneOf <- MCLaneOf
  Waiter = {}
  Concurrency = {}
  MaxGeneration = 1
SPECIFICATION LanesFairSpec
INVARIANTS
  OneRunPerSession
PROPERTY EveryRunSettles
CHECK_DEADLOCK FALSE
