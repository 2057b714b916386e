CONSTANTS
  once = once
  every = every
  daily = daily
  Job = {daily}
  Kind <- MCKind
  Period <- MCPeriod
  DeleteAfterRun = {}
  InitialJobs = {daily}
  Backoff <- MCBackoff
  MaxAttempts = 1
  RefireGap = 1
  StuckRun = 1
  RunConcurrency = 1
  MaxMissed = 1
  Stagger = 1
  Manual = {"m"}
  Outcome = {"ok"}
  Patches = {"enable", "disable"}
  BootTime = 2
  MaxTime = 4
  MaxService = 2
  MaxEdits = 1
SPECIFICATION CronSpec
INVARIANT TicksNeedLostMarker
CHECK_DEADLOCK FALSE
