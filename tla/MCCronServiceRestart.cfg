CONSTANTS
  once = once
  every = every
  daily = daily
  Job = {once, daily}
  Kind <- MCKind
  Period <- MCPeriod
  DeleteAfterRun = {once}
  InitialJobs = {once, daily}
  Backoff <- MCBackoff
  MaxAttempts = 1
  RefireGap = 1
  StuckRun = 0
  RunConcurrency = 1
  MaxMissed = 1
  Stagger = 1
  Manual = {}
  Outcome = {"ok", "transient"}
  Patches = {"enable", "disable"}
  BootTime = 2
  MaxTime = 3
  MaxService = 2
  MaxEdits = 0
SPECIFICATION CronFairSpec
INVARIANT TicksNeedLostMarker
PROPERTY DueJobsRun
CHECK_DEADLOCK FALSE
