CONSTANTS
  once = once
  every = every
  daily = daily
  Job = {once, daily}
  Kind <- MCKind
  Period <- MCPeriod
  DeleteAfterRun = {once}
  InitialJobs = {once, daily}
  Backoff <- MCBackoff
  MaxAttempts = 1
  RefireGap = 1
  StuckRun = 2
  RunConcurrency = 1
  MaxMissed = 1
  Stagger = 1
  Manual = {}
  Outcome = {"ok", "transient"}
  Patches = {"enable", "disable"}
  BootTime = 2
  MaxTime = 4
  MaxService = 2
  MaxEdits = 0
SPECIFICATION CronSpec
PROPERTY StartKeepsNewlyDue
CHECK_DEADLOCK FALSE
