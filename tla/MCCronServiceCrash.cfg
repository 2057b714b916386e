CONSTANTS
  once = once
  every = every
  daily = daily
  Job = {once, daily}
  Kind <- MCKind
  Period <- MCPeriod
  DeleteAfterRun = {}
  InitialJobs = {once}
  Backoff <- MCBackoff
  MaxAttempts = 1
  RefireGap = 1
  StuckRun = 0
  RunConcurrency = 1
  MaxMissed = 1
  Stagger = 1
  Manual = {"m"}
  Outcome = {"ok"}
  Patches = {"enable", "disable"}
  BootTime = 2
  MaxTime = 3
  MaxService = 2
  MaxEdits = 1
SPECIFICATION MCCrashSpec
INVARIANT MarkerHasRun
CHECK_DEADLOCK FALSE
