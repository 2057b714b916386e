CONSTANTS
  once = once
  every = every
  daily = daily
  Job = {once, every}
  Kind <- MCKind
  Period <- MCPeriod
  DeleteAfterRun = {}
  InitialJobs = {once}
  Backoff <- MCBackoff
  MaxAttempts = 1
  RefireGap = 1
  StuckRun = 0
  RunConcurrency = 1
  MaxMissed = 1
  Stagger = 1
  Manual = {"m"}
  Outcome = {"ok", "skipped", "transient", "permanent"}
  Patches = {"enable", "disable", "schedule", "edit"}
  BootTime = 2
  MaxTime = 3
  MaxService = 1
  MaxEdits = 1
SPECIFICATION CronSpec
INVARIANTS
  OverlapNeedsLostMarker
  MarkerHasRun
  SchedulerAwake
PROPERTIES
  OneShotNotRepeated
  DueSlotsAreKept
CHECK_DEADLOCK FALSE
