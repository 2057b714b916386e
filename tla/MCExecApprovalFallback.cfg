CONSTANTS
  q1 = q1
  q2 = q2
  Id = {q1}
  Slug = {}
  IdsOfSlug <- MCIdsOfSlug
  Policy <- MCNodeFull
  Lifetime = 2
  Grace = 2
  Latency = 1
  MaxTime = 3
  MaxInvokes = 1
SPECIFICATION Spec
INVARIANT FullFallbackRuns
CHECK_DEADLOCK FALSE
