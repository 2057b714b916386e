CONSTANTS
  q1 = q1
  q2 = q2
  Id = {q1, q2}
  Slug = {"slug"}
  IdsOfSlug <- MCIdsOfSlug
  Policy <- MCPolicy
  Lifetime = 2
  Grace = 2
  Latency = 1
  MaxTime = 3
  MaxInvokes = 2
SPECIFICATION FairSpec
INVARIANTS
  AllowOnceRunsOnce
  DeniedNeverRuns
  FreshApprovalIsAdmitted
PROPERTY EveryRequestEnds
CHECK_DEADLOCK FALSE
