CONSTANTS
  m1 = m1
  m2 = m2
  m3 = m3
  Message = {m1, m2}
  Route <- MCOneRoute
  Setting <- MCFollowupOne
  MaxQueue = 1
  MaxArrivals = 1
  MaxFailures = 0
  MaxClears = 0
  MaxExpiries = 0
SPECIFICATION FairSpec
PROPERTY OverflowIsReported
CHECK_DEADLOCK FALSE
