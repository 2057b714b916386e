CONSTANTS
  m1 = m1
  m2 = m2
  m3 = m3
  Message = {m1, m2}
  Route <- MCOneRoute
  Setting <- MCRoomy
  MaxQueue = 2
  MaxArrivals = 1
  MaxFailures = 0
  MaxClears = 0
  MaxExpiries = 0
SPECIFICATION FairSpec
PROPERTY NextTurnAfterRun
CHECK_DEADLOCK FALSE
