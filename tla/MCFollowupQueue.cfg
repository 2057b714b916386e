CONSTANTS
  m1 = m1
  m2 = m2
  m3 = m3
  Message = {m1, m2, m3}
  Route <- MCRoutes
  Setting <- MCRoomy
  MaxQueue = 3
  MaxArrivals = 2
  MaxFailures = 1
  MaxClears = 0
  MaxExpiries = 0
SPECIFICATION FairSpec
INVARIANTS
  NothingLost
  DeliveryOrder
  BatchHasOneRoute
  DeliveredOnce
PROPERTIES
  AcceptedIsDelivered
  DrainedIsDelivered
CHECK_DEADLOCK FALSE
