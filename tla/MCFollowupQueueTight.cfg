CONSTANTS
  m1 = m1
  m2 = m2
  m3 = m3
  Message = {m1, m2, m3}
  Route <- MCOneRoute
  Setting <- MCTight
  MaxQueue = 2
  MaxArrivals = 2
  MaxFailures = 1
  MaxClears = 1
  MaxExpiries = 1
SPECIFICATION Spec
INVARIANTS
  NeverQueuedTwice
PROPERTY AcceptsWithinCap
CHECK_DEADLOCK FALSE
SYMMETRY MCSymmetry
