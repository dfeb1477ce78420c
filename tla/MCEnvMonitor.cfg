SPECIFICATION FairMonitorSpec
CHECK_DEADLOCK FALSE
CONSTANTS
  m1 = m1
  m2 = m2
  w1 = w1
  Monitors = {m1, m2}
  Writers = {w1}
  Updates = 1
  Nobody = Nobody
INVARIANTS MonitorInv
PROPERTIES NewestIsShownToEach EachMonitorEnds UpdateReturns
