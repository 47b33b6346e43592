SPECIFICATION StreamSpec
CONSTANTS
  Conns = {c1}
  None = None
  TailCap = 1
  QueueCap = 0
  MaxRecords = 3
  MaxAttaches = 2
  MaxLane = 2
  MaxBreaks = 0
INVARIANT OutputAlwaysReachesHub
CHECK_DEADLOCK FALSE
