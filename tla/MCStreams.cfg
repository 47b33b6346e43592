SPECIFICATION StreamSpec
CONSTANTS
  Conns = {c1, c2}
  None = None
  TailCap = 1
  QueueCap = 0
  MaxRecords = 2
  MaxAttaches = 2
  MaxLane = 1
  MaxBreaks = 1
INVARIANTS
  TypeOK
  ClientsSeeRuns
  AnsweredOnce
  BehindCatchesUp
  OutputReachesHub
CHECK_DEADLOCK FALSE
