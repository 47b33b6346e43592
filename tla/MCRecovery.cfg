SPECIFICATION RecoverySpec
CONSTANTS
  Policies = {"Drop"}
  Lens <- OneByte
  Blobs = {}
  None = None
  Lane = 2
  MaxOuts = 2
  MaxRecords = 3
  MaxOpens = 2
INVARIANTS TypeOK DoneAtMostOnce NotifiedBeforeCovered NoHoleInReplay ExactWhereSizeKnown
PROPERTY CatchesUp
CHECK_DEADLOCK FALSE
