SPECIFICATION LogSpec
CONSTANTS
  RingBudget = 4
  SpoolBudget = 6
  PoolCap = 7
  Policies = {"Drop", "Block"}
  IoFails = TRUE
  Lens = {1, 4}
  Blobs = {b}
  OthersHold = {0, 4}
  None = None
  MaxRecords = 5
  MaxProduced = 9
INVARIANTS TypeOK RunIsContiguous RecoveryBaseHeld LossAccounted LimitsKept BatchIsPrefix CheckpointsReleaseBlock
PROPERTIES AppendsInOrder RecoveryNeverRegresses KeepsContract
CHECK_DEADLOCK FALSE
