SPECIFICATION DeliverySpec
CONSTANTS
  Tasks = {t1, t2}
  None = None
  MaxAttempts = 2
  MaxRuns = 2
  MaxClaims = 2
  MaxLapses = 0
  MaxRestarts = 1
  MaxAnswers = 2
SYMMETRY Symmetry
INVARIANTS DeliveryTypeOK ProcessedWasDecided
CHECK_DEADLOCK FALSE
