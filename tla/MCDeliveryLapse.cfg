SPECIFICATION DeliverySpec
CONSTANTS
  Tasks = {t1, t2}
  None = None
  MaxAttempts = 3
  MaxRuns = 2
  MaxClaims = 3
  MaxLapses = 1
  MaxRestarts = 0
  MaxAnswers = 0
PROPERTIES NoSecondRun
CHECK_DEADLOCK FALSE
