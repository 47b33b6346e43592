SPECIFICATION HandoffSpec
CONSTANTS
  s1 = s1
  s2 = s2
  Procs <- Three
  HeldBy <- OldHoldsOne
  Later = {s2}
  VorndWaits = "answer"
  MaxAdopts = 2
INVARIANTS TypeOK OneRunner NeverLost ToldIsTrue
PROPERTIES HandingEnds
CHECK_DEADLOCK FALSE
