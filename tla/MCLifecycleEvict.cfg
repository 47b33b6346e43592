SPECIFICATION LifecycleSpec
CONSTANTS
  Keys = {k1, k2}
  Callers = {a, b}
  None = None
  Cap = 1
  MaxCrashes = 1
  MaxSlots = 4
  MaxStarts = 3
  MaxExits = 2
SYMMETRY Symmetry
INVARIANT LeasedNeverEvicted
CHECK_DEADLOCK FALSE
