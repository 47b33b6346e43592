SPECIFICATION Spec
CONSTANTS
    Clients = {c1}
    Styles = {s1, s2}
    FirstHeight = 2
    Heights = {1, 2}
    HistCap = 2
    LogLen = 1
    MaxStyles = 2
    Credits = 1
    HistoryTail = 1
    MaxOps = 3
    MaxEvents = 3
SYMMETRY Symmetry
INVARIANTS
    MirrorShowsGrid
    GridCatchesUp
CHECK_DEADLOCK FALSE
