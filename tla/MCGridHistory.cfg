SPECIFICATION Spec
CONSTANTS
    Clients = {c1}
    Styles = {s1, s2}
    FirstHeight = 2
    Heights = {}
    HistCap = 2
    LogLen = 1
    MaxStyles = 2
    Credits = 2
    HistoryTail = 0
    MaxOps = 3
    MaxEvents = 1
SYMMETRY Symmetry
INVARIANTS
    HistoryIsTrue
CHECK_DEADLOCK FALSE
