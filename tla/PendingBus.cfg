SPECIFICATION FairPendingSpec
CONSTANTS
    Jobs = {j1}
    Conns = {c1}
    Events = {e1}
    NoEvent = NoEvent
    Parts = {k1}
    Missing = Missing
    MaxChanges = 2
INVARIANTS NobodyLeftBehind EventKept
PROPERTY BellCatchesUp
CHECK_DEADLOCK FALSE
