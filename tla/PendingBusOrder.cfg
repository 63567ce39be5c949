SPECIFICATION PendingSpec
CONSTANTS
    Jobs = {j1, j2}
    Conns = {c1}
    Events = {}
    NoEvent = NoEvent
    Parts = {k1}
    Missing = Missing
    MaxChanges = 2
PROPERTY DroppedIsNoNewer
CHECK_DEADLOCK FALSE
