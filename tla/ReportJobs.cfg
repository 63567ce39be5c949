SPECIFICATION FairSpec
CONSTANTS
    Creator = n
    Confirm = {p1}
    Generate = {g1, g2}
    Edit = {e1}
    Cancel = {c1}
    Delete = {d1}
    None = None
    Capacity = 1
INVARIANTS OneOwner CancelStops DoneMatchesOutline
PROPERTY ReportSettles
CHECK_DEADLOCK FALSE
