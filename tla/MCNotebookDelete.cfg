SPECIFICATION FairSpec
CONSTANTS
    p1 = p1
    p2 = p2
    Process <- MCProcess
    Writer = {w1}
    Units = 2
    MaxAttempts = 2
    MaxTrouble = 1
    Nobody = Nobody
    Known = Known
INVARIANTS UndoHolds QuiescedBeforeRows ArchivedOnce NoFileLeft
PROPERTIES OwnerEnds DeletionEnds
CHECK_DEADLOCK FALSE
