SPECIFICATION FairSpec
CONSTANTS
    Analysis = {b1}
    Pipeline = {}
    Erasure = {}
    Pass = {m1}
    Deletion = {}
    Nobody = Nobody
    Other = Other
PROPERTIES ReservationReleased
CHECK_DEADLOCK FALSE
