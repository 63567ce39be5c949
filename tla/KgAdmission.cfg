SPECIFICATION FairSpec
CONSTANTS
    Analysis = {b1, b2}
    Pipeline = {p1}
    Erasure = {e1}
    Pass = {m1}
    Deletion = {d1}
    Nobody = Nobody
    Other = Other
INVARIANTS OneAtATime MarkerIsOwned TailFindsSlotFree ResultKept
PROPERTIES FirstWins ClaimsGivenBack
CHECK_DEADLOCK FALSE
