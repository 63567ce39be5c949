SPECIFICATION HSpec
CONSTANTS
    Holder = {h1, h2, h3, h4, h5}
    Threshold = 3
    NoPermit = NoPermit
INVARIANT SingleProbe
PROPERTIES AdmitsAgain LateAnswerIsInert OpensOnEvidence
CHECK_DEADLOCK FALSE
