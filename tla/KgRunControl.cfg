SPECIFICATION FairControlSpec
CONSTANTS
    Job = Job
    Child = {c1, c2}
    Thread = {t1, t2}
    Failure = {f1, f2}
    NoFailure = NoFailure
INVARIANTS AbortIsPublished EveryChildWoken
PROPERTY CallsReturn
