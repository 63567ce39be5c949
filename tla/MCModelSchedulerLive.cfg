SPECIFICATION FairSpec
CONSTANTS
    w1 = w1
    w2 = w2
    w3 = w3
    a1 = a1
    a2 = a2
    interactive = interactive
    background = background
    Work = {w1, w2}
    Actor = {a1, a2}
    Priority = {interactive, background}
    ActorOf <- MCActorOf
    PriorityOf <- MCPriorityOf
    DispatchPattern <- MCPattern
    Cancellable = {w2}
    Maximum = 1
    QueueLimit = 10
    ActorLimit = 2
    Threshold = 1
    NoPermit = NoPermit
PROPERTIES EverySubmissionSettles ShutdownCompletes StaleSettlesAnyway
CHECK_DEADLOCK FALSE
