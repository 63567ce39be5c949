SPECIFICATION Spec
CONSTANTS
    w1 = w1
    w2 = w2
    w3 = w3
    a1 = a1
    a2 = a2
    interactive = interactive
    background = background
    Work = {w1, w2, w3}
    Actor = {a1, a2}
    Priority = {interactive, background}
    ActorOf <- MCActorOf
    PriorityOf <- MCPriorityOf
    DispatchPattern <- MCPattern
    Cancellable = {w2}
    Maximum = 1
    QueueLimit = 2
    ActorLimit = 2
    Threshold = 1
    NoPermit = NoPermit
INVARIANTS NoLostWakeup OnlyProbeWaits
PROPERTIES SettledOnce UsesBreakerProperly
CHECK_DEADLOCK FALSE
