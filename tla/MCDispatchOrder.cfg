SPECIFICATION MCSpec
CONSTANTS
    a1 = a1
    a2 = a2
    interactive = interactive
    report = report
    background = background
    Actor = {a1, a2}
    Priority = {interactive, report, background}
    Work <- MCWork
    ActorOf <- MCActorOf
    PriorityOf <- MCPriorityOf
    DispatchPattern <- MCPattern
    ActorLimit = 2
INVARIANTS NoLaneStarves RoundRobin
