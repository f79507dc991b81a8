SPECIFICATION FairSpec
CONSTANTS
    MaxTasks = 3
    LowestPrio = 1
    Priorities <- MCPriorities
    Periods <- MCPeriods
    SettableStates <- MCSettable
    TickMod = 5
INVARIANTS
    TypeOK
    OnTime
    NoInversion
PROPERTIES
    ReleasesServed
    BlockHolds
    StarvationFree
    RoundRobinFair
