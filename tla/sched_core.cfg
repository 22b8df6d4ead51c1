SPECIFICATION FairSpec
CONSTANTS
    hi = hi
    lo = lo
    shot = shot
    NoTask = NoTask
    Tasks = {hi, lo, shot}
    SingleShot = {shot}
    Priority <- MCPriority
    Period <- MCPeriod
    NumTables = 2
    Eps <- TwoTables
    StdoutMayBlock = FALSE
INVARIANTS
    TypeOK
    StrictInv
    QueueConsistent
    WaitingMeansInJob
    RunsMostUrgent
    PreemptedByTick
    NoJobLost
    OneRunning
PROPERTIES
    EnqueuedOncePerTick
    ImplementsOsekTasks
    StartupCompletes
    TickConsumed
