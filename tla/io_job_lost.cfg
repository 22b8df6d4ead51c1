SPECIFICATION Spec
CONSTANTS
    hi = hi
    lo = lo
    shot = shot
    NoTask = NoTask
    Tasks = {hi, lo, shot}
    SingleShot = {shot}
    Priority <- MCPriority
    Period <- MCPeriod
    NumTables = 1
    Eps <- OneTable
    StdoutMayBlock = TRUE
INVARIANTS
    NoJobLost
