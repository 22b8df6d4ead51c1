SPECIFICATION Spec
CONSTANTS
    TaskSets <- MCTaskSets
    MsPerSecond = 4
    NsPerMs = 2
    IntHalf = 17
    Horizon = 32
INVARIANTS
    TypeOK
    DurationIsLcm
    ReleasesAreExact
    ExtendedNotReleased
    NeverEarly
    TimerKept
