SPECIFICATION Spec
CONSTANTS
    TaskSets <- SingleShotSets
    MsPerSecond = 4
    NsPerMs = 2
    IntHalf = 17
    Horizon = 36
INVARIANTS
    SingleShotTableStops
