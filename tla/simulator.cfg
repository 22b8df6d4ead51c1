SPECIFICATION FairSpec
CONSTANTS
    InfoSets <- MCInfoSets
    NumCpus = 2
    MaxFds = 9
    MaxTableId = 3
INVARIANTS
    TypeOK
    TasksOnTheirCpu
    EventTableExact
    FailureReleasesAll
    NothingFreedInUse
    RunIsTimed
PROPERTIES
    SimulatorSettles
