SPECIFICATION FairSpec
CONSTANTS
    RequestSets <- MCRequestSets
    MaxTasks = 3
    ResetSlice = 3
    Delays = {0, 1, 2}
    BootTicks = 2
INVARIANTS
    TypeOK
    CurrentTaskWorks
    MostUrgentWorks
    CandidateFresh
    OwnSlot
    

    
