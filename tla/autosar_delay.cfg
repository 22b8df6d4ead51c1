SPECIFICATION FairSpec
CONSTANTS
    RequestSets <- Overtaken
    MaxTasks = 2
    ResetSlice = 3
    Delays = {2}
    BootTicks = 2
PROPERTIES
    DelayEnds
