\* The clock, the starts and the tasks are bounded.
CHECK_DEADLOCK FALSE
SPECIFICATION FairSpec
CONSTANTS
    Period = 2
    Unit = 2
    MaxTasks = 2
    MaxStarts = 2
    MaxRounds = 2
    MaxTime = 4
INVARIANTS
    NothingLost
    StopDrains
    NoDrift
PROPERTIES
    StopReturns
    TasksRun
    TurnsGoOn
