\* The pool of ThreadPool: Scheduler(2).
CHECK_DEADLOCK FALSE
SPECIFICATION FairSpec
CONSTANTS
    t1 = t1
    t2 = t2
    Threads = {t1, t2}
    Points = {1, 2}
    MaxFunctions = 3
    MaxTime = 2
INVARIANTS
    NoLostWakeup
    ExactlyOnce
    StoppedIsQuiet
    DrainIsComplete
PROPERTIES
    EventuallyExecuted
    StopReturns
