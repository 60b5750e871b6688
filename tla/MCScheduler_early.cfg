CHECK_DEADLOCK FALSE
SPECIFICATION Spec
CONSTANTS
    t1 = t1
    t2 = t2
    Threads = {t1, t2}
    Points = {0, 1}
    MaxFunctions = 2
    MaxTime = 1
PROPERTIES
    NeverEarly
