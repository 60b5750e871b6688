\* The application makes a bounded number of calls.
CHECK_DEADLOCK FALSE
SPECIFICATION FairSpec
CONSTANT
    MaxCalls = 3
INVARIANTS
    PromiseKept
    ResultFromServer
PROPERTIES
    CallsReturn
