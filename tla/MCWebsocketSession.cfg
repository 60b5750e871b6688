\* After a failure or a disconnect the session has nothing left to do.
CHECK_DEADLOCK FALSE
SPECIFICATION FairSpec
CONSTANTS
    MaxMsgs = 4
    MaxReads = 2
    MaxPosted = 4
INVARIANTS
    OneWriter
    OpenIsWritable
    ReportedOnce
PROPERTIES
    ImplementsChannel
    Flushed
    ConnectEnds
