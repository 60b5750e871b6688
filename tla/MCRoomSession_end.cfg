CHECK_DEADLOCK FALSE
SPECIFICATION FairSpec
CONSTANT
    MaxSessions = 1
    MaxExtras = 1
PROPERTIES
    SessionEndIsShown
