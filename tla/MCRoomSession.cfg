\* A room that is not joined, and not joined again, has nothing left to do.
CHECK_DEADLOCK FALSE
SPECIFICATION FairSpec
CONSTANT
    MaxSessions = 2
    MaxExtras = 1
INVARIANTS
    JoinUnderWay
    OldSessionsMute
    TokenOncePerSession
    SelfJoinNeedsCause
PROPERTIES
    JoinedByCurrentSession
    AbandonedStaysSo
    LoopsEnd
    JoinEnds
