\* One join; two remote streams, one of which may leave; two erizos.
CHECK_DEADLOCK FALSE
SPECIFICATION FairSpec
CONSTANTS
    RemoteIds = {1, 2}
    LocalIds = {}
    Erizos = {"e1", "e2"}
    NoErizo = "none"
    MaxJoins = 1
    MaxRemovals = 1
    MaxPublish = 0
INVARIANTS
    StreamsUnderWay
    AnswersInOrder
    ConnectionsMatch
    CrashNeedsCause
PROPERTIES
    StreamsAnswered
