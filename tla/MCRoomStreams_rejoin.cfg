\* Two joins; a remote stream and two of our own; one erizo.
CHECK_DEADLOCK FALSE
SPECIFICATION Spec
CONSTANTS
    RemoteIds = {1}
    LocalIds = {11, 12}
    Erizos = {"e1"}
    NoErizo = "none"
    MaxJoins = 2
    MaxRemovals = 0
    MaxPublish = 2
INVARIANTS
    AnswerFindsPending
    OwnStreamsStayLocal
