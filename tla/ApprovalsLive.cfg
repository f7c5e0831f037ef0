SPECIFICATION FairSpec
CONSTANTS
    q1 = q1
    q2 = q2
    Requests = {q1, q2}
    Call <- MCCall
    MaxRecords = 1
    Retention = 0
    Window = 1
    GiveUp = 0
    MaxTime = 2
    Prompted = {q1}
    Mortal = {q2}
    MayFail = TRUE
    MaxLogFaults = 0
PROPERTIES
    HookEnds
    AnswerIsHeard
CHECK_DEADLOCK FALSE
