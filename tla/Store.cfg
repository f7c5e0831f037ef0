SPECIFICATION Spec
CONSTANTS
    A = A
    B = B
    X = X
    Agents = {A, B, X}
    Claude = {A, B}
    Refs = {1, 2, 3, 4}
    NoRef = 0
    Routes <- MCRoutes
    NoRoute = NoRoute
    Payloads = {"text"}
    NoRecord = NoRecord
    MaxTTL = 2
    MaxRecords = 3
    Retention = 1
    MaxProtected = 1
    MaxLag = 1
    MaxTime = 2
    Drafts <- MCDrafts
    Outcomes <- MCOutcomes
INVARIANTS
    TypeOK
    SingleReply
    WithinCapacity
PROPERTIES
    ReclaimIsLogged
    ReplyGroupsLeaveTogether
    NoEarlyReclaim
    ReceiptsAreFinal
CHECK_DEADLOCK FALSE
