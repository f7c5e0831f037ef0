SPECIFICATION Spec
CONSTANTS
    t1 = t1
    p1 = p1
    Threads = {t1}
    Ops = {}
    Peers = {p1}
    Tokens = {}
    Backlog = 2
    EventLimit = 1
    MaxConns = 2
    MaxBinds = 2
    MaxEvents = 2
    MayClose = FALSE
    MayGarble = FALSE
    WireCap = 1
INVARIANTS
    TypeOK
    AuthorityArrives
    CaughtUp
    NoGap
    SupervisorIsTold
CHECK_DEADLOCK FALSE
