SPECIFICATION Spec
CONSTANTS
    t1 = t1
    o1 = o1
    p1 = p1
    k1 = k1
    Threads = {t1}
    Ops = {o1}
    Peers = {p1}
    Backlog = 2
    EventLimit = 1
    MaxConns = 2
    MaxBinds = 2
    MaxEvents = 0
    MayClose = TRUE
    MayGarble = TRUE
    Tokens = {k1}
    Remembered = 2
INVARIANTS
    TypeOK
    SourceStaysFrozen
    NoEffectIsTrue
    SourceIsOut
    SupervisorIsTold
    RefusedTookNoEffect
PROPERTY
    SourceNeverWritesAgain
CHECK_DEADLOCK FALSE
