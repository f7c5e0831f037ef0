SPECIFICATION FairSpec
CONSTANTS
    Msgs = {m1}
    Nobody = Nobody
    Releaser = Releaser
    MaxHelpers = 1
    Mortal = {m1}
    StatusPolled = {m1}
    StoreMayFail = TRUE
PROPERTIES
    SendsFinish
    ReleaseEnds
CHECK_DEADLOCK FALSE
