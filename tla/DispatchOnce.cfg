SPECIFICATION Spec
CONSTANTS
    Msgs = {m1}
    Nobody = Nobody
    Releaser = Releaser
    MaxHelpers = 2
    Mortal = {m1}
    StatusPolled = {m1}
    StoreMayFail = FALSE
INVARIANTS
    TypeOK
    AtMostOneFrame
    OnlyStatusMisleads
CHECK_DEADLOCK FALSE
