SPECIFICATION Spec
CONSTANTS
    Msgs = {m1}
    Nobody = Nobody
    Releaser = Releaser
    MaxHelpers = 2
    Mortal = {}
    StatusPolled = {}
    StoreMayFail = TRUE
INVARIANT
    AtMostOneFrame
CHECK_DEADLOCK FALSE
