SPECIFICATION Spec
CONSTANTS
    Msgs = {m1}
    Nobody = Nobody
    Releaser = Releaser
    MaxHelpers = 1
    Mortal = {}
    StatusPolled = {m1}
    StoreMayFail = FALSE
INVARIANT
    KnownFailureIsTrue
CHECK_DEADLOCK FALSE
