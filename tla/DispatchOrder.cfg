SPECIFICATION Spec
CONSTANTS
    Msgs = {m1, m2}
    Nobody = Nobody
    Releaser = Releaser
    MaxHelpers = 1
    Mortal = {}
    StatusPolled = {}
    StoreMayFail = FALSE
SYMMETRY MsgSymmetry
INVARIANT
    NoLostHold
PROPERTY
    NoOvertaking
CHECK_DEADLOCK FALSE
