SPECIFICATION Spec
CONSTANTS
    Refs = {r1, r2, r3, r4}
    MaxLines = 1
SYMMETRY RefSymmetry
INVARIANTS
    TypeOK
    LostOnlyBehindACut
    ReaderMissesNothing
CHECK_DEADLOCK FALSE
