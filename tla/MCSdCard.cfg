SPECIFICATION Spec
CONSTANTS
    Blocks = 2
    Words = 2
    ZERO = ZERO
    CSD = CSD
    NULL = NULL
INVARIANTS Transferred NoWarning
PROPERTIES Answered
