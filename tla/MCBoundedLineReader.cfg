SPECIFICATION Spec
CONSTANTS
    MaximumLength = 3
    BufferLength = 2
    Inputs <- MCInputs
INVARIANTS
    TypeOK
    FramingIndependentOfPieces
CHECK_DEADLOCK FALSE
