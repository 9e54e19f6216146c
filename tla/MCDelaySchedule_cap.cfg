SPECIFICATION Spec
CONSTANTS
    FloatMax = 200
    U64Max = 12
    AttemptMax = 8
    Scalars <- MCScalars
    Policies <- MCConstant
    LastAttempt = 9
INVARIANT CapHolds
