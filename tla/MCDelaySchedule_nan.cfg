SPECIFICATION Spec
CONSTANTS
    FloatMax = 200
    U64Max = 12
    AttemptMax = 8
    Scalars <- MCScalars
    Policies <- MCNaNJitter
    LastAttempt = 9
INVARIANT JitterClamped
