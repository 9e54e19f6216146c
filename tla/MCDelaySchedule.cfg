SPECIFICATION Spec
CONSTANTS
    FloatMax = 200
    U64Max = 12
    AttemptMax = 8
    Scalars <- MCScalars
    Policies <- MCPolicies
    LastAttempt = 9
INVARIANTS
    TypeOK
    DelayInWindow
    CapKept
    PolicyAgrees
    NativeAgrees
PROPERTIES
    DelaysGrow
