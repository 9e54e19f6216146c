SPECIFICATION Spec
CONSTANTS
    Refused = Refused
    Timeout = Timeout
    NoError = NoError
    Errors <- MCErrors
    Strategies <- MCStrategies
    Policies <- MCPolicies
    Scalars <- MCScalars
    FloatMax = 200
    AttemptMax = 4
    U64Max = 12
    MaxCalls = 5
INVARIANTS
    TypeOK
    CallBudget
    AnnouncedRetries
    WaitBounded
PROPERTIES
    ImplementsContract
    CallReturns
