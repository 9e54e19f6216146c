SPECIFICATION TestSpec
CONSTANTS
    Retryable = Retryable
    Fatal = Fatal
    NoError = NoError
    Errors <- TestErrors
    Policies <- TestPolicies
    Strategies <- TestStrategies
    Scalars <- TestScalars
    FloatMax = 100000
    AttemptMax = 255
    U64Max = 20000
    MaxCalls = 8
INVARIANTS
    TestsHold
    DelayTestsHold
