SPECIFICATION Spec
CONSTANTS
    default = default
    inner_policy = inner_policy
    NetworkError = NetworkError
    ArgumentError = ArgumentError
    Exceeded = Exceeded
    Interrupt = Interrupt
    NoException = NoException
    Default = default
    BadArgument = ArgumentError
    MaxRetries = Exceeded
    Names <- MCNames
    AllExceptions <- MCExceptions
    Severe <- MCSevere
    StandardErrors <- MCStandardErrors
    CallerLists <- MCCallerLists
    Given <- MCGiven
    Added <- MCAdded
    MaxArrays = 4
    OuterArguments <- MCOuter
    InnerArguments <- MCInner
    Delays = {1}
INVARIANTS
    BudgetsMultiply
    InterruptEndsBoth
    LastEndingReported
PROPERTIES
    ChangesAreLocal
    NestedCallEnds
    NestedCallDescends
