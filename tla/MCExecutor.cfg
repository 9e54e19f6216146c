SPECIFICATION Spec
CONSTANTS
    NetworkError = NetworkError
    ArgumentError = ArgumentError
    Interrupt = Interrupt
    NoException = NoException
    BadArgument = ArgumentError
    Standard <- MCStandard
    Severe <- MCSevere
    Options <- MCOptions
INVARIANTS
    TypeOK
    FallbackOnce
    SevereEscapes
    FailureKept
    RetriesAnnounced
PROPERTIES
    ImplementsContract
    CallEnds
