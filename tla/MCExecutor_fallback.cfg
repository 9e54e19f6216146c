SPECIFICATION Spec
CONSTANTS
    NetworkError = NetworkError
    ArgumentError = ArgumentError
    Interrupt = Interrupt
    NoException = NoException
    BadArgument = ArgumentError
    Standard <- MCStandard
    Severe <- MCSevere
    Options <- MCFallback
INVARIANT FallbackWhenExhausted
