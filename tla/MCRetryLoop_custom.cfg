SPECIFICATION Spec
CONSTANTS
    Refused = Refused
    Timeout = Timeout
    NoError = NoError
    Errors <- MCErrors
    Strategies <- MCAnyStrategy
    AttemptMax = 4
    U64Max = 5
    MaxCalls = 6
INVARIANTS
    IInv
    FaithfulOutcome
    TerminalCallback
PROPERTIES
    RetriesAreJustified
