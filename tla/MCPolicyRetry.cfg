SPECIFICATION PRSpec
CONSTANTS
    t1 = t1
    t2 = t2
    t3 = t3
    api = api
    db = db
    jobs = jobs
    fast = fast
    slow = slow
    Refused = Refused
    Absent = Absent
    Nobody = Nobody
    NoError = NoError
    Caller = t3
    Threads <- MCThreads
    Names <- MCNames
    Policies <- MCPolicies
    Programs <- MCPrograms
    Requests <- MCRequests
    Settings = {"notify", "on_failure"}
    Nested <- MCNested
    Errors <- MCErrors
    Strategies <- MCStrategies
    StrategyFor <- MCStrategyFor
    AttemptMax = 3
    U64Max = 2
    MaxCalls = 3
INVARIANTS
    TypeOK
    UniqueNames
    SearchesStayRight
    LockInv
    CallsWithoutLock
PROPERTIES
    ImplementsMap
    PoisonedFrozen
    ImplementsNamedRetry
    AllEnd
