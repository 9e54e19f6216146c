SPECIFICATION Spec
CONSTANTS
    roundtrip = roundtrip
    success = success
    missing = missing
    workers = workers
    default = default
    unknown = unknown
    four = four
    two = two
    Absent = Absent
    Nobody = Nobody
    Threads <- TestThreads
    Names <- TestNames
    Policies <- TestPolicies
    Programs <- TestPrograms
INVARIANT TestsPass
