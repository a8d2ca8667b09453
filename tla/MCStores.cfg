SPECIFICATION Spec
CONSTANTS
    Clients = {p1, p2}
    Kinds = {"memory", "redis"}
    Foci = {"jobs", "executions", "attempts", "results"}
    NanosPerMicro = 2
    MaxCalls = 3
    MaxClock = 2
    MaxLost = 1
    ResultCap = 2
    ConflictRetryLimit = 2
INVARIANTS IndexesExact ListingsHonest 
PROPERTY ImplementsContract
CHECK_DEADLOCK FALSE
SYMMETRY ClientSymmetry
