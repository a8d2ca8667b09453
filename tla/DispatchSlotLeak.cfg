SPECIFICATION Spec
CONSTANTS
    MaxExecution = 1
    MaxAttempt = 2
    MaxVersion = 12
    MaxEvents = 0
    EventKinds = {}
    LossCost = 1
    Instances = {i1}
    Conns = {c1}
    Capacity = 2
    MaxFunctionAttempts = 1
    SkipOverlap = FALSE
    Pin = "none"
    Labeled = {}
    Compatible = {i1}
    Connected = NoInstance
    JobOps = {}
    NoConn = NoConn
    NoInstance = NoInstance
INVARIANTS
    SlotsReturned
CHECK_DEADLOCK FALSE
