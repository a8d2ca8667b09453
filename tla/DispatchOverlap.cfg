\* Two occurrences of a job that skips overlaps, pinned to a label, with one fault
\* and the job disabled or deleted at any step.
SPECIFICATION Spec
CONSTANTS
    MaxExecution = 2
    MaxAttempt = 2
    MaxVersion = 5
    MaxEvents = 1
    EventKinds = {"expiry", "failure", "reject"}
    LossCost = 1
    Instances = {i1}
    Conns = {c1}
    Capacity = 2
    MaxFunctionAttempts = 1
    SkipOverlap = TRUE
    Pin = "required"
    Labeled = {i1}
    Compatible = {i1}
    Connected = NoInstance
    JobOps = {"disable", "delete"}
    NoConn = NoConn
    NoInstance = NoInstance

    
PROPERTIES
    ImplementsLifecycle
CHECK_DEADLOCK FALSE
