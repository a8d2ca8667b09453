\* One occurrence and up to three attempts, a preferred pin nobody serves; two
\* faults that keep the connection, or one that costs it: a drop, a crash of the
\* executor or a restart of the scheduler.  The bounded system falls silent.
SPECIFICATION Spec
CONSTANTS
    MaxExecution = 1
    MaxAttempt = 3
    MaxVersion = 8
    MaxEvents = 2
    EventKinds = {"queue", "expiry", "heartbeat", "reject", "failure", "drop", "crash", "restart"}
    LossCost = 2
    Instances = {i1}
    Conns = {c1, c2}
    Capacity = 1
    MaxFunctionAttempts = 2
    SkipOverlap = FALSE
    Pin = "preferred"
    Labeled = {}
    Compatible = {i1}
    Connected = NoInstance
    JobOps = {}
    NoConn = NoConn
    NoInstance = NoInstance
INVARIANTS
    TypeOK
    SnapshotsFaithful
    SettledByCurrentAttempt
    RetryBudgetHonest
    NothingBeforeSend
    HistoryAgrees
    CapacityRespected
CHECK_DEADLOCK FALSE
