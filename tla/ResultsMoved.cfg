\* One key submitted by two callers, between whom results move at caps of one, or
\* twice by one caller, who may close the one submission; with a deletion.  Or
\* that submission alone, through a lost connection and a retention pass.
\* The submissions are bounded, so a run may stop once all are answered.
CHECK_DEADLOCK FALSE
SPECIFICATION ResultsSpec
CONSTANTS
    a = a
    b = b
    k1 = k1
    k2 = k2
    NoInstance = NoInstance
    Instances = {a, b}
    Keys = {k1}
    InstOf <- OtherSecond
    KeyOf <- SameKey
    MaxSubmission = 3
    MaxExecution = 2
    Runs = 1
    MaxResults = 1
    MaxPerInstance = 1
    QueueLimit = 1
    Courses <- InTurnOrDisturbed
    MayCancel = {3}
    MayDelete = {k1}
INVARIANTS
    ResultTablesAgree
    LatestWaiterKept
