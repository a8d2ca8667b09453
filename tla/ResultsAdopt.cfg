\* One key submitted twice by one caller.
\* The submissions are bounded, so a run may stop once all are answered.
CHECK_DEADLOCK FALSE
SPECIFICATION ResultsSpec
CONSTANTS
    a = a
    b = b
    k1 = k1
    k2 = k2
    NoInstance = NoInstance
    Instances = {a}
    Keys = {k1}
    InstOf <- OneCaller
    KeyOf <- SameKey
    MaxSubmission = 2
    MaxExecution = 2
    Runs = 1
    MaxResults = 2
    MaxPerInstance = 2
    QueueLimit = 2
    Courses <- Undisturbed
    MayCancel = {}
    MayDelete = {}
INVARIANT
    NeverMissed
