\* Four requests of two executions on two slots and queues of one message: both
\* slots busy, both attempts of one execution at once, an unknown function, full
\* queues, and a shutdown at any step; functions may never return.
\* Run returns in the end and the bounded engine falls silent: the system stops.
CHECK_DEADLOCK FALSE
SPECIFICATION FairRuntime
CONSTANTS
    MaxRequest = 4
    ExecOf <- TwoAttempts
    Unknown = {4}
    MaxCancels = 1
    Capacity = 2
    QueueSize = 1
PROPERTIES RunReturns
INVARIANTS
    SlotsBalanced
    DrainSound
    DrainedResultsSettle
    CancelFindsAll
