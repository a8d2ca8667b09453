\* Bounded parts: each runs out of messages, connections or questions.
CHECK_DEADLOCK FALSE
SPECIFICATION PartsSpec
CONSTANTS
    \* the ring: a removal can hit a position before, at, right after and far
    \* behind the cursor, and two others can take turns while one waits
    Entrants = {k1, k2, k3, k4}
    \* the store suite
    NanosPerMicro = 2
    \* the schedules
    MaxDuration = 15
    MaxCounter = 15
    NanosPerMilli = 2
    Starts = {0, 3}
    Intervals = {0, 1, 2, 3, 7, 8}
    Instants = {0, 2, 3, 4, 5, 9, 10, 15, 18, 19}
    Counts = {0, 1, 2}
    Ages = {0, 4, 5}
    Delays = {0, 1, 3, 8}
    Multipliers = {0, 1, 3}
    Consumed = {0, 1, 2, 4}
    \* the codec and the stream
    Base = 20
    Width <- MCWidth
    GivenLimits <- MCGivenLimits
    DefaultLimits <- MCDefaultLimits
    Sendable <- MCSendable
    ForeignHeaders <- MCForeignHeaders
    payloadReadChunk = 4
    MaxFrames = 2
    Segments = {5}
    \* the client: one job call or one label revision, a queue of two frames,
    \* two connections that may break
    Jobs = {j1}
    Revisions = {r1}
    Calling = {{}, {j1}, {r1}}
    OutgoingQueueSize = 2
    MaxConnections = 2
    MaxOwnFrames = 1
    Breaks = TRUE
    \* the results: one job, lost connections, retention passes, a caller that
    \* may give up, queues of one message
    a = a
    b = b
    k1 = k1
    k2 = k2
    NoInstance = NoInstance
    Instances = {a}
    Keys = {k1}
    InstOf <- OneCaller
    KeyOf <- SameKey
    MaxSubmission = 1
    MaxExecution = 1
    Runs = 1
    MaxResults = 2
    MaxPerInstance = 2
    QueueLimit = 1
    Courses <- Disturbed
    MayCancel = {1}
    MayDelete = {}
    \* the message queue: enough placeholders to stop both workers
    MessageJobs = {1, 2}
    Urgency <- MCUrgency
    TaskCount <- MCTaskCount
    Hands = {h1, h2}
INVARIANTS
    FairTurns
    SuitePasses
    ScheduleExact
    CodecExact
    StreamFaithful
    ClosedForAReason
    HonestAnswers
    FlushedBeforeClose
    AnsweredOrHeld
    
PROPERTIES
    EveryCallReturns
    EventuallyAnswered
