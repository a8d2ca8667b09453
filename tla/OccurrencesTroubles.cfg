\* One trouble - a failed store call, a stop, a crash or a further job operation -
\* on a clock that runs past the retention of what settled first.
\* The clock is bounded, so a run may stop.
CHECK_DEADLOCK FALSE
SPECIFICATION FairSpec
CONSTANTS
    MaxDuration = 100
    MaxCounter = 100
    NanosPerMilli = 1
    Requests <- MCRequests
    DefaultBackfill = "inherit"
    RawConfig <- MCRawConfig
    Defaults <- MCDefaults
    Prompt = TRUE
    SkipOverlap = TRUE
    MaxClock = 3
    MaxTroubles = 1
INVARIANT
    AttemptsOwned
PROPERTIES
    
    
    NeverDry
