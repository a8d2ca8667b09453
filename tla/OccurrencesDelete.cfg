\* A deletion meets the timing loop catching up on a recurring job.
\* The clock and the job operations are bounded, so a run may stop.
CHECK_DEADLOCK FALSE
SPECIFICATION FairSpec
CONSTANTS
    MaxDuration = 100
    MaxCounter = 100
    NanosPerMilli = 1
    Requests <- MCRequests
    DefaultBackfill = "inherit"
    RawConfig <- MCRawConfig
    Defaults <- MCDefaults
    Prompt = TRUE
    SkipOverlap = FALSE
    MaxClock = 3
    MaxTroubles = 1
PROPERTY
    NothingAfterDelete
