SPECIFICATION FairSpec
CONSTANTS
    Job = {j1}
    Worker = {w1, w2}
    None = None
    MaxAttempts = 2
    Timeout = 1
    Grace = 1
    RetryDelay = 1
    MaxReads = 4
    MaxMessages = 2
    MaxRevision = 2
    MaxFaults = 1
INVARIANT OnePlaceForEachJob
INVARIANT HoldsUntilDeadline
PROPERTY PausedLeasesNothing
PROPERTY AttemptsAreFreshAndBounded
PROPERTY EveryJobSettles
PROPERTY PauseDrains
CHECK_DEADLOCK FALSE
