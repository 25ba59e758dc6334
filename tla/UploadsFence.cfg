CONSTANTS
    Worker = {w1, w2}
    NoOne = NoOne
    PendingTtl = 1
    Credential = 1
    Lease = 1
    RetryDelay = 1
    Grace = 1
    MaxAttempts = 2
SPECIFICATION Spec
INVARIANT AvailableIsDownloadable
CHECK_DEADLOCK FALSE
