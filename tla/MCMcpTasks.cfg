CONSTANTS
    Task = {t1}
    Worker = {w1, w2}
    Updater = {u1}
    Canceller = {x1}
    InputKey = {q1, q2}
    Ttl = 2
    JobTimeout = 1
    Grace = 1
    CancelAttempts = 2
    MaxGeneration = 2
    MaxDeliveries = 2
    MaxFaults = 1
SPECIFICATION Spec
INVARIANTS RecordsStayReadable LastClaimPublishes OnlyStaleAnswersStrand
PROPERTIES CancelledStaysStopped
SYMMETRY Symmetry
CHECK_DEADLOCK FALSE
