\* The gate on its own: three runs under a maximum of one, two workers, a replay.
SPECIFICATION GateSpec
CONSTANTS
    Run = {x1, x2, x3}
    Replica = {}
    Worker = {w1, w2}
    Fence = {f1, f2, f3, f4}
    None = None
    Maximum = 1
    ExecutionLease = 2
    Safety = 1
    JobTimeout = 3
    DispatchLease = 1
    RetryDelay = 1
    Batch = 1
    MaxCopies = 2
    MaxReplays = 1
    MaxFaults = 1
SYMMETRY Symmetry
CHECK_DEADLOCK FALSE
INVARIANTS BoundedConcurrency AckedIsCompleted
PROPERTIES OnlyOwnerFinishes
