\* A batch of two runs through one replica and one worker, the second one materialised
\* or a replay of the first.
SPECIFICATION FairSpec
CONSTANTS
    Run = {x1, x2}
    Replica = {d1}
    Worker = {w1}
    Fence = {f1, f2, f3, f4}
    None = None
    Maximum = 1
    ExecutionLease = 3
    Safety = 1
    JobTimeout = 4
    DispatchLease = 1
    RetryDelay = 1
    Batch = 2
    MaxCopies = 2
    MaxReplays = 1
    MaxFaults = 1
CHECK_DEADLOCK FALSE
INVARIANTS HandlerInsideLease NoRunIsStranded
PROPERTIES EveryRunIsHandedOver EveryDeliveryReturns
