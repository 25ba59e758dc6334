\* One event delivered with two bodies, two consumers, retention that covers the broker's window.
SPECIFICATION FairSpec
CONSTANTS
    Keys = {k1}
    Bodies = {b1, b2}
    Consumers = {c1, c2}
    Instants = {t1, t2, t3, t4}
    Retention = 2
    CleanupBatch = 1
    RedeliveryWindow = 2
    MaxFaults = 3
    NoBody = NoBody
    NoKey = NoKey
    NoOne = NoOne
    NoInstant = NoInstant
INVARIANTS EffectsMatchReceipts AckedWasApplied OneEffectPerEvent
PROPERTIES ClaimsAreSettled DeliveredIsProcessed
CHECK_DEADLOCK FALSE
