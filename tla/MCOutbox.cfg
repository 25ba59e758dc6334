CONSTANTS
    Events = {e1, e2}
    Relays = {r1, r2}
    ClaimBatch = 2
    PublicationTimeout = 1
    LeaseDuration = 3
    RetryDelay = 1
    MaxAttempts = 2
    Retention = 1
    CleanupBatch = 1
    MaxFaults = 1
    NoEvent = NoEvent
SPECIFICATION MCFairSpec
INVARIANTS FencesAreExclusive CleanupLosesNothing PromptRelayKeepsLease
PROPERTIES SettledIsFinal ImplementsIntent EveryEventIsDelivered
