\* One schedule under every administrative operation, two replicas.
SPECIFICATION FairSpec
CONSTANTS
    Schedule = {s1}
    Replica = {r1, r2}
    Definition <- AllPolicies
    Horizon = 5
    Batch = 1
    MaxRevision = 3
    MaxReplays = 1
    Fence = {f1, f2, f3, f4}
    None = None
CHECK_DEADLOCK FALSE
INVARIANTS TypeOK InsertNeverCollides NoOccurrenceIsLost PlanIsEarliestMissed
PROPERTIES RunsFollowTheRevision DueIsBroughtUpToDate
