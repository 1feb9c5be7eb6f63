\* Two replicas, two jobs that drain, a caller who enqueues; one failure or crash.
CONSTANTS
    w1 = w1
    w2 = w2
    Worker = {w1, w2}
    Runner = {w1, w2, a1}
    Jobs = {"queued-reconcile", "reconcile"}
    Drain = {"queued-reconcile", "reconcile"}
    Manual = {}
    Key = {"day"}
    Daily <- OneKey
    TTL = 2
    Slack = 1
    Skew <- Same
    Forces = {TRUE}
    Attempts = 2
    MaxJobs = 2
    MaxFaults = 1
SPECIFICATION FairSpec
INVARIANTS Exclusion VersionsEarned OneReportPerDrain
PROPERTIES QueuedDrained
CHECK_DEADLOCK FALSE
