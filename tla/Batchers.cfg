\* The daemon thread and one caller; two events fill a batch, and two
\* events or four bytes fill the queue; two attempts per request, one fork.  The
\* breaker opens at the third failure, for two or three ticks.
SPECIFICATION AllSpec
CONSTANTS
    caller = caller
    Events <- MCEvents
    Callers <- MCCallers
    Worker = worker
    BatchSize = 2
    MaxQueueSize = 2
    MaxQueueBytes = 4
    MaxAttempts = 2
    MaxForks = 1
    Kinds <- MCKinds
    ApproxBytes <- MCApproxBytes
    Poison <- MCPoison
    UrgentLimit = 1
    MaxRestarts = 1
    MaxLoops = 2
    MaxCancels = 1
    FailureThreshold = 3
    ResetAfter = 2
    ResetJitter = 2
INVARIANTS
    AllTypeOK
    NoneLostNoneTwice
    CountersHonest
    StoredOnce
    FullBatchWakes
    StopFlushes
PROPERTIES
    BatchersKeepTrack
    QueuesDrain
\* After stop() the batcher is at rest once every event has been emitted.
CHECK_DEADLOCK FALSE
