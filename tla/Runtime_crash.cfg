SPECIFICATION Spec
CONSTANTS
    w1 = w1
    w2 = w2
    p = p
    gpu = gpu
    Null = Null
    Workers = {w1, w2}
    Pipelines = {p}
    Labels = {}
    LabelOf <- NoLabels
    LabelFor <- AnyWorker
    MaxJobs = 2
    MaxRuns = 3
    MaxCrashes = 1
    MaxStalls = 0
    MaxDbErrors = 1
    MaxLeft = 0
    Archiving = FALSE
SYMMETRY Symmetry
INVARIANT ExecutorOwnsJob
INVARIANT SuccessEventIsTrue
CHECK_DEADLOCK FALSE
PROPERTY FollowsLifecycle
PROPERTY FinishedStays
