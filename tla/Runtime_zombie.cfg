SPECIFICATION Spec
CONSTANTS
    w1 = w1
    w2 = w2
    p = p
    gpu = gpu
    Null = Null
    Workers = {w1, w2}
    Pipelines = {p}
    Labels = {gpu}
    LabelOf <- OneLabelled
    LabelFor <- AllNeedGpu
    MaxJobs = 2
    MaxRuns = 2
    MaxCrashes = 1
    MaxStalls = 1
    MaxDbErrors = 0
    MaxLeft = 1
    Archiving = FALSE
INVARIANT JobRowIsTrue
INVARIANT MutualExclusion
CHECK_DEADLOCK FALSE
