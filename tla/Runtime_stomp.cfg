SPECIFICATION Spec
CONSTANTS
    w1 = w1
    w2 = w2
    p = p
    gpu = gpu
    Null = Null
    Workers = {w1, w2}
    Pipelines = {p}
    Labels = {}
    LabelOf <- NoLabels
    LabelFor <- AnyWorker
    MaxJobs = 2
    MaxRuns = 3
    MaxCrashes = 0
    MaxStalls = 1
    MaxDbErrors = 0
    MaxLeft = 0
    Archiving = FALSE
SYMMETRY Symmetry
PROPERTY NeverStomps
CHECK_DEADLOCK FALSE
