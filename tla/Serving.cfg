SPECIFICATION MCSpec
CONSTANTS
    MaxEvents = 3
    BackfillLimit = 1
    TailLimit = 2
    Hooks = {"h"}
    MaxRetries = 1
    FanOutBatch = 2
    DueBatch = 2
    MaxTrouble = 1
    PoolWorkers = {1, 2}
    Loops = {"scheduler"}
    MaxJobs = 2
INVARIANT StreamComplete
INVARIANT DeliveriesKept
INVARIANT DrainRespected
PROPERTY StreamEnds
PROPERTY Settles
PROPERTY PoolStops
CHECK_DEADLOCK FALSE
