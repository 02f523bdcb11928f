SPECIFICATION MCSpec
CONSTANTS
    c1 = c1
    c2 = c2
    Procs <- MCProcs
    Pipelines = {"orders"}
    SubGoals <- MCSubGoals
    MaxPlanners = 1
    MaxPlans = 2
    MaxRuns = 2
    MaxTrouble = 1
    HookFiles <- MCHookFiles
    Requested = {"edit", "submit_result", "nope"}
    MaxTurns = 2
    MaxRetries = 1
    MaxCalls = 2
    MaxGuidance = 1
    MaxFileEdits = 2
    MaxTicks = 2
    Writers = {"w1", "w2"}
    MaxIterations = 4
    MaxEngines = 2
    MaxToolRows = 2
SYMMETRY MCSymmetry
INVARIANT BuildsSettle
INVARIANT MetricsTrue
INVARIANT ResultsPaired
INVARIANT WritesAuthorised
INVARIANT FreshLoads
INVARIANT PassedAsLeft
PROPERTY ImplementsLedger
CHECK_DEADLOCK FALSE
