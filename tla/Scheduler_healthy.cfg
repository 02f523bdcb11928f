SPECIFICATION Spec
CONSTANTS
    Schedulers = {s1}
    Users = {u1}
    Pipelines = {"orders", "sales"}
    Crons = {2, 3}
    Ops = {"set_cron", "seed"}
    FlakyLabels = {"sales"}
    Timely = TRUE
    MaxTime = 7
    MaxChanges = 1
    MaxCrash = 0
INVARIANT EveryWindowOnce
CHECK_DEADLOCK FALSE
