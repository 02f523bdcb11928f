SPECIFICATION FairSpec
CONSTANTS
    Schedulers = {s1}
    Users = {u1, u2}
    Pipelines = {"orders"}
    Crons = {1, 2}
    Ops = {"pause", "resume", "set_cron"}
    FlakyLabels = {}
    Timely = FALSE
    MaxTime = 3
    MaxChanges = 2
    MaxCrash = 1
INVARIANT AuditReplays
INVARIANT OneFireAfterPause
PROPERTY CatchesUp
CHECK_DEADLOCK FALSE
