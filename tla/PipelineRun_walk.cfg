SPECIFICATION FairSpec
CONSTANTS
    N = 3
    Slots = 2
    FailureModes = {"fail", "continue", "retry", "skip_downstream"}
    MaxAttempts = 2
    MaxSinkErrors = 1
    CanCancel = TRUE
INVARIANT UpstreamVisible
INVARIANT RecordIsTrue
PROPERTY RunEnds
CHECK_DEADLOCK FALSE
