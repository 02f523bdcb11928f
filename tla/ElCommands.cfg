SPECIFICATION ElSpec
CONSTANTS
    MaxJobs = 2
    MaxLines = 1
    MaxLive = 0
    MaxAttempts = 1
    MaxEdits = 1
    Edited = {"none", "bug1"}
    Diagnoses = {d1}
    Commands = {{}, {"auto_fix", "watch"}}
    Deploys = {prod}
    MaxFixAttempts = 1
    MaxStatements = 2
    MaxAgentSteps = 2
    InGit = TRUE
INVARIANT RunsRecorded
INVARIANT NoEditMissed
INVARIANT SuccessIsVerified
INVARIANT SafeDdl
CHECK_DEADLOCK FALSE
