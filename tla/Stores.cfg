SPECIFICATION MCSpec
CONSTANTS
    Slots = {1, 2}
    Tokens = {"t1", "t2"}
    MaxApiTrouble = 1
    Runs = {1, 2}
    Window <- MCWindow
    MaxNow = 3
    MaxLate = 1
    DbtSteps = {"s1", "s2"}
    MaxEdits = 1
    TargetNames = {"dev", "prod"}
    MaxBlocks = 3
    a = a
    b = b
    WaveSteps <- MCWaveSteps
    SharedName = "x"
    Dialects = {"duckdb"}
    MaxStepAttempts = 2
SYMMETRY MCSymmetry
INVARIANT AnswersOnce
INVARIANT NoDataLoss
INVARIANT GraduationSettles
INVARIANT TargetsAgree
INVARIANT ExecutorsHonest
INVARIANT PinWasValidated
CHECK_DEADLOCK FALSE
