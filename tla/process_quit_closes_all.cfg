SPECIFICATION Spec
CONSTANTS
    Pids = {p1, p2, p3}
    NoPid = NoPid
    ProcessNum = 3
    StartWindow = FALSE
    PromptWorkers = TRUE
    MaxSignals = 1
    MaxCrashes = 0
    MaxFailures = 0
    MaxKills = 0
SYMMETRY PidSymmetry
INVARIANTS
    QuitClosesAll
CHECK_DEADLOCK FALSE
