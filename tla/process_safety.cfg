SPECIFICATION Spec
CONSTANTS
    Pids = {p1, p2, p3, p4}
    NoPid = NoPid
    ProcessNum = 2
    StartWindow = FALSE
    PromptWorkers = FALSE
    MaxSignals = 2
    MaxCrashes = 1
    MaxFailures = 1
    MaxKills = 0
SYMMETRY PidSymmetry
INVARIANTS
    TypeOK
    StaffedWhenSuspended
    QuitToldEveryone
PROPERTIES
    ReloadReplaces
    ImplementsPool
CHECK_DEADLOCK FALSE
