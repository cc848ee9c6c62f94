SPECIFICATION FairSpec
CONSTANTS
    Pids = {p1, p2, p3, p4}
    NoPid = NoPid
    ProcessNum = 1
    StartWindow = TRUE
    PromptWorkers = FALSE
    MaxSignals = 2
    MaxCrashes = 1
    MaxFailures = 0
    MaxKills = 1
INVARIANTS
    ChildTable
PROPERTIES
    SettlesFullyStaffed
    QuitIsObeyed
CHECK_DEADLOCK FALSE
