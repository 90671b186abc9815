CONSTANTS
    MaxSlaves = 2
    Serials = {1, 2}
    Revisions = {7, 8}
    MinSwRev = 8
    MaxTries = 2
    FailingReads = {"sn", "rev"}
    EarlySignal = TRUE
SPECIFICATION LiveSpec
CHECK_DEADLOCK FALSE
INVARIANTS
    TypeOK
    RunningIsComplete
    FirmwareChecked
    AbortsExplained
PROPERTY StartupDecides
