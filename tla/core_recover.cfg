CONSTANTS
    NumSlaves = 1
    FaultySlaves = {1}
    FaultKinds = {"power", "unplug", "frame", "safeop", "watchdog", "sdo", "swap", "reflash", "rev", "midway"}
    MaxFaults = 2
    FaultsInHandshake = FALSE
    QuietHandshake = TRUE
    SleepCoversCycle = TRUE
    Tasks = {head, tail}
    HeadTask = head
    ResetWrite = {tail}
    Cmds = {1}
    ArgLen = 2
    MaxStatus = 6
    ReconnectMod = 256
SPECIFICATION Spec
INVARIANTS
    TypeOK
    NoPhantomCommand
    ConfiguredWhenDriven
    CommandKept
    ReportsAreReports
    ForeignBoardNotOperational
    OutdatedNotDriven
PROPERTY ArgumentsTransferred
