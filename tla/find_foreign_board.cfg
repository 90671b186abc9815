CONSTANTS
    NumSlaves = 1
    FaultySlaves = {1}
    FaultKinds = {"power", "swap", "sdo"}
    MaxFaults = 3
    FaultsInHandshake = FALSE
    QuietHandshake = TRUE
    SleepCoversCycle = TRUE
    Tasks = {head}
    HeadTask = head
    ResetWrite = {}
    Cmds = {}
    ArgLen = 1
    MaxStatus = 6
    ReconnectMod = 256
SPECIFICATION Spec
INVARIANT ForeignBoardNotOperational
