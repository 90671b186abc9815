CONSTANTS
    NumSlaves = 1
    FaultySlaves = {1}
    FaultKinds = {"unplug", "power", "mcureset", "frame", "safeop", "sdo"}
    MaxFaults = 2
    FaultsInHandshake = FALSE
    QuietHandshake = TRUE
    SleepCoversCycle = TRUE
    Tasks = {head}
    HeadTask = head
    ResetWrite = {}
    Cmds = {}
    ArgLen = 2
    MaxStatus = 6
    ReconnectMod = 256
SPECIFICATION LiveSpec
PROPERTY AllRecover
