CONSTANTS
    NumSlaves = 2
    FaultySlaves = {1}
    FaultKinds = {"unplug", "power"}
    MaxFaults = 1
    FaultsInHandshake = TRUE
    QuietHandshake = TRUE
    SleepCoversCycle = TRUE
    Tasks = {head}
    HeadTask = head
    ResetWrite = {}
    Cmds = {}
    ArgLen = 1
    MaxStatus = 6
    ReconnectMod = 256
SPECIFICATION Spec
PROPERTY HealthyUndisturbed
