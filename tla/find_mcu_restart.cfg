CONSTANTS
    NumSlaves = 1
    FaultySlaves = {1}
    FaultKinds = {"mcureset"}
    MaxFaults = 1
    FaultsInHandshake = FALSE
    QuietHandshake = TRUE
    SleepCoversCycle = TRUE
    Tasks = {head, tail}
    HeadTask = head
    ResetWrite = {}
    Cmds = {}
    ArgLen = 1
    MaxStatus = 6
    ReconnectMod = 256
SPECIFICATION Spec
INVARIANT NoPhantomCommand
