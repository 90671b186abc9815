CONSTANTS
    NumSlaves = 1
    Operational = FALSE
    Starts = {"working"}
    CallbackPending = FALSE
    DropsToSafeOp = FALSE
    CallbackFirst = TRUE
    Tasks = {head, tail}
    HeadTask = head
    ResetWrite = {tail}
    Cmds = {1}
    ArgLen = 1
    MaxStatus = 6
    ReconnectMod = 256
SPECIFICATION LiveSpec
PROPERTY ShutdownCompletes
CHECK_DEADLOCK FALSE
