CONSTANTS
    NumSlaves = 2
    Operational = TRUE
    Starts = {"working", "recovering"}
    CallbackPending = TRUE
    DropsToSafeOp = TRUE
    CallbackFirst = TRUE
    Tasks = {head, tail}
    HeadTask = head
    ResetWrite = {tail}
    Cmds = {1}
    ArgLen = 1
    MaxStatus = 6
    ReconnectMod = 256
SPECIFICATION LiveSpec
INVARIANTS
    TypeOK
    QuietExitResets
    NodeOutlivesThreads
PROPERTY ShutdownCompletes
