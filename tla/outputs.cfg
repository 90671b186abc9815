CONSTANTS
    NumTasks = 2
    BufLen = 17
    TaskLists <- MCTaskLists
    Cmds <- MCCmds
SPECIFICATION Spec
PROPERTY TasksKeepApart
