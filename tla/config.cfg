CONSTANTS
    Documents <- MCDocuments
    Slave = "sn1"
    App <- MCApp
    Motor <- MCMotor
SPECIFICATION Spec
CHECK_DEADLOCK FALSE
INVARIANTS
    ParsedAsWritten
    WithinBuffer
    ArgumentsInOrder
    ArgumentsComplete
