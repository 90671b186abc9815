CONSTANTS
    Documents <- MCSample
    Slave = "sn1"
    App <- MCApp
    Motor <- MCMotor
SPECIFICATION Spec
CHECK_DEADLOCK FALSE
INVARIANTS
    SampleStarts
