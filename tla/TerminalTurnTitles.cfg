SPECIFICATION Spec
CONSTANTS
    Turns = 2
    Questions = 0
    Keys = {"confirm"}
    MaxKeys = 0
    MaxSignals = 0
    Budget = 2
    Foreign = {"title"}
INVARIANTS OnlyTroubleFails
CHECK_DEADLOCK FALSE
