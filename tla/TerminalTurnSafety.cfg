SPECIFICATION FairSpec
CONSTANTS
    Turns = 2
    Questions = 2
    Keys = {"confirm", "move", "bad", "esc"}
    MaxKeys = 2
    MaxSignals = 1
    Budget = 4
    Foreign = {"goal"}
INVARIANTS AnswerIsMeant OnlyTroubleFails
PROPERTIES ReturnIsTrue TurnReturns
CHECK_DEADLOCK FALSE
