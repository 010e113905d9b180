SPECIFICATION Spec
CONSTANTS
    Calls = {c1, c2}
    NoCall = NoCall
    Capacity = 1
    StopKinds = {"caller", "action"}
    MaxStops = 1
    MaxTrouble = 1
INVARIANTS AnswerIsTrue
PROPERTIES EveryCallAnswered
CHECK_DEADLOCK FALSE
