SPECIFICATION Spec
CONSTANTS
    Members = {1, 2}
    Streams = {"stdout"}
    Limit = 1
    MaxBytes = 2
    MaxFaults = 1
    Coming = {"caller", "command"}
    MaxStops = 2
    MaxBehind = 1
INVARIANTS GroupIsOurs CauseIsTrue
PROPERTIES CauseIsFinal CommandEnds
CHECK_DEADLOCK FALSE
