SPECIFICATION FairSpec
CONSTANTS
    Rounds <- RoundsMixed
    MaxParallel = 2
INVARIANTS EveryCallAnswered ResultIsHonest StopIsReported
PROPERTIES StartsAllowed RoundEnds
CHECK_DEADLOCK FALSE
