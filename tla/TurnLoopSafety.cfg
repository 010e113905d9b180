SPECIFICATION FairSpec
CONSTANTS
    MaxSteps = 2
    MaxAttempts = 3
    MaxRetries = 2
    Policies <- TwoPolicies
    PolicyMax = 2
    FirstCalls <- OnePolicy
    Wordy <- FirstOnly
    MaxChunks = 1
INVARIANTS LogReplays ReasonIsTrue
PROPERTIES RequestBehindBarrier TurnEnds
CHECK_DEADLOCK FALSE
