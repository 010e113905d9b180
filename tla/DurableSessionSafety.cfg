SPECIFICATION Spec
CONSTANTS
    Claims = {c1, c2}
    MaxEvents = 3
    MaxEpoch = 2
INVARIANTS NoSilentLoss ClaimsSound
PROPERTIES NothingLeavesEarly ImplementsDurableLog
CHECK_DEADLOCK FALSE
