SPECIFICATION Spec
CONSTANTS
    Caps = {1, 2}
    BlockThreshold = 2
    MaxGoals = 2
    MaxRows = 5
INVARIANTS WorkIsOwed
