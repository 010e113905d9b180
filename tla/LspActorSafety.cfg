SPECIFICATION Spec
CONSTANTS
    Queries = {q1, q2}
    NoQuery = NoQuery
    Capacity = 1
    MaxCancels = 1
    MaxTrouble = 2
INVARIANTS ResultIsOwn
PROPERTIES EveryQueryAnswered
CHECK_DEADLOCK FALSE
