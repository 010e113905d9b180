CONSTANTS
    CallLists <- OneOrTwoCalls
    MaxRows = 8
    MaxStops = 2
SPECIFICATION Spec
INVARIANTS AlwaysReadable RepairConverges OutcomeIsHonest
PROPERTIES DurableRowsStay
CHECK_DEADLOCK FALSE
