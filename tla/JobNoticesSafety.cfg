SPECIFICATION Spec
CONSTANTS
    NumJobs = 3
    Bodies = {b1}
    MaxActive = 2
    MaxRetained = 2
    MaxPending = 1
    MaxWakes = 1
    MaxSteps = 2
INVARIANTS NoticeOnce EndIsTold WakesAreRight
PROPERTIES ToldStaysSilent
CHECK_DEADLOCK FALSE
