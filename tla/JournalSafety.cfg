SPECIFICATION FairSpec
CONSTANTS
    MaxBatches = 3
    COMMAND_CAPACITY = 1
INVARIANTS FileInOrder AckedSurvives ExportIsWhole
PROPERTIES NoWriteAfterFailure ImplementsDurableLog CallsReturn
