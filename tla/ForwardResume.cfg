SPECIFICATION FairSpec
CONSTANTS
    Paths <- TwoSpools
    Settings <- EveryUse
    MaxLines = 3
    MaxFaults = 2
    MaxRotations = 1
INVARIANTS TypeOK CheckpointCovers LeavesInOrder RetriesBounded
PROPERTIES EventuallyForwarded
CHECK_DEADLOCK FALSE
