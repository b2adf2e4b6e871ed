SPECIFICATION Spec
CONSTANTS
    Paths <- EventsSpool
    Settings <- OneKillOnly
    MaxLines = 2
    MaxFaults = 1
    MaxRotations = 0
INVARIANTS CheckpointDurable
CHECK_DEADLOCK FALSE
