SPECIFICATION Spec
CONSTANTS
    MAX_RULES = 12
    Hits <- MCHits
    Cut <- MCCut
    Ports <- MCPorts
    Seconds <- MCSeconds
    NotIds <- MCNotIds
    ReadFamily <- MCReadFamily
    Missing = Missing
    Workloads <- RaceOnly
    Edits <- MCEdits
    CallEvents <- MCCallEvents
    OwnOpen <- MCOwnOpen
    Context <- MCContext
    Situations <- MCSituations
    RingSlots = 2
INVARIANTS SameHashSameRules
CHECK_DEADLOCK FALSE
