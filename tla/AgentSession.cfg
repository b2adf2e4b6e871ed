SPECIFICATION Spec
CONSTANTS
    MAX_RULES = 12
    Hits <- MCHits
    Cut <- MCCut
    Ports <- MCPorts
    Seconds <- MCSeconds
    NotIds <- MCNotIds
    ReadFamily <- MCReadFamily
    Missing = Missing
    Workloads <- MCWorkloads
    Edits <- MCEdits
    CallEvents <- MCCallEvents
    OwnOpen <- MCOwnOpen
    Context <- MCContext
    Situations <- MCSituations
    RingSlots = 2
INVARIANTS
    TypeOK
    LastLineDecides
    ProfileBeforeLines
    ProfilesRank
    DisablingTwice
    RenameNeverMixes
    StopDrainsTheRing
PROPERTIES
    StopHonoured
CHECK_DEADLOCK FALSE
