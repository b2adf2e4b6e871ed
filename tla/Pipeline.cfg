SPECIFICATION AgentSpec
CONSTANTS
    Pids <- MCPids
    Roots <- MCPids
    NoRoot = 0
    parent <- MCParent
    comm <- MCComm
    tty <- MCTty
    Policy <- DefaultPolicy
    Calls <- FamilyCalls
    MaxCalls <- FamilyLimits
    Mortal = {3, 4}
    RingSlots = 2
    FLOW_STATE_ENTRIES = 2
    FlowWindow = 1
    MaxTs = 1
    NoKey = NoKey
    NoDst = NoDst
    DEDUP_ENTRIES = 2
    dedup_window_ns = 1
    TsModulus = 8
    RepeatModulus = 4
    MaxSeen = 4
    MAX_ALERTS = 2
    MAX_RECENT_EVENTS = 3
CHECK_DEADLOCK FALSE
INVARIANTS
    AgentTypeOK
    EveryCallAccounted
    CorrelatedAreKin
    ReadThenConnectCaught
    NothingUntold
    TelemetryAgrees
PROPERTIES
    RingDrains
