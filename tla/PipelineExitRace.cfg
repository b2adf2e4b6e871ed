SPECIFICATION Spec
CONSTANTS
    Pids <- MCPids
    Roots <- MCPids
    NoRoot = 0
    parent <- MCParent
    comm <- MCComm
    tty <- MCTty
    Policy <- DefaultPolicy
    Calls <- FamilyCalls
    MaxCalls <- OnceLimits
    Mortal = {4}
    RingSlots = 2
    FLOW_STATE_ENTRIES = 2
    FlowWindow = 1
    MaxTs = 2
CHECK_DEADLOCK FALSE
INVARIANTS
    SiblingReadCorrelated
