SPECIFICATION Spec
CONSTANTS
    NoRoot = NoRoot
    Roots = {r1, r2, r3}
    FLOW_STATE_ENTRIES = 2
    FlowWindow = 1
    MaxTs = 3
    Workloads <- MCWorkloads
SYMMETRY RootSymmetry
INVARIANTS
    TypeOK
    OneEntryPerRoot
    EntryIsTrue
    ReadRemembered
PROPERTIES
    SilenceForgets
CHECK_DEADLOCK FALSE
