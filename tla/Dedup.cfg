SPECIFICATION Spec
CONSTANTS
    NoKey = NoKey
    NoDst = NoDst
    TsModulus = 16
    Keys = {k1, k2, k3}
    Dsts = {d1}
    DEDUP_ENTRIES = 2
    dedup_window_ns = 2
    RepeatModulus = 2
    MaxTs = 2
    Skew = 1
    MaxSeen = 3
INVARIANTS
    TypeOK
    OneEntryPerKey
    Conservation
    SummaryPerAlert
    NothingPendingAtExit
    EntryIsLatest
PROPERTIES
    SuppressedOnlyInWindow
    ImplementsLedger
CHECK_DEADLOCK FALSE
