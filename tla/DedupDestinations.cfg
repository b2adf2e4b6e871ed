SPECIFICATION Spec
CONSTANTS
    NoKey = NoKey
    NoDst = NoDst
    TsModulus = 16
    Keys = {k1}
    Dsts = {d1, d2}
    DEDUP_ENTRIES = 2
    dedup_window_ns = 2
    RepeatModulus = 4
    MaxTs = 4
    Skew = 0
    MaxSeen = 4
INVARIANTS
    EveryDestinationReported
CHECK_DEADLOCK FALSE
