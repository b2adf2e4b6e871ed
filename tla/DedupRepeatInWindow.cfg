SPECIFICATION Spec
CONSTANTS
    NoKey = NoKey
    NoDst = NoDst
    TsModulus = 16
    Keys = {k1}
    Dsts = {d1}
    DEDUP_ENTRIES = 2
    dedup_window_ns = 2
    RepeatModulus = 4
    MaxTs = 4
    Skew = 0
    MaxSeen = 4
PROPERTIES
    RepeatInWindowSuppressed
CHECK_DEADLOCK FALSE
