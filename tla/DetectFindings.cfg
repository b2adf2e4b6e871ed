SPECIFICATION Spec
CONSTANTS
    Policies <- AllPolicies
    Situations <- AllSituations
INVARIANTS
    TypeOK
    ControlsAreExact
    AllowlistActsAsOverride
    FlowSoftensKnowingly
    ReadContextWins
    WriteNeverSoftens
    ScopeByRange
