SPECIFICATION Spec
CONSTANTS
    Policies <- AllPolicies
    Situations <- AllSituations
INVARIANTS
    ShellDownloaderKeepsPriority
