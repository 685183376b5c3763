SPECIFICATION FairSpec
CONSTANTS
    Callers = {c1, c2}
    Keys = {k1, k2}
    MaxCached = 1
    LongMax = 31
    DecimalScale = 11
    Precision = 5
    Exponents <- MCExponents
    EvalTimeout = 2
    CleanupAttempts = 3
    Scenarios <- MCScenarios
INVARIANTS
    SourcesAreTheHosts
    ContextIsFaithful
    CedarVerdictIsSound
    ActivationIsSeen
    BundleOutlivesChild
PROPERTIES
    FedCallEnds
CHECK_DEADLOCK FALSE
