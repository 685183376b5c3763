SPECIFICATION FairSpec
CONSTANTS
    Callers = {c1, c2}
    NoCaller = NoCaller
    MAX_ACTIVE = 1
    MaxPolicies = 2
INVARIANTS
    CredentialsAreOwned
    CleanCloseMeansGone
PROPERTIES
    VerdictIsCurrent
    ClosesEnd
CHECK_DEADLOCK FALSE
