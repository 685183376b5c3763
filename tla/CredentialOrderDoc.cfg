SPECIFICATION Spec
CONSTANTS
    Callers = {c1, c2}
    NoCaller = NoCaller
    MAX_ACTIVE = 1
    MaxPolicies = 2
INVARIANTS
    CredentialsOutliveSource
CHECK_DEADLOCK FALSE
