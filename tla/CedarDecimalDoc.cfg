SPECIFICATION Spec
CONSTANTS
    Callers = {c1, c2}
    Keys = {k1}
    MaxCached = 1
    LongMax = 31
    DecimalScale = 11
    Precision = 5
    Exponents <- MCExponents
    EvalTimeout = 2
    CleanupAttempts = 3
    Scenarios <- MCNumberScenarios
INVARIANTS
    DecimalIsNearest
CHECK_DEADLOCK FALSE
