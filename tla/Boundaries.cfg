SPECIFICATION FairSpec
CONSTANTS
    SyncEvals = {e1, e2}
    AsyncEvals = {e2, e3}
    Threads = {h1, h2}
    MaxCalls = 4
    t1 = t1
    Tasks = {t1}
    MAX_RUNE_OFFSET = 2
    Free = Free
    Configs <- MCConfigs
    HostVerdicts <- MCHostVerdicts
    Calls <- MCCalls
    DefaultLimit = 2
    I64Max = 1
    U64Max = 3
    U32Max = 3
    MaxOffset = 2
    Questions <- MCQuestions
    Requests = {c1, c2}
INVARIANTS
    FailureIsTheHosts
    OffsetsAreVouched
    BindingsAgree
    AskedCapsHold
    OneWorker
PROPERTIES
    EveryCallEnds
    SlotComesBack
CHECK_DEADLOCK FALSE
