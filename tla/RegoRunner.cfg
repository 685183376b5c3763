SPECIFICATION FairSpec
CONSTANTS
    Callers = {c1, c2}
    Workers = {1, 2, 3}
    Keys = {1}
    Budgets <- MCBudgets
    MaxAbandoned = 1
    MaxIdle = 1
    MaxCached = 1
    Wrap = 16
INVARIANTS
    BacklogIsExact
    AnswersAreOwn
    ClearIsEffective
PROPERTIES
    EveryCallReturns
CHECK_DEADLOCK FALSE
