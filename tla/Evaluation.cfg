SPECIFICATION Spec
CONSTANTS
    Names <- ThreeNames
    MaxNeeds = 2
    MaxDepth = 3
    AnnotatorLimits = {2, 3}
    PolicyOutputs <- NearOutputs
    Cap = 8
    Frame = 2
    Artefacts = {1, 4, 6, 7}
    MaxPointers = 4
    MaxBytes = 9
    Categories <- MCCategories
    MaxScore = 2
    Declarations <- MCDeclarations
    Bindings <- MCBindings
INVARIANTS
    PlanIsLeastOrder
    SeesOnlyDeclared
    FailClosed
    LongestPrefix
    HostSecretsStayHome
    BlockedIffReached
CHECK_DEADLOCK FALSE
