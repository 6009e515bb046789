SPECIFICATION FairSpec
CONSTANTS
    MaxBranches = 2
    MaxBodies = 2
    MaxOps = 2
    Ordinals = {"func1", "2"}
    Depths <- MCDepths
INVARIANTS
    TypeOK
    AllJoins
    FailFastStops
    FailSoftReportsAll
    ObservedBeforeReported
    VerdictTellsFailure
    HandedBackIsMeaningful
    StepsAreNamedForTheirVerb
    StackIsTheStepsOwn
PROPERTIES
    AllReturnsInTheEnd
