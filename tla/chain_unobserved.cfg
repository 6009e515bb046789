SPECIFICATION Spec
CONSTANTS
    MaxBranches = 2
    MaxBodies = 2
    MaxOps = 2
INVARIANT EveryStepThatRanIsObserved
