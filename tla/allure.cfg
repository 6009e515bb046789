SPECIFICATION Spec
CONSTANTS
    Stages = {s1, s2}
    Tests = {t1, t2}
    MaxSteps = 2
INVARIANTS
    OneResultPerStage
    ResultTellsTheStage
    NothingMissingUnnoticed
