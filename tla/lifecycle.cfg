SPECIFICATION Spec
CONSTANTS
    Tests = {t1, t2}
    Observers = {o1}
    MaxContainers = 2
    MaxStages = 2
    Endings = {"opens", "fails", "unwinds"}
INVARIANTS
    TypeOK
    NewestFirstAndOnce
    NothingLeaks
    SameAudience
    CloseErrorsFailTheTest
PROPERTIES
    ReleasedBeforeChecked
SYMMETRY TestSymmetry
