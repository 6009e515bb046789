SPECIFICATION Spec
CONSTANTS
    Tests = {t1}
    Observers = {o1}
    MaxContainers = 2
    MaxStages = 1
    Endings = {"opens"}
INVARIANT ClosedWithTheTestsVerdict
