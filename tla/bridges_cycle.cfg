SPECIFICATION Spec
CONSTANTS
    Goroutines = {g1}
    None = None
    MaxAsks = 1
    Types <- LoopTypes
    Scopes <- LoopScopes
    Kind <- LoopKind
    Regs <- Loop
INVARIANTS
    CrossingCycleIsReported
