SPECIFICATION Spec
CONSTANTS
    Goroutines = {g1, g2}
    None = None
    MaxAsks = 1
    Types <- LayeredTypes
    Scopes <- TwoBags
    Regs <- Layered
INVARIANT ClosedWhenTheStageEnds
