SPECIFICATION FairSpec
CONSTANTS
    Goroutines = {g1}
    None = None
    MaxAsks = 3
    Types <- CycleTypes
    Scopes <- TwoBags
    Regs <- Cycle
INVARIANTS
    NeverWaitsForItself
