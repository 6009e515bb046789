SPECIFICATION FairSpec
CONSTANTS
    Goroutines = {g1, g2}
    None = None
    MaxAsks = 1
    Types <- LayeredTypes
    Scopes <- TwoBags
    Regs <- Layered
INVARIANTS
    TypeOK
    SingleFlight
    LocksHeldByFactories
    Agreement
    ClosedAtMostOnce
    DependentsCloseFirst
PROPERTIES
    InstanceKept
    EveryResolveReturns
    ImplementsRegistry
