SPECIFICATION Spec
CONSTANTS
    Goroutines = {g1, g2}
    None = None
    MaxAsks = 1
    Types <- MixedTypes
    Scopes <- MixedScopes
    Kind <- MixedKind
    Regs <- Mixed
INVARIANTS
    OneInstance
PROPERTIES
    EveryResolveReturns
