SPECIFICATION FairSpec
CONSTANTS
    Runners = {r1, r2}
    Roles = {buyer, seller}
    None = None
    MaxCalls = 2
INVARIANTS
    TypeOK
    OneSinkPerRole
    ProducedIsReadable
PROPERTIES
    EveryCallGetsIn
