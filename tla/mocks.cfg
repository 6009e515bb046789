SPECIFICATION Spec
CONSTANTS
    Reader = Reader
    ReadWriter = ReadWriter
    MockReader = MockReader
    MockReadWriter = MockReadWriter
    Types <- MCTypes
    Interfaces <- MCInterfaces
    Implements <- MCImplements
    Builders = {b1, b2}
    MaxAdds = 3
    MaxSetups = 2
    MaxStages = 2
    MaxExpected = 2
    Followed <- MCFollowed
    b1 = b1
    b2 = b2
INVARIANTS
    TypeOK
    OneInstancePerRegistration
    OneComposition
    SatisfiedMeansMet
    EveryMissingCallIsNamed
