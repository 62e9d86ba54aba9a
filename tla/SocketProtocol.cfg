SPECIFICATION FairSpec
CONSTANTS
    Messages = 2
    Arrays = 2
    Sizes = {1, 2}
    Encodes = TRUE
    HeaderUnits = 2
    Buffer = 3
    End = End
    Garbage = Garbage
INVARIANTS
    ReceivedWhole
PROPERTIES
    ImplementsMessages
