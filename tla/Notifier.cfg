SPECIFICATION NotifierFairSpec
CONSTANTS
    Clients = {simulation, writer}
    MaxMessages = 2
    Stop = Stop
INVARIANTS
    CloseFlushes
    HandledInOrder
PROPERTY CloseEnds
