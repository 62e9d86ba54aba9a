SPECIFICATION FairSpec
CONSTANTS
    Producers = {p1, p2}
    Kinds = {"valid", "stale", "keyless", "outside"}
    Steps = 2
    Buffer = 1
    MaxFaults = 2
    End = End
    None = None
INVARIANTS
    OneProducer
    WholeSteps
    CleanEndComplete
PROPERTIES
    EveryoneEnds
