SPECIFICATION FairSpec
CONSTANTS
    MaxLaunches = 3
    MaxLost = 1
    MaxFaults = 1
    MaxSize = 1
    Ports = 2
INVARIANTS
    OwnRendezvous
    RemovesOwnFile
    OrphansBounded
PROPERTIES
    OldOutputsKept
    LaunchEnds
    CloseCleansUp
