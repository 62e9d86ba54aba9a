SPECIFICATION FairSpec
CONSTANTS
    Steps = 3
    Limits = {0, 2}
    MaxLaunches = 3
    MaxFaults = 2
    End = End
INVARIANTS
    AckedStored
    OneAlertPerLoss
PROPERTIES
    NothingResent
    ImplementsDelivery
    AllAcknowledged
